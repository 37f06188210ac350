--------------------------- MODULE GatewayRunsProofs ---------------------------
(***************************************************************************)
(* The runs of the gateway, and the orchestrator that asks for many of     *)
(* them.  First the sessions: one run per session, and a registry that is  *)
(* never stale, for every number of sessions, messages and direct runs,    *)
(* every setting of the global lane and every queue mode.  The inductive   *)
(* invariant says where a caller that waits is queued, that one caller at  *)
(* most holds the lane of a session, and that a caller which is about to   *)
(* enqueue a run is idle.  A second one says where a queued message is,    *)
(* and that it is there once.                                              *)
(*                                                                         *)
(* Then the orchestrator: no offset passes an incident that has no record, *)
(* and no item is handed out twice, for any incidents, lines and faults.   *)
(* The two parts have their states and their theorems apart.               *)
(***************************************************************************)
EXTENDS SessionRuns, Orchestrator, SequenceTheorems, FiniteSetTheorems,
        WellFoundedInduction, TLAPS

Waiting == {"sessionWait", "globalWait"}
Holding == InAttempt \cup {"globalWait"}

\* What waits in the lane of a session is a run of that session, and waits once.
SessionQueuesOK ==
    \A s \in Sessions :
        /\ \A i \in 1..Len(sessionQueue[s]) : /\ KeyOf(sessionQueue[s][i]) = s
                                              /\ phase[sessionQueue[s][i]] = "sessionWait"
        /\ \A i, j \in 1..Len(sessionQueue[s]) : sessionQueue[s][i] = sessionQueue[s][j] => i = j

GlobalQueueOK ==
    /\ \A i \in 1..Len(globalQueue) : phase[globalQueue[i]] = "globalWait"
    /\ \A i, j \in 1..Len(globalQueue) : globalQueue[i] = globalQueue[j] => i = j

\* One caller at most holds the lane of a session, waiting or running.
HoldsOnce ==
    \A c, d \in Callers :
        KeyOf(c) = KeyOf(d) /\ phase[c] \in Holding /\ phase[d] \in Holding => c = d

\* A message that is not dispatched and a turn that is not started have no run.
IdleOK ==
    /\ \A r \in Replies : pc[r] \in {"new", "checked"} => phase[r] = "idle"
    /\ \A s \in Sessions : loop[s] # "turn" => phase[Turn(s)] = "idle"

QueuesOK == SessionQueuesOK /\ GlobalQueueOK

IInv == TypeOK /\ QueuesOK /\ HoldsOnce /\ IdleOK /\ RegistryMatchesRuns

--------------------------------------------------------------------------------
(* The callers and their sessions *)

\* Every caller has a session; the turn of a session is of that session.
LEMMA CallerFacts ==
    /\ \A c \in Callers : KeyOf(c) \in Sessions
    /\ \A s \in Sessions : Turn(s) \in Callers /\ KeyOf(Turn(s)) = s
    /\ \A r \in Replies : r \in Callers /\ KeyOf(r) = SessionOf[r] /\ SessionOf[r] \in Sessions
    /\ \A d \in Directs : d \in Callers
    /\ \A r \in Replies, s \in Sessions : r # Turn(s)
    /\ \A r \in Replies, d \in Directs : r # d
    /\ \A d \in Directs, s \in Sessions : d # Turn(s)
    /\ \A s, t \in Sessions : Turn(s) = Turn(t) => s = t
<1>1. \A s \in Sessions : Turn(s) \in Turns /\ Turn(s)[2] = s
  BY DEF Turns, Turn
<1>2. ASSUME NEW c \in Turns PROVE c[2] \in Sessions
  <2>1. PICK s \in Sessions : c = Turn(s)
    BY DEF Turns
  <2> QED
    BY <2>1, <1>1
<1>3. \A c \in Replies \cup Directs : c \notin Turns /\ SessionOf[c] \in Sessions
  BY CallersAssumption, SessionOfAssumption
<1>4. Replies \cap Directs = {}
  BY CallersAssumption
<1> QED
  BY <1>1, <1>2, <1>3, <1>4 DEF KeyOf, Callers

\* A non-empty sequence is its head and then its tail.
LEMMA TailFacts ==
    ASSUME NEW S, NEW q \in Seq(S), q # <<>>
    PROVE  /\ Head(q) \in S /\ Tail(q) \in Seq(S)
           /\ 1 \in 1..Len(q) /\ Head(q) = q[1]
           /\ Len(Tail(q)) = Len(q) - 1
           /\ \A i \in 1..Len(Tail(q)) : Tail(q)[i] = q[i + 1] /\ i + 1 \in 1..Len(q)
  OBVIOUS

\* A sequence that gets one more element at its end keeps the others.
LEMMA AppendFacts ==
    ASSUME NEW S, NEW q \in Seq(S), NEW c \in S
    PROVE  /\ Append(q, c) \in Seq(S)
           /\ Len(Append(q, c)) = Len(q) + 1 /\ Append(q, c)[Len(q) + 1] = c
           /\ \A i \in 1..Len(q) : Append(q, c)[i] = q[i]
  OBVIOUS

\* A sequence without repetitions stays one when a new element joins it.
LEMMA AppendKeepsApart ==
    ASSUME NEW S, NEW q \in Seq(S), NEW c \in S,
           \A i, j \in 1..Len(q) : q[i] = q[j] => i = j,
           \A i \in 1..Len(q) : q[i] # c
    PROVE  \A i, j \in 1..Len(Append(q, c)) : Append(q, c)[i] = Append(q, c)[j] => i = j
<1>1. /\ Len(Append(q, c)) = Len(q) + 1 /\ Append(q, c)[Len(q) + 1] = c
      /\ \A i \in 1..Len(q) : Append(q, c)[i] = q[i]
  BY AppendFacts
<1>2. Len(q) \in Nat
  OBVIOUS
<1>3. \A i \in 1..(Len(q) + 1) : i \in 1..Len(q) \/ i = Len(q) + 1
  BY <1>2
<1> QED
  BY <1>1, <1>3

--------------------------------------------------------------------------------
(* What the steps do to the lanes *)

\* A caller that waits in no lane moves to a place that is in no lane either.
LEMMA MoveKeepsQueues ==
    ASSUME TypeOK, QueuesOK, NEW c \in Callers, NEW p \in Phases,
           phase[c] \notin Waiting, phase' = [phase EXCEPT ![c] = p],
           sessionQueue' = sessionQueue, globalQueue' = globalQueue
    PROVE  QueuesOK'
<1>1. \A s \in Sessions : \A i \in 1..Len(sessionQueue[s]) :
          sessionQueue[s][i] \in Callers
  BY DEF TypeOK
<1>2. \A i \in 1..Len(globalQueue) : globalQueue[i] \in Callers
  BY DEF TypeOK
<1>3. \A d \in Callers : phase[d] \in Waiting => phase'[d] = phase[d]
  BY DEF TypeOK
<1>4. SessionQueuesOK'
  BY <1>1, <1>3 DEF QueuesOK, SessionQueuesOK, Waiting
<1>5. GlobalQueueOK'
  BY <1>2, <1>3 DEF QueuesOK, GlobalQueueOK, Waiting
<1> QED
  BY <1>4, <1>5 DEF QueuesOK

\* Nobody takes the lane of a session: at most one still holds it.
LEMMA HoldsShrinks ==
    ASSUME HoldsOnce, \A c \in Callers : phase'[c] \in Holding => phase[c] \in Holding
    PROVE  HoldsOnce'
  BY DEF HoldsOnce

\* No prompt begins or ends: the registry is right as it is.
LEMMA RegistryKept ==
    ASSUME RegistryMatchesRuns, registry' = registry,
           \A c \in Callers : phase'[c] = "active" <=> phase[c] = "active"
    PROVE  RegistryMatchesRuns'
  BY DEF RegistryMatchesRuns

\* A run that enqueues in the lane of its session was idle, and waits there alone.
LEMMA EnqueueKeeps ==
    ASSUME IInv, NEW c \in Callers, phase[c] = "idle", EnqueueRun(c)
    PROVE  /\ phase' \in [Callers -> Phases] /\ phase'[c] = "sessionWait"
           /\ \A d \in Callers \ {c} : phase'[d] = phase[d]
           /\ sessionQueue' \in [Sessions -> Seq(Callers)] /\ globalQueue' = globalQueue
           /\ QueuesOK' /\ HoldsOnce'
           /\ registry' = registry => RegistryMatchesRuns'
<1> DEFINE k == KeyOf(c)
<1>0. k \in Sessions
  BY CallerFacts
<1>1. /\ phase \in [Callers -> Phases] /\ sessionQueue \in [Sessions -> Seq(Callers)]
      /\ globalQueue \in Seq(Callers)
  BY DEF IInv, TypeOK
<1>2. /\ phase' = [phase EXCEPT ![c] = "sessionWait"]
      /\ sessionQueue' = [sessionQueue EXCEPT ![k] = Append(sessionQueue[k], c)]
      /\ globalQueue' = globalQueue
  BY DEF EnqueueRun
<1>3. /\ phase' \in [Callers -> Phases] /\ phase'[c] = "sessionWait"
      /\ \A d \in Callers \ {c} : phase'[d] = phase[d]
  BY <1>1, <1>2 DEF Phases
<1>4. Append(sessionQueue[k], c) \in Seq(Callers)
  BY <1>0, <1>1
<1>5. sessionQueue' \in [Sessions -> Seq(Callers)]
  BY <1>1, <1>2, <1>4
<1>6. \A s \in Sessions \ {k} : sessionQueue'[s] = sessionQueue[s]
  BY <1>1, <1>2
<1>7. sessionQueue'[k] = Append(sessionQueue[k], c)
  BY <1>0, <1>1, <1>2
<1>8. \A s \in Sessions : \A i \in 1..Len(sessionQueue[s]) :
          sessionQueue[s][i] \in Callers \ {c}
  BY <1>1 DEF IInv, QueuesOK, SessionQueuesOK
<1>9. SessionQueuesOK'
  <2> SUFFICES ASSUME NEW s \in Sessions
               PROVE  /\ \A i \in 1..Len(sessionQueue'[s]) :
                            /\ KeyOf(sessionQueue'[s][i]) = s
                            /\ phase'[sessionQueue'[s][i]] = "sessionWait"
                      /\ \A i, j \in 1..Len(sessionQueue'[s]) :
                            sessionQueue'[s][i] = sessionQueue'[s][j] => i = j
    BY DEF SessionQueuesOK
  <2>1. CASE s # k
    BY <2>1, <1>3, <1>6, <1>8 DEF IInv, QueuesOK, SessionQueuesOK
  <2>2. CASE s = k
    <3> DEFINE q == sessionQueue[k]
    <3>1. q \in Seq(Callers) /\ Len(q) \in Nat
      BY <1>0, <1>1
    <3>2. /\ Len(Append(q, c)) = Len(q) + 1 /\ Append(q, c)[Len(q) + 1] = c
          /\ \A i \in 1..Len(q) : Append(q, c)[i] = q[i]
      BY <3>1, AppendFacts
    <3>3. /\ \A i \in 1..Len(q) : KeyOf(q[i]) = k /\ phase[q[i]] = "sessionWait"
          /\ \A i, j \in 1..Len(q) : q[i] = q[j] => i = j
          /\ \A i \in 1..Len(q) : q[i] \in Callers /\ q[i] # c
      BY <1>0, <1>8 DEF IInv, QueuesOK, SessionQueuesOK
    <3>4. \A i, j \in 1..Len(Append(q, c)) : Append(q, c)[i] = Append(q, c)[j] => i = j
      BY <3>1, <3>3, AppendKeepsApart
    <3>5. \A i \in 1..Len(Append(q, c)) : i \in 1..Len(q) \/ i = Len(q) + 1
      BY <3>1, <3>2
    <3>6. \A i \in 1..Len(Append(q, c)) : /\ KeyOf(Append(q, c)[i]) = k
                                          /\ phase'[Append(q, c)[i]] = "sessionWait"
      BY <3>2, <3>3, <3>5, <1>3
    <3> QED
      BY <2>2, <1>7, <3>4, <3>6
  <2> QED
    BY <2>1, <2>2
<1>10. GlobalQueueOK'
  <2>1. \A i \in 1..Len(globalQueue) : globalQueue[i] \in Callers \ {c}
    BY <1>1 DEF IInv, QueuesOK, GlobalQueueOK
  <2> QED
    BY <2>1, <1>2, <1>3 DEF IInv, QueuesOK, GlobalQueueOK
<1>11. HoldsOnce'
  BY <1>3, HoldsShrinks DEF IInv, Holding, InAttempt
<1>12. registry' = registry => RegistryMatchesRuns'
  BY <1>3, RegistryKept DEF IInv
<1> QED
  BY <1>2, <1>3, <1>5, <1>9, <1>10, <1>11, <1>12 DEF QueuesOK

\* A lane that is cleared is empty, and the runs that waited in it are nowhere.
LEMMA ClearKeeps ==
    ASSUME IInv, NEW s \in Sessions, ClearLane(s)
    PROVE  /\ phase' \in [Callers -> Phases]
           /\ \A c \in Callers : phase[c] # "sessionWait" => phase'[c] = phase[c]
           /\ \A c \in Callers : phase'[c] \in {phase[c], "lost"}
           /\ sessionQueue' \in [Sessions -> Seq(Callers)] /\ globalQueue' = globalQueue
           /\ QueuesOK' /\ HoldsOnce'
           /\ registry' = registry => RegistryMatchesRuns'
<1>1. /\ phase \in [Callers -> Phases] /\ sessionQueue \in [Sessions -> Seq(Callers)]
      /\ globalQueue \in Seq(Callers)
  BY DEF IInv, TypeOK
<1>2. /\ phase' = [c \in Callers |->
                      IF KeyOf(c) = s /\ phase[c] = "sessionWait" THEN "lost" ELSE phase[c]]
      /\ sessionQueue' = [sessionQueue EXCEPT ![s] = <<>>]
      /\ globalQueue' = globalQueue
  BY DEF ClearLane
<1>3. /\ phase' \in [Callers -> Phases]
      /\ \A c \in Callers : phase[c] # "sessionWait" => phase'[c] = phase[c]
      /\ \A c \in Callers : phase'[c] \in {phase[c], "lost"}
      /\ \A c \in Callers : KeyOf(c) # s => phase'[c] = phase[c]
  BY <1>1, <1>2 DEF Phases
<1>4. <<>> \in Seq(Callers) /\ Len(<<>>) = 0
  OBVIOUS
<1>5. /\ sessionQueue' \in [Sessions -> Seq(Callers)]
      /\ sessionQueue'[s] = <<>>
      /\ \A t \in Sessions \ {s} : sessionQueue'[t] = sessionQueue[t]
  BY <1>1, <1>2, <1>4
<1>6. SessionQueuesOK'
  <2> SUFFICES ASSUME NEW t \in Sessions
               PROVE  /\ \A i \in 1..Len(sessionQueue'[t]) :
                            /\ KeyOf(sessionQueue'[t][i]) = t
                            /\ phase'[sessionQueue'[t][i]] = "sessionWait"
                      /\ \A i, j \in 1..Len(sessionQueue'[t]) :
                            sessionQueue'[t][i] = sessionQueue'[t][j] => i = j
    BY DEF SessionQueuesOK
  <2>1. CASE t = s
    BY <2>1, <1>4, <1>5
  <2>2. CASE t # s
    <3>1. \A i \in 1..Len(sessionQueue[t]) : sessionQueue[t][i] \in Callers
      BY <1>1
    <3>2. /\ \A i \in 1..Len(sessionQueue[t]) : /\ KeyOf(sessionQueue[t][i]) = t
                                                /\ phase[sessionQueue[t][i]] = "sessionWait"
          /\ \A i, j \in 1..Len(sessionQueue[t]) : sessionQueue[t][i] = sessionQueue[t][j] => i = j
      BY DEF IInv, QueuesOK, SessionQueuesOK
    <3>3. \A i \in 1..Len(sessionQueue[t]) :
              phase'[sessionQueue[t][i]] = phase[sessionQueue[t][i]]
      BY <2>2, <3>1, <3>2, <1>3
    <3>4. sessionQueue'[t] = sessionQueue[t]
      BY <2>2, <1>5
    <3> QED
      BY <3>2, <3>3, <3>4
  <2> QED
    BY <2>1, <2>2
<1>7. GlobalQueueOK'
  <2>1. \A i \in 1..Len(globalQueue) : globalQueue[i] \in Callers
    BY <1>1
  <2> QED
    BY <2>1, <1>2, <1>3 DEF IInv, QueuesOK, GlobalQueueOK
<1>8. HoldsOnce'
  BY <1>3, HoldsShrinks DEF IInv, Holding, InAttempt
<1>9. registry' = registry => RegistryMatchesRuns'
  <2>1. \A c \in Callers : phase'[c] = "active" <=> phase[c] = "active"
    BY <1>3
  <2> QED
    BY <2>1, RegistryKept DEF IInv
<1> QED
  BY <1>2, <1>3, <1>5, <1>6, <1>7, <1>8, <1>9 DEF QueuesOK

\* The first of a session lane goes on to the global lane and holds the session.
LEMMA StartInSessionKeeps ==
    ASSUME IInv, NEW s \in Sessions, StartInSession(s) PROVE IInv'
<1> DEFINE c == Head(sessionQueue[s])
           q == sessionQueue[s]
<1>1. /\ phase \in [Callers -> Phases] /\ sessionQueue \in [Sessions -> Seq(Callers)]
      /\ globalQueue \in Seq(Callers)
  BY DEF IInv, TypeOK
<1>2. q \in Seq(Callers) /\ q # <<>> /\ Holds(s) = {}
  BY <1>1 DEF StartInSession, SessionRoom
<1>3. /\ c \in Callers /\ Tail(q) \in Seq(Callers)
      /\ 1 \in 1..Len(q) /\ c = q[1]
      /\ \A i \in 1..Len(Tail(q)) : Tail(q)[i] = q[i + 1] /\ i + 1 \in 1..Len(q)
  BY <1>2, TailFacts
<1>4. /\ KeyOf(c) = s /\ phase[c] = "sessionWait"
      /\ \A i \in 1..Len(q) : KeyOf(q[i]) = s /\ phase[q[i]] = "sessionWait"
      /\ \A i, j \in 1..Len(q) : q[i] = q[j] => i = j
  BY <1>3 DEF IInv, QueuesOK, SessionQueuesOK
<1>5. /\ phase' = [phase EXCEPT ![c] = "globalWait"]
      /\ sessionQueue' = [sessionQueue EXCEPT ![s] = Tail(q)]
      /\ globalQueue' = Append(globalQueue, c)
      /\ UNCHANGED <<registry, aborted, pc, saw, pending, batch, loop, deletion>>
  BY DEF StartInSession, replyVars, followVars
<1>6. /\ phase' \in [Callers -> Phases] /\ phase'[c] = "globalWait"
      /\ \A d \in Callers \ {c} : phase'[d] = phase[d]
  BY <1>1, <1>3, <1>5 DEF Phases
<1>7. /\ sessionQueue' \in [Sessions -> Seq(Callers)] /\ sessionQueue'[s] = Tail(q)
      /\ \A t \in Sessions \ {s} : sessionQueue'[t] = sessionQueue[t]
  BY <1>1, <1>3, <1>5
<1>8. TypeOK'
  BY <1>1, <1>3, <1>5, <1>6, <1>7, AppendFacts DEF IInv, TypeOK
<1>9. SessionQueuesOK'
  <2> SUFFICES ASSUME NEW t \in Sessions
               PROVE  /\ \A i \in 1..Len(sessionQueue'[t]) :
                            /\ KeyOf(sessionQueue'[t][i]) = t
                            /\ phase'[sessionQueue'[t][i]] = "sessionWait"
                      /\ \A i, j \in 1..Len(sessionQueue'[t]) :
                            sessionQueue'[t][i] = sessionQueue'[t][j] => i = j
    BY DEF SessionQueuesOK
  <2>1. CASE t = s
    <3>1. \A i \in 1..Len(Tail(q)) : /\ Tail(q)[i] = q[i + 1] /\ i + 1 \in 1..Len(q)
                                     /\ q[i + 1] # q[1] /\ q[i + 1] \in Callers
      BY <1>2, <1>3, <1>4
    <3>2. \A i, j \in 1..Len(Tail(q)) : i + 1 = j + 1 => i = j
      OBVIOUS
    <3>3. \A i \in 1..Len(Tail(q)) : KeyOf(Tail(q)[i]) = s /\ phase'[Tail(q)[i]] = "sessionWait"
      BY <3>1, <1>3, <1>4, <1>6
    <3>4. \A i, j \in 1..Len(Tail(q)) : Tail(q)[i] = Tail(q)[j] => i = j
      BY <3>1, <3>2, <1>4
    <3>5. sessionQueue'[t] = Tail(q) /\ t = s
      BY <2>1, <1>7
    <3> HIDE DEF q
    <3> QED
      BY <3>3, <3>4, <3>5
  <2>2. CASE t # s
    <3>1. sessionQueue'[t] = sessionQueue[t]
      BY <2>2, <1>7
    <3>2. /\ \A i \in 1..Len(sessionQueue[t]) : /\ KeyOf(sessionQueue[t][i]) = t
                                                /\ phase[sessionQueue[t][i]] = "sessionWait"
          /\ \A i, j \in 1..Len(sessionQueue[t]) : sessionQueue[t][i] = sessionQueue[t][j] => i = j
      BY DEF IInv, QueuesOK, SessionQueuesOK
    <3>3. \A i \in 1..Len(sessionQueue[t]) : sessionQueue[t][i] \in Callers
      BY <1>1
    <3>4. \A i \in 1..Len(sessionQueue[t]) :
              phase'[sessionQueue[t][i]] = phase[sessionQueue[t][i]]
      BY <2>2, <3>2, <3>3, <1>4, <1>6
    <3> QED
      BY <3>1, <3>2, <3>4
  <2> QED
    BY <2>1, <2>2
<1>10. GlobalQueueOK'
  <2>1. /\ \A i \in 1..Len(globalQueue) : /\ globalQueue[i] \in Callers
                                          /\ phase[globalQueue[i]] = "globalWait"
                                          /\ globalQueue[i] # c
        /\ \A i, j \in 1..Len(globalQueue) : globalQueue[i] = globalQueue[j] => i = j
    BY <1>1, <1>4 DEF IInv, QueuesOK, GlobalQueueOK
  <2>2. /\ Len(Append(globalQueue, c)) = Len(globalQueue) + 1 /\ Len(globalQueue) \in Nat
        /\ Append(globalQueue, c)[Len(globalQueue) + 1] = c
        /\ \A i \in 1..Len(globalQueue) : Append(globalQueue, c)[i] = globalQueue[i]
    BY <1>1, <1>3, AppendFacts
  <2>3. \A i \in 1..(Len(globalQueue) + 1) : i \in 1..Len(globalQueue) \/ i = Len(globalQueue) + 1
    BY <2>2
  <2>4. \A i, j \in 1..Len(globalQueue') : globalQueue'[i] = globalQueue'[j] => i = j
    BY <2>1, <1>1, <1>3, <1>5, AppendKeepsApart
  <2>5. \A i \in 1..Len(globalQueue') : phase'[globalQueue'[i]] = "globalWait"
    BY <2>1, <2>2, <2>3, <1>5, <1>6
  <2> QED
    BY <2>4, <2>5 DEF GlobalQueueOK
<1>11. HoldsOnce'
  <2>1. \A d \in Callers : KeyOf(d) = s => phase[d] \notin Holding
    BY <1>2 DEF Holds, Holding
  <2> QED
    BY <2>1, <1>3, <1>4, <1>6 DEF IInv, HoldsOnce
<1>12. IdleOK'
  <2>1. /\ \A r \in Replies : r \in Callers
        /\ \A t \in Sessions : Turn(t) \in Callers
    BY CallerFacts
  <2> QED
    BY <2>1, <1>4, <1>5, <1>6 DEF IInv, IdleOK
<1>13. RegistryMatchesRuns'
  BY <1>4, <1>5, <1>6, RegistryKept DEF IInv
<1> QED
  BY <1>8, <1>9, <1>10, <1>11, <1>12, <1>13 DEF IInv, QueuesOK

\* The first of the global lane starts.
LEMMA StartInGlobalKeeps ==
    ASSUME IInv, StartInGlobal PROVE IInv'
<1> DEFINE c == Head(globalQueue)
           q == globalQueue
<1>1. /\ phase \in [Callers -> Phases] /\ sessionQueue \in [Sessions -> Seq(Callers)]
      /\ globalQueue \in Seq(Callers)
  BY DEF IInv, TypeOK
<1>2. /\ c \in Callers /\ Tail(q) \in Seq(Callers)
      /\ 1 \in 1..Len(q) /\ c = q[1]
      /\ \A i \in 1..Len(Tail(q)) : Tail(q)[i] = q[i + 1] /\ i + 1 \in 1..Len(q)
  BY <1>1, TailFacts DEF StartInGlobal, GlobalRoom
<1>3. /\ phase[c] = "globalWait"
      /\ \A i \in 1..Len(q) : phase[q[i]] = "globalWait"
      /\ \A i, j \in 1..Len(q) : q[i] = q[j] => i = j
  BY <1>2 DEF IInv, QueuesOK, GlobalQueueOK
<1>4. /\ phase' = [phase EXCEPT ![c] = "starting"]
      /\ globalQueue' = Tail(q)
      /\ UNCHANGED <<sessionQueue, registry, aborted, pc, saw, pending, batch, loop, deletion>>
  BY DEF StartInGlobal, replyVars, followVars
<1>5. /\ phase' \in [Callers -> Phases] /\ phase'[c] = "starting"
      /\ \A d \in Callers \ {c} : phase'[d] = phase[d]
  BY <1>1, <1>2, <1>4 DEF Phases
<1>6. TypeOK'
  BY <1>2, <1>4, <1>5 DEF IInv, TypeOK
<1>7. SessionQueuesOK'
  <2> SUFFICES ASSUME NEW t \in Sessions
               PROVE  /\ \A i \in 1..Len(sessionQueue[t]) :
                            /\ KeyOf(sessionQueue[t][i]) = t
                            /\ phase'[sessionQueue[t][i]] = "sessionWait"
                      /\ \A i, j \in 1..Len(sessionQueue[t]) :
                            sessionQueue[t][i] = sessionQueue[t][j] => i = j
    BY <1>4 DEF SessionQueuesOK
  <2>1. /\ \A i \in 1..Len(sessionQueue[t]) : /\ KeyOf(sessionQueue[t][i]) = t
                                              /\ phase[sessionQueue[t][i]] = "sessionWait"
        /\ \A i, j \in 1..Len(sessionQueue[t]) : sessionQueue[t][i] = sessionQueue[t][j] => i = j
    BY DEF IInv, QueuesOK, SessionQueuesOK
  <2>2. \A i \in 1..Len(sessionQueue[t]) : sessionQueue[t][i] \in Callers
    BY <1>1
  <2> QED
    BY <2>1, <2>2, <1>3, <1>5
<1>8. GlobalQueueOK'
  <2>1. \A i \in 1..Len(Tail(q)) : /\ Tail(q)[i] = q[i + 1] /\ i + 1 \in 1..Len(q)
                                   /\ q[i + 1] # q[1] /\ q[i + 1] \in Callers
    BY <1>1, <1>2, <1>3
  <2>2. \A i, j \in 1..Len(Tail(q)) : i + 1 = j + 1 => i = j
    OBVIOUS
  <2>3. \A i \in 1..Len(Tail(q)) : phase'[Tail(q)[i]] = "globalWait"
    BY <2>1, <1>2, <1>3, <1>5
  <2>4. \A i, j \in 1..Len(Tail(q)) : Tail(q)[i] = Tail(q)[j] => i = j
    BY <2>1, <2>2, <1>3
  <2> QED
    BY <2>3, <2>4, <1>4 DEF GlobalQueueOK
<1>9. HoldsOnce'
  BY <1>3, <1>5, HoldsShrinks DEF IInv, Holding, InAttempt
<1>10. IdleOK'
  <2>1. /\ \A r \in Replies : r \in Callers
        /\ \A t \in Sessions : Turn(t) \in Callers
    BY CallerFacts
  <2> QED
    BY <2>1, <1>3, <1>4, <1>5 DEF IInv, IdleOK
<1>11. RegistryMatchesRuns'
  BY <1>3, <1>4, <1>5, RegistryKept DEF IInv
<1> QED
  BY <1>6, <1>7, <1>8, <1>9, <1>10, <1>11 DEF IInv, QueuesOK

--------------------------------------------------------------------------------
(* The attempts of a run *)

\* A run that is in its lanes moves on, or leaves them: nothing of the lanes, of the
\* messages or of the followup loops is disturbed.
LEMMA AttemptKeeps ==
    ASSUME IInv, NEW c \in Callers, NEW p \in InAttempt \cup {"done"},
           phase[c] \in InAttempt, phase' = [phase EXCEPT ![c] = p],
           UNCHANGED <<sessionQueue, globalQueue, pc, saw, pending, batch, loop>>
    PROVE  /\ phase' \in [Callers -> Phases] /\ phase'[c] = p
           /\ \A d \in Callers \ {c} : phase'[d] = phase[d]
           /\ QueuesOK' /\ HoldsOnce' /\ IdleOK'
<1>1. phase \in [Callers -> Phases] /\ p \in Phases
  BY DEF IInv, TypeOK, Phases, InAttempt
<1>2. /\ phase' \in [Callers -> Phases] /\ phase'[c] = p
      /\ \A d \in Callers \ {c} : phase'[d] = phase[d]
  BY <1>1
<1>3. QueuesOK'
  BY <1>1, MoveKeepsQueues DEF IInv, InAttempt, Waiting
<1>4. HoldsOnce'
  BY <1>2, HoldsShrinks DEF IInv, Holding
<1>5. IdleOK'
  <2>1. /\ \A r \in Replies : r \in Callers
        /\ \A t \in Sessions : Turn(t) \in Callers
    BY CallerFacts
  <2> QED
    BY <2>1, <1>2 DEF IInv, IdleOK, InAttempt
<1> QED
  BY <1>2, <1>3, <1>4, <1>5

\* One prompt of a session at most goes on.
LEMMA OnePrompt ==
    ASSUME IInv, NEW c \in Callers, phase[c] \in InAttempt,
           NEW d \in Callers, KeyOf(d) = KeyOf(c), phase[d] = "active"
    PROVE  c = d
  BY DEF IInv, HoldsOnce, Holding, InAttempt

\* The handle that is registered is that of the only run in the lane.
LEMMA SetActiveKeeps ==
    ASSUME IInv, NEW c \in Callers, SetActive(c) PROVE IInv'
<1> DEFINE k == KeyOf(c)
<1>1. /\ phase[c] = "starting"
      /\ phase' = [phase EXCEPT ![c] = "active"]
      /\ registry' = [registry EXCEPT ![k] = c]
      /\ UNCHANGED <<sessionQueue, globalQueue, aborted, pc, saw, pending, batch, loop, deletion>>
  BY DEF SetActive, replyVars, followVars
<1>2. k \in Sessions /\ registry \in [Sessions -> Callers \cup {None}]
  BY CallerFacts DEF IInv, TypeOK
<1>3. /\ phase' \in [Callers -> Phases] /\ phase'[c] = "active"
      /\ \A d \in Callers \ {c} : phase'[d] = phase[d]
      /\ QueuesOK' /\ HoldsOnce' /\ IdleOK'
  <2>1. phase[c] \in InAttempt /\ "active" \in InAttempt \cup {"done"}
    BY <1>1 DEF InAttempt
  <2> QED
    BY <2>1, <1>1, AttemptKeeps
<1>4. /\ registry' \in [Sessions -> Callers \cup {None}] /\ registry'[k] = c
      /\ \A s \in Sessions \ {k} : registry'[s] = registry[s]
  BY <1>1, <1>2
<1>5. TypeOK'
  BY <1>1, <1>3, <1>4 DEF IInv, TypeOK
<1>6. RegistryMatchesRuns'
  <2> SUFFICES ASSUME NEW s \in Sessions, NEW d \in Callers
               PROVE  registry'[s] = d <=> KeyOf(d) = s /\ phase'[d] = "active"
    BY DEF RegistryMatchesRuns
  <2>1. registry[s] = d <=> KeyOf(d) = s /\ phase[d] = "active"
    BY DEF IInv, RegistryMatchesRuns
  <2>2. phase[d] = "active" /\ KeyOf(d) = k => c = d
    BY <1>1, OnePrompt DEF InAttempt
  <2>3. CASE s = k
    BY <2>1, <2>2, <2>3, <1>1, <1>3, <1>4
  <2>4. CASE s # k
    BY <2>1, <2>4, <1>3, <1>4
  <2> QED
    BY <2>3, <2>4
<1> QED
  BY <1>3, <1>5, <1>6 DEF IInv

\* The handle is still that of the run when its prompt ends, and is removed.
LEMMA EndPromptKeeps ==
    ASSUME IInv, NEW c \in Callers, EndPrompt(c) PROVE IInv'
<1> DEFINE k == KeyOf(c)
<1>1. /\ phase[c] = "active"
      /\ phase' = [phase EXCEPT ![c] = "ending"]
      /\ aborted' \in {aborted, aborted \ {c}}
      /\ UNCHANGED <<sessionQueue, globalQueue, pc, saw, pending, batch, loop>>
  BY DEF EndPrompt, replyVars, followVars
<1>2. /\ k \in Sessions /\ registry \in [Sessions -> Callers \cup {None}]
      /\ deletion \in [Sessions -> Deletions]
  BY CallerFacts DEF IInv, TypeOK
<1>3. registry[k] = c
  BY <1>1, <1>2 DEF IInv, RegistryMatchesRuns
<1>4. /\ registry' = [registry EXCEPT ![k] = None]
      /\ deletion' = [deletion EXCEPT ![k] = IF @ = "waiting" THEN "saving" ELSE @]
  BY <1>3 DEF EndPrompt
<1>5. /\ phase' \in [Callers -> Phases] /\ phase'[c] = "ending"
      /\ \A d \in Callers \ {c} : phase'[d] = phase[d]
      /\ QueuesOK' /\ HoldsOnce' /\ IdleOK'
  <2>1. phase[c] \in InAttempt /\ "ending" \in InAttempt \cup {"done"}
    BY <1>1 DEF InAttempt
  <2> QED
    BY <2>1, <1>1, AttemptKeeps
<1>6. /\ registry' \in [Sessions -> Callers \cup {None}] /\ registry'[k] = None
      /\ \A s \in Sessions \ {k} : registry'[s] = registry[s]
      /\ deletion' \in [Sessions -> Deletions]
  BY <1>2, <1>4 DEF Deletions
<1>7. TypeOK'
  BY <1>1, <1>5, <1>6 DEF IInv, TypeOK
<1>8. RegistryMatchesRuns'
  <2> SUFFICES ASSUME NEW s \in Sessions, NEW d \in Callers
               PROVE  registry'[s] = d <=> KeyOf(d) = s /\ phase'[d] = "active"
    BY DEF RegistryMatchesRuns
  <2>1. registry[s] = d <=> KeyOf(d) = s /\ phase[d] = "active"
    BY DEF IInv, RegistryMatchesRuns
  <2>2. phase[d] = "active" /\ KeyOf(d) = k => c = d
    BY <1>1, OnePrompt DEF InAttempt
  <2>3. None # d
    BY CallersAssumption
  <2>4. CASE s = k
    BY <2>1, <2>2, <2>3, <2>4, <1>1, <1>5, <1>6
  <2>5. CASE s # k
    BY <2>1, <2>5, <1>5, <1>6
  <2> QED
    BY <2>4, <2>5
<1> QED
  BY <1>5, <1>7, <1>8 DEF IInv

\* Another attempt starts in the lanes that the run still holds.
LEMMA RetryKeeps ==
    ASSUME IInv, NEW c \in Callers, Retry(c) PROVE IInv'
<1>1. /\ phase[c] = "ending"
      /\ phase' = [phase EXCEPT ![c] = "starting"]
      /\ UNCHANGED <<sessionQueue, globalQueue, registry, aborted, pc, saw, pending, batch,
                     loop, deletion>>
  BY DEF Retry, replyVars, followVars
<1>2. /\ phase' \in [Callers -> Phases] /\ phase'[c] = "starting"
      /\ \A d \in Callers \ {c} : phase'[d] = phase[d]
      /\ QueuesOK' /\ HoldsOnce' /\ IdleOK'
  <2>1. phase[c] \in InAttempt /\ "starting" \in InAttempt \cup {"done"}
    BY <1>1 DEF InAttempt
  <2> QED
    BY <2>1, <1>1, AttemptKeeps
<1>3. TypeOK'
  BY <1>1, <1>2 DEF IInv, TypeOK
<1>4. RegistryMatchesRuns'
  BY <1>1, <1>2, RegistryKept DEF IInv
<1> QED
  BY <1>2, <1>3, <1>4 DEF IInv

\* The run gives its lanes back.
LEMMA LeaveLanesKeeps ==
    ASSUME IInv, NEW c \in Callers, LeaveLanes(c) PROVE IInv'
<1>1. /\ phase[c] \in {"starting", "ending"}
      /\ phase' = [phase EXCEPT ![c] = "done"]
      /\ aborted' = aborted \ {c}
      /\ UNCHANGED <<sessionQueue, globalQueue, registry, pc, saw, pending, batch, loop, deletion>>
  BY DEF LeaveLanes, replyVars, followVars
<1>2. /\ phase' \in [Callers -> Phases] /\ phase'[c] = "done"
      /\ \A d \in Callers \ {c} : phase'[d] = phase[d]
      /\ QueuesOK' /\ HoldsOnce' /\ IdleOK'
  <2>1. phase[c] \in InAttempt /\ "done" \in InAttempt \cup {"done"}
    BY <1>1 DEF InAttempt
  <2> QED
    BY <2>1, <1>1, AttemptKeeps
<1>3. TypeOK'
  BY <1>1, <1>2 DEF IInv, TypeOK
<1>4. RegistryMatchesRuns'
  BY <1>1, <1>2, RegistryKept DEF IInv
<1> QED
  BY <1>2, <1>3, <1>4 DEF IInv

--------------------------------------------------------------------------------
(* The messages *)

\* Only a registered run is aborted.
LEMMA AbortTypes ==
    ASSUME TypeOK, NEW s \in Sessions, AbortRun(s) PROVE aborted' \subseteq Callers
  BY DEF TypeOK, AbortRun

\* A message is read; an interrupt clears the lane and aborts the registered run.
LEMMA CheckKeeps ==
    ASSUME IInv, NEW r \in Replies, Check(r) PROVE IInv'
<1> DEFINE s == SessionOf[r]
<1>1. s \in Sessions /\ \A x \in Replies : x \in Callers
  BY CallerFacts
<1>2. PICK m \in Modes, streams \in BOOLEAN :
          /\ saw' = [saw EXCEPT ![r] = [mode |-> m, active |-> registry[s] # None,
                                        streaming |-> streams]]
          /\ \/ ClearLane(s) /\ AbortRun(s)
             \/ UNCHANGED <<laneVars, aborted>>
  BY Zenon DEF Check
<1>3. /\ pc[r] = "new" /\ pc' = [pc EXCEPT ![r] = "checked"]
      /\ UNCHANGED <<registry, pending, batch, loop, deletion>>
  BY DEF Check, followVars
<1>4. /\ saw' \in [Replies -> [mode : QueueModes, active : BOOLEAN, streaming : BOOLEAN]]
      /\ pc' \in [Replies -> {"new", "checked", "steered", "queued", "running", "answered"}]
  <2>1. m \in QueueModes
    BY ModesAssumption
  <2>2. [mode |-> m, active |-> registry[s] # None, streaming |-> streams]
            \in [mode : QueueModes, active : BOOLEAN, streaming : BOOLEAN]
    BY <2>1
  <2> QED
    BY <2>2, <1>2, <1>3 DEF IInv, TypeOK
<1>5. /\ phase' \in [Callers -> Phases]
      /\ \A c \in Callers : phase[c] = "idle" => phase'[c] = "idle"
      /\ sessionQueue' \in [Sessions -> Seq(Callers)] /\ globalQueue' \in Seq(Callers)
      /\ aborted' \subseteq Callers
      /\ QueuesOK' /\ HoldsOnce' /\ RegistryMatchesRuns'
  <2>1. CASE ClearLane(s) /\ AbortRun(s)
    <3>1. /\ phase' \in [Callers -> Phases]
          /\ \A c \in Callers : phase[c] # "sessionWait" => phase'[c] = phase[c]
          /\ sessionQueue' \in [Sessions -> Seq(Callers)] /\ globalQueue' = globalQueue
          /\ QueuesOK' /\ HoldsOnce' /\ RegistryMatchesRuns'
      BY <2>1, <1>1, <1>3, ClearKeeps
    <3>2. aborted' \subseteq Callers
      BY <2>1, <1>1, AbortTypes DEF IInv
    <3> QED
      BY <3>1, <3>2 DEF IInv, TypeOK
  <2>2. CASE UNCHANGED <<laneVars, aborted>>
    <3>1. UNCHANGED <<phase, sessionQueue, globalQueue, aborted, registry>>
      BY <2>2, <1>3 DEF laneVars
    <3>2. QueuesOK' /\ HoldsOnce' /\ RegistryMatchesRuns'
      BY <3>1 DEF IInv, QueuesOK, SessionQueuesOK, GlobalQueueOK, HoldsOnce, RegistryMatchesRuns
    <3> QED
      BY <3>1, <3>2 DEF IInv, TypeOK
  <2> QED
    BY <2>1, <2>2, <1>2
<1>6. TypeOK'
  BY <1>3, <1>4, <1>5 DEF IInv, TypeOK
<1>7. IdleOK'
  <2>1. \A x \in Replies : pc'[x] \in {"new", "checked"} => pc[x] \in {"new", "checked"}
    BY <1>3 DEF IInv, TypeOK
  <2>2. \A t \in Sessions : Turn(t) \in Callers
    BY CallerFacts
  <2> QED
    BY <2>1, <2>2, <1>1, <1>3, <1>5 DEF IInv, IdleOK
<1> QED
  BY <1>5, <1>6, <1>7 DEF IInv

\* A message leaves the dispatch without a run of its own, and the lanes alone.
LEMMA NoRunKeeps ==
    ASSUME IInv, NEW r \in Replies,
           NEW p \in {"steered", "queued", "answered"}, pc' = [pc EXCEPT ![r] = p],
           UNCHANGED <<phase, sessionQueue, globalQueue, registry>>,
           \A s \in Sessions : loop'[s] # "turn" => loop[s] # "turn"
    PROVE  /\ pc' \in [Replies -> {"new", "checked", "steered", "queued", "running", "answered"}]
           /\ QueuesOK' /\ HoldsOnce' /\ IdleOK' /\ RegistryMatchesRuns'
<1>1. /\ pc' \in [Replies -> {"new", "checked", "steered", "queued", "running", "answered"}]
      /\ \A x \in Replies : pc'[x] \in {"new", "checked"} => pc[x] \in {"new", "checked"}
  BY DEF IInv, TypeOK
<1>2. IdleOK'
  BY <1>1 DEF IInv, IdleOK
<1>3. QueuesOK' /\ HoldsOnce' /\ RegistryMatchesRuns'
  BY DEF IInv, QueuesOK, SessionQueuesOK, GlobalQueueOK, HoldsOnce, RegistryMatchesRuns
<1> QED
  BY <1>1, <1>2, <1>3

\* A steered message starts no run.
LEMMA SteerKeeps ==
    ASSUME IInv, NEW r \in Replies, Steer(r) PROVE IInv'
<1>1. /\ pc' = [pc EXCEPT ![r] = "steered"]
      /\ UNCHANGED <<phase, sessionQueue, globalQueue, registry, aborted, saw, pending, batch,
                     loop, deletion>>
  BY DEF Steer, laneVars, followVars
<1>2. /\ pc' \in [Replies -> {"new", "checked", "steered", "queued", "running", "answered"}]
      /\ QueuesOK' /\ HoldsOnce' /\ IdleOK' /\ RegistryMatchesRuns'
  BY <1>1, NoRunKeeps
<1> QED
  BY <1>1, <1>2 DEF IInv, TypeOK

\* A queued message starts no run now.
LEMMA QueueFollowupKeeps ==
    ASSUME IInv, NEW r \in Replies, QueueFollowup(r) PROVE IInv'
<1>1. /\ pc' = [pc EXCEPT ![r] = "queued"]
      /\ pending' = [pending EXCEPT ![SessionOf[r]] = Append(@, r)]
      /\ UNCHANGED <<phase, sessionQueue, globalQueue, registry, aborted, saw, batch,
                     loop, deletion>>
  BY DEF QueueFollowup, laneVars
<1>2. /\ pc' \in [Replies -> {"new", "checked", "steered", "queued", "running", "answered"}]
      /\ QueuesOK' /\ HoldsOnce' /\ IdleOK' /\ RegistryMatchesRuns'
  BY <1>1, NoRunKeeps
<1>3. pending' \in [Sessions -> Seq(Replies)]
  <2>1. SessionOf[r] \in Sessions /\ pending \in [Sessions -> Seq(Replies)]
    BY CallerFacts DEF IInv, TypeOK
  <2>2. Append(pending[SessionOf[r]], r) \in Seq(Replies)
    BY <2>1
  <2> QED
    BY <2>1, <2>2, <1>1
<1> QED
  BY <1>1, <1>2, <1>3 DEF IInv, TypeOK

\* A message that is dispatched to a run of its own enqueues it once.
LEMMA StartReplyKeeps ==
    ASSUME IInv, NEW r \in Replies, StartReply(r) PROVE IInv'
<1>1. /\ pc[r] = "checked" /\ pc' = [pc EXCEPT ![r] = "running"]
      /\ EnqueueRun(r)
      /\ UNCHANGED <<registry, aborted, saw, pending, batch, loop, deletion>>
  BY DEF StartReply, CanDispatch, followVars
<1>2. r \in Callers /\ phase[r] = "idle"
  BY <1>1, CallerFacts DEF IInv, IdleOK
<1>3. /\ phase' \in [Callers -> Phases]
      /\ \A d \in Callers \ {r} : phase'[d] = phase[d]
      /\ sessionQueue' \in [Sessions -> Seq(Callers)] /\ globalQueue' = globalQueue
      /\ QueuesOK' /\ HoldsOnce' /\ RegistryMatchesRuns'
  BY <1>1, <1>2, EnqueueKeeps
<1>4. pc' \in [Replies -> {"new", "checked", "steered", "queued", "running", "answered"}]
  BY <1>1 DEF IInv, TypeOK
<1>5. TypeOK'
  BY <1>1, <1>3, <1>4 DEF IInv, TypeOK
<1>6. IdleOK'
  <2>1. /\ \A x \in Replies : x \in Callers
        /\ \A t \in Sessions : Turn(t) \in Callers /\ Turn(t) # r
    BY CallerFacts
  <2>2. pc'[r] = "running" /\ \A x \in Replies \ {r} : pc'[x] = pc[x]
    BY <1>1 DEF IInv, TypeOK
  <2> QED
    BY <2>1, <2>2, <1>1, <1>3 DEF IInv, IdleOK
<1> QED
  BY <1>3, <1>5, <1>6 DEF IInv

\* The end of a reply may start a loop but no turn.
LEMMA FinalizeKeeps ==
    ASSUME IInv, NEW r \in Replies, Finalize(r) PROVE IInv'
<1> DEFINE s == SessionOf[r]
<1>1. /\ pc' = [pc EXCEPT ![r] = "answered"]
      /\ Schedule(s)
      /\ UNCHANGED <<phase, sessionQueue, globalQueue, registry, aborted, saw, pending, batch,
                     deletion>>
  BY DEF Finalize, laneVars
<1>2. s \in Sessions /\ loop \in [Sessions -> {"off", "debounce", "turn"}]
  BY CallerFacts DEF IInv, TypeOK
<1>3. /\ loop' \in [Sessions -> {"off", "debounce", "turn"}]
      /\ \A t \in Sessions : loop'[t] # "turn" => loop[t] # "turn"
  BY <1>1, <1>2 DEF Schedule
<1>4. /\ pc' \in [Replies -> {"new", "checked", "steered", "queued", "running", "answered"}]
      /\ QueuesOK' /\ HoldsOnce' /\ IdleOK' /\ RegistryMatchesRuns'
  BY <1>1, <1>3, NoRunKeeps
<1> QED
  BY <1>1, <1>3, <1>4 DEF IInv, TypeOK

--------------------------------------------------------------------------------
(* The followup turns, the direct runs and sessions.delete *)

\* The loop of a session has one turn, which was idle.
LEMMA StartTurnKeeps ==
    ASSUME IInv, NEW s \in Sessions, StartTurn(s) PROVE IInv'
<1> DEFINE c == Turn(s)
<1>1. /\ loop[s] = "debounce" /\ loop' = [loop EXCEPT ![s] = "turn"]
      /\ batch' = [batch EXCEPT ![s] = pending[s]]
      /\ pending' = [pending EXCEPT ![s] = <<>>]
      /\ EnqueueRun(c)
      /\ UNCHANGED <<registry, aborted, pc, saw, deletion>>
  BY DEF StartTurn, replyVars
<1>2. c \in Callers /\ phase[c] = "idle"
  BY <1>1, CallerFacts DEF IInv, IdleOK
<1>3. /\ phase' \in [Callers -> Phases]
      /\ \A d \in Callers \ {c} : phase'[d] = phase[d]
      /\ sessionQueue' \in [Sessions -> Seq(Callers)] /\ globalQueue' = globalQueue
      /\ QueuesOK' /\ HoldsOnce' /\ RegistryMatchesRuns'
  BY <1>1, <1>2, EnqueueKeeps
<1>4. /\ pending' \in [Sessions -> Seq(Replies)] /\ batch' \in [Sessions -> Seq(Replies)]
      /\ loop' \in [Sessions -> {"off", "debounce", "turn"}]
  <2>1. /\ pending \in [Sessions -> Seq(Replies)] /\ batch \in [Sessions -> Seq(Replies)]
        /\ loop \in [Sessions -> {"off", "debounce", "turn"}]
        /\ <<>> \in Seq(Replies)
    BY DEF IInv, TypeOK
  <2> QED
    BY <2>1, <1>1
<1>5. TypeOK'
  BY <1>1, <1>3, <1>4 DEF IInv, TypeOK
<1>6. IdleOK'
  <2>1. /\ \A x \in Replies : x \in Callers /\ x # c
        /\ \A t \in Sessions : Turn(t) \in Callers
        /\ \A t \in Sessions \ {s} : Turn(t) # c
    BY CallerFacts
  <2>2. loop'[s] = "turn" /\ \A t \in Sessions \ {s} : loop'[t] = loop[t]
    BY <1>1 DEF IInv, TypeOK
  <2> QED
    BY <2>1, <2>2, <1>1, <1>3 DEF IInv, IdleOK
<1> QED
  BY <1>3, <1>5, <1>6 DEF IInv

\* The turn that ended is idle again.
LEMMA EndTurnKeeps ==
    ASSUME IInv, NEW s \in Sessions, EndTurn(s) PROVE IInv'
<1> DEFINE c == Turn(s)
<1>1. /\ phase[c] = "done" /\ phase' = [phase EXCEPT ![c] = "idle"]
      /\ pc' = [r \in Replies |->
                  IF \E i \in DOMAIN batch[s] : batch[s][i] = r THEN "answered" ELSE pc[r]]
      /\ batch' = [batch EXCEPT ![s] = <<>>]
      /\ loop' = [loop EXCEPT ![s] = IF pending[s] # <<>> THEN "debounce" ELSE "off"]
      /\ UNCHANGED <<sessionQueue, globalQueue, registry, aborted, saw, pending, deletion>>
  BY DEF EndTurn
<1>2. /\ c \in Callers /\ phase \in [Callers -> Phases]
      /\ pc \in [Replies -> {"new", "checked", "steered", "queued", "running", "answered"}]
      /\ batch \in [Sessions -> Seq(Replies)]
      /\ loop \in [Sessions -> {"off", "debounce", "turn"}]
  BY CallerFacts DEF IInv, TypeOK
<1>3. /\ phase' \in [Callers -> Phases] /\ phase'[c] = "idle"
      /\ \A d \in Callers \ {c} : phase'[d] = phase[d]
  BY <1>1, <1>2 DEF Phases
<1>4. /\ pc' \in [Replies -> {"new", "checked", "steered", "queued", "running", "answered"}]
      /\ \A r \in Replies : pc'[r] \in {"new", "checked"} => pc[r] \in {"new", "checked"}
  BY <1>1, <1>2
<1>5. /\ batch' \in [Sessions -> Seq(Replies)]
      /\ loop' \in [Sessions -> {"off", "debounce", "turn"}]
      /\ \A t \in Sessions \ {s} : loop'[t] = loop[t]
  <2>1. <<>> \in Seq(Replies)
    OBVIOUS
  <2> QED
    BY <2>1, <1>1, <1>2
<1>6. TypeOK'
  BY <1>1, <1>3, <1>4, <1>5 DEF IInv, TypeOK
<1>7. QueuesOK'
  <2>1. phase[c] \notin Waiting /\ "idle" \in Phases
    BY <1>1 DEF Waiting, Phases
  <2> QED
    BY <2>1, <1>1, <1>2, MoveKeepsQueues DEF IInv
<1>8. HoldsOnce'
  BY <1>3, HoldsShrinks DEF IInv, Holding, InAttempt
<1>9. IdleOK'
  <2>1. /\ \A x \in Replies : x \in Callers /\ x # c
        /\ \A t \in Sessions : Turn(t) \in Callers
        /\ \A t \in Sessions \ {s} : Turn(t) # c
    BY CallerFacts
  <2> QED
    BY <2>1, <1>3, <1>4, <1>5 DEF IInv, IdleOK
<1>10. RegistryMatchesRuns'
  BY <1>1, <1>3, RegistryKept DEF IInv
<1> QED
  BY <1>6, <1>7, <1>8, <1>9, <1>10 DEF IInv

\* A direct run is started once.
LEMMA StartDirectKeeps ==
    ASSUME IInv, NEW d \in Directs, StartDirect(d) PROVE IInv'
<1>1. /\ phase[d] = "idle" /\ EnqueueRun(d)
      /\ UNCHANGED <<registry, aborted, pc, saw, pending, batch, loop, deletion>>
  BY DEF StartDirect, replyVars, followVars
<1>2. d \in Callers
  BY CallerFacts
<1>3. /\ phase' \in [Callers -> Phases]
      /\ \A c \in Callers \ {d} : phase'[c] = phase[c]
      /\ sessionQueue' \in [Sessions -> Seq(Callers)] /\ globalQueue' = globalQueue
      /\ QueuesOK' /\ HoldsOnce' /\ RegistryMatchesRuns'
  BY <1>1, <1>2, EnqueueKeeps
<1>4. TypeOK'
  BY <1>1, <1>3 DEF IInv, TypeOK
<1>5. IdleOK'
  <2>1. /\ \A x \in Replies : x \in Callers /\ x # d
        /\ \A t \in Sessions : Turn(t) \in Callers /\ Turn(t) # d
    BY CallerFacts
  <2> QED
    BY <2>1, <1>1, <1>3 DEF IInv, IdleOK
<1> QED
  BY <1>3, <1>4, <1>5 DEF IInv

\* A deletion clears the lane and aborts the registered run.
LEMMA DeleteSessionKeeps ==
    ASSUME IInv, NEW s \in Sessions, DeleteSession(s) PROVE IInv'
<1>1. /\ ClearLane(s) /\ AbortRun(s)
      /\ deletion' = [deletion EXCEPT ![s] = IF registry[s] = None THEN "saving" ELSE "waiting"]
      /\ UNCHANGED <<registry, pc, saw, pending, batch, loop>>
  BY DEF DeleteSession, replyVars, followVars
<1>2. /\ phase' \in [Callers -> Phases]
      /\ \A c \in Callers : phase[c] # "sessionWait" => phase'[c] = phase[c]
      /\ sessionQueue' \in [Sessions -> Seq(Callers)] /\ globalQueue' = globalQueue
      /\ QueuesOK' /\ HoldsOnce' /\ RegistryMatchesRuns'
  BY <1>1, ClearKeeps
<1>3. aborted' \subseteq Callers
  BY <1>1, AbortTypes DEF IInv
<1>4. deletion' \in [Sessions -> Deletions]
  BY <1>1 DEF IInv, TypeOK, Deletions
<1>5. TypeOK'
  BY <1>1, <1>2, <1>3, <1>4 DEF IInv, TypeOK
<1>6. IdleOK'
  <2>1. /\ \A x \in Replies : x \in Callers
        /\ \A t \in Sessions : Turn(t) \in Callers
    BY CallerFacts
  <2> QED
    BY <2>1, <1>1, <1>2 DEF IInv, IdleOK
<1> QED
  BY <1>2, <1>5, <1>6 DEF IInv

\* What a step leaves alone keeps the invariant but for the state of a deletion.
LEMMA CalmKeeps ==
    ASSUME IInv, deletion' \in [Sessions -> Deletions],
           UNCHANGED <<phase, sessionQueue, globalQueue, registry, aborted, pc, saw,
                       pending, batch, loop>>
    PROVE  IInv'
<1>1. TypeOK'
  BY DEF IInv, TypeOK
<1>2. QueuesOK' /\ HoldsOnce' /\ IdleOK' /\ RegistryMatchesRuns'
  BY DEF IInv, QueuesOK, SessionQueuesOK, GlobalQueueOK, HoldsOnce, IdleOK, RegistryMatchesRuns
<1> QED
  BY <1>1, <1>2 DEF IInv

\* A deletion that gives up, or that has written the store, leaves the runs alone.
LEMMA DeletionEndsKeeps ==
    ASSUME IInv, NEW s \in Sessions, DeleteTimesOut(s) \/ FinishDeletion(s) PROVE IInv'
<1>1. /\ \E result \in {"refused", "deleted", "failed"} :
            deletion' = [deletion EXCEPT ![s] = result]
      /\ UNCHANGED <<phase, sessionQueue, globalQueue, registry, aborted, pc, saw,
                     pending, batch, loop>>
  BY DEF DeleteTimesOut, FinishDeletion, laneVars, replyVars, followVars
<1>2. deletion' \in [Sessions -> Deletions]
  BY <1>1 DEF IInv, TypeOK, Deletions
<1> QED
  BY <1>1, <1>2, CalmKeeps

--------------------------------------------------------------------------------
(* The theorems *)

\* Nothing waits and nobody runs at first.
LEMMA InitEstablishes == Init => IInv
<1> SUFFICES ASSUME Init PROVE IInv
  OBVIOUS
<1>1. <<>> \in Seq(Callers) /\ <<>> \in Seq(Replies) /\ Len(<<>>) = 0
  OBVIOUS
<1>2. \A c \in Callers : phase[c] = "idle"
  BY DEF Init
<1>3. TypeOK
  <2>1. NothingSeen \in [mode : QueueModes, active : BOOLEAN, streaming : BOOLEAN]
    BY DEF NothingSeen, QueueModes
  <2> QED
    BY <2>1, <1>1 DEF Init, TypeOK, Phases, Deletions
<1>4. QueuesOK
  BY <1>1 DEF Init, QueuesOK, SessionQueuesOK, GlobalQueueOK
<1>5. HoldsOnce
  BY <1>2 DEF HoldsOnce, Holding, InAttempt
<1>6. IdleOK
  BY <1>2, CallerFacts DEF IdleOK
<1>7. RegistryMatchesRuns
  BY <1>2, CallersAssumption DEF Init, RegistryMatchesRuns
<1> QED
  BY <1>3, <1>4, <1>5, <1>6, <1>7 DEF IInv

\* Every step keeps the invariant.
LEMMA StepKeeps == IInv /\ [Next]_vars => IInv'
<1> SUFFICES ASSUME IInv, [Next]_vars PROVE IInv'
  OBVIOUS
<1>1. ASSUME NEW s \in Sessions, StartInSession(s) PROVE IInv'
  BY <1>1, StartInSessionKeeps
<1>2. CASE StartInGlobal
  BY <1>2, StartInGlobalKeeps
<1>3. ASSUME NEW c \in Callers, SetActive(c) \/ EndPrompt(c) \/ LeaveLanes(c) \/ Retry(c)
      PROVE  IInv'
  BY <1>3, SetActiveKeeps, EndPromptKeeps, LeaveLanesKeeps, RetryKeeps
<1>4. ASSUME NEW r \in Replies,
             Check(r) \/ Steer(r) \/ QueueFollowup(r) \/ StartReply(r) \/ Finalize(r)
      PROVE  IInv'
  BY <1>4, CheckKeeps, SteerKeeps, QueueFollowupKeeps, StartReplyKeeps, FinalizeKeeps
<1>5. ASSUME NEW s \in Sessions,
             \/ StartTurn(s) \/ EndTurn(s)
             \/ DeleteSession(s) \/ DeleteTimesOut(s) \/ FinishDeletion(s)
      PROVE  IInv'
  BY <1>5, StartTurnKeeps, EndTurnKeeps, DeleteSessionKeeps, DeletionEndsKeeps
<1>6. ASSUME NEW d \in Directs, StartDirect(d) PROVE IInv'
  BY <1>6, StartDirectKeeps
<1>7. CASE UNCHANGED vars
  <2>1. UNCHANGED <<phase, sessionQueue, globalQueue, registry, aborted, pc, saw,
                    pending, batch, loop, deletion>>
    BY <1>7 DEF vars
  <2>2. deletion' \in [Sessions -> Deletions]
    BY <2>1 DEF IInv, TypeOK
  <2> QED
    BY <2>1, <2>2, CalmKeeps
<1> QED
  BY <1>1, <1>2, <1>3, <1>4, <1>5, <1>6, <1>7
  DEF Next, LaneStep, RunAdvances, Dispatch, LoopAdvances

\* The inductive invariant holds: who waits is queued once and where it belongs, one
\* caller at most holds the lane of a session, and the registry is exact (IInv).
THEOREM InvariantHolds == SafetySpec => []IInv
<1> QED
  BY InitEstablishes, StepKeeps, PTL DEF SafetySpec

\* The queues, the registry and the followup loops have their types, whatever the
\* sessions, the messages and the settings (TypeOK).
THEOREM TypeCorrect == SafetySpec => []TypeOK
<1>1. IInv => TypeOK
  BY DEF IInv
<1> QED
  BY <1>1, InvariantHolds, PTL

\* The nested lanes serialize the runs of a session (OneRunPerSession): a run that
\* waits in the global lane still holds the lane of its session.
THEOREM SessionsAreSerialized == SafetySpec => []OneRunPerSession
<1>1. IInv => OneRunPerSession
  BY DEF IInv, HoldsOnce, OneRunPerSession, InGlobal, Holding
<1> QED
  BY <1>1, InvariantHolds, PTL

\* ACTIVE_EMBEDDED_RUNS names a run exactly while its prompt goes on
\* (RegistryMatchesRuns), although a run registers over what is registered.
THEOREM RegistryIsExact == SafetySpec => []RegistryMatchesRuns
<1>1. IInv => RegistryMatchesRuns
  BY DEF IInv
<1> QED
  BY <1>1, InvariantHolds, PTL

\* sessions.delete takes a session out of the store only when no prompt of the session goes
\* on (DeletionWaits), in whatever lanes, modes, retries and timeouts.
THEOREM DeletionIsSafe == SafetySpec => DeletionWaits
<1>1. IInv /\ [Next]_vars => [\A s \in Sessions : deletion[s] # "saving" /\ deletion'[s] = "saving"
            => \A c \in Callers : KeyOf(c) = s => phase'[c] # "active"]_vars
  <2> SUFFICES ASSUME IInv, Next,
                      NEW s \in Sessions, deletion[s] # "saving", deletion'[s] = "saving",
                      NEW c \in Callers, KeyOf(c) = s
               PROVE  phase'[c] # "active"
    BY DEF vars
  <2>1. /\ deletion \in [Sessions -> Deletions]
        /\ phase \in [Callers -> Phases]
        /\ registry[s] = None => phase[c] # "active"
    BY CallersAssumption DEF IInv, TypeOK, RegistryMatchesRuns
  <2>2. ASSUME NEW b \in Callers, EndPrompt(b) PROVE phase'[c] # "active"
    <3>1. registry[KeyOf(b)] = b /\ KeyOf(b) \in Sessions /\ phase[b] = "active"
      BY <2>2, CallerFacts DEF EndPrompt, IInv, RegistryMatchesRuns
    <3>2. KeyOf(b) = s
      BY <2>2, <2>1, <3>1 DEF EndPrompt
    <3>3. phase[c] = "active" => b = c
      BY <3>1, <3>2, OnePrompt DEF InAttempt
    <3>4. phase' = [phase EXCEPT ![b] = "ending"]
      BY <2>2 DEF EndPrompt
    <3> QED
      BY <3>3, <3>4, <2>1
  <2>3. ASSUME NEW t \in Sessions, DeleteSession(t) PROVE phase'[c] # "active"
    <3>1. t = s /\ registry[s] = None
      BY <2>3, <2>1 DEF DeleteSession
    <3>2. phase[c] # "active" /\ phase'[c] \in {phase[c], "lost"}
      BY <2>3, <2>1, <3>1, ClearKeeps DEF DeleteSession
    <3> QED
      BY <3>2
  <2>4. ASSUME NEW t \in Sessions, DeleteTimesOut(t) \/ FinishDeletion(t) PROVE FALSE
    BY <2>4, <2>1 DEF DeleteTimesOut, FinishDeletion
  <2>5. deletion' # deletion
    OBVIOUS
  <2>6. \/ \E b \in Callers : EndPrompt(b)
        \/ \E t \in Sessions : DeleteSession(t) \/ DeleteTimesOut(t) \/ FinishDeletion(t)
    BY <2>5 DEF Next, LaneStep, RunAdvances, Dispatch, LoopAdvances, StartInSession,
                StartInGlobal, SetActive, Retry, LeaveLanes, Check, Steer, QueueFollowup,
                StartReply, Finalize, StartTurn, EndTurn, StartDirect
  <2> QED
    BY <2>2, <2>3, <2>4, <2>6
<1> QED
  BY <1>1, InvariantHolds, PTL DEF SafetySpec, DeletionWaits

--------------------------------------------------------------------------------
(* The messages of the followup queue *)

\* The messages in a queue or in the batch of a turn.
In(q) == {q[i] : i \in DOMAIN q}
Once(q) == \A i, j \in DOMAIN q : q[i] = q[j] => i = j

\* What waits and what is taken is what was queued, each message once.
QueuedOK(s) ==
    /\ In(pending[s]) \cup In(batch[s]) = {r \in Replies : SessionOf[r] = s /\ pc[r] = "queued"}
    /\ Once(pending[s]) /\ Once(batch[s]) /\ In(pending[s]) \cap In(batch[s]) = {}

\* The turn of a session has a batch; a loop that waits for its debounce has a queue.
LoopOK(s) ==
    /\ loop[s] = "turn" <=> batch[s] # <<>>
    /\ loop[s] = "debounce" => pending[s] # <<>>

KeptInv == \A s \in Sessions : QueuedOK(s) /\ LoopOK(s)

\* What is in a sequence.
LEMMA InFacts ==
    ASSUME NEW S, NEW q \in Seq(S)
    PROVE  /\ In(q) \subseteq S /\ DOMAIN q = 1..Len(q) /\ Len(q) \in Nat
           /\ In(q) = {} <=> q = <<>>
           /\ \A x : x \in In(q) <=> \E i \in DOMAIN q : q[i] = x
           /\ In(<<>>) = {} /\ Once(<<>>)
<1>1. DOMAIN q = 1..Len(q) /\ Len(q) \in Nat /\ \A i \in 1..Len(q) : q[i] \in S
  OBVIOUS
<1>2. In(q) = {} <=> q = <<>>
  <2>1. CASE q = <<>>
    BY <2>1 DEF In
  <2>2. CASE q # <<>>
    <3>1. 1 \in 1..Len(q)
      BY <2>2
    <3>2. q[1] \in In(q)
      BY <1>1, <3>1 DEF In
    <3> QED
      BY <2>2, <3>2
  <2> QED
    BY <2>1, <2>2
<1>3. \A x : x \in In(q) <=> \E i \in DOMAIN q : q[i] = x
  BY DEF In
<1>4. In(<<>>) = {} /\ Once(<<>>)
  BY DEF In, Once
<1>5. In(q) \subseteq S
  BY <1>1 DEF In
<1> QED
  BY <1>1, <1>2, <1>3, <1>4, <1>5

\* A sequence without repetitions has as many elements as it is long.
LEMMA OnceCounts ==
    ASSUME NEW S, NEW q \in Seq(S), Once(q)
    PROVE  IsFiniteSet(In(q)) /\ Cardinality(In(q)) = Len(q)
<1>1. DOMAIN q = 1..Len(q) /\ Len(q) \in Nat
  OBVIOUS
<1> DEFINE f == [i \in 1..Len(q) |-> q[i]]
<1>2. f \in Bijection(1..Len(q), In(q))
  <2>1. f \in [1..Len(q) -> In(q)]
    BY <1>1 DEF In
  <2>2. \A i, j \in 1..Len(q) : f[i] = f[j] => i = j
    BY <1>1 DEF Once
  <2>3. \A x \in In(q) : \E i \in 1..Len(q) : f[i] = x
    BY <1>1 DEF In
  <2> HIDE DEF f
  <2> QED
    BY <2>1, <2>2, <2>3 DEF Bijection, Injection, IsInjective, Surjection
<1>3. ExistsBijection(1..Len(q), In(q))
  BY <1>2 DEF ExistsBijection
<1>4. IsFiniteSet(1..Len(q)) /\ Cardinality(1..Len(q)) = Len(q)
  BY <1>1, FS_Interval, SMTT(60)
<1> QED
  BY <1>3, <1>4, FS_Bijection

\* The invariant says that no message is lost, taken twice or left behind ...
LEMMA KeptByInv ==
    ASSUME TypeOK, KeptInv
    PROVE  FollowupsKept
<1> SUFFICES ASSUME NEW s \in Sessions
             PROVE  /\ In(pending[s]) \cup In(batch[s])
                          = {r \in Replies : SessionOf[r] = s /\ pc[r] = "queued"}
                    /\ Len(pending[s]) + Len(batch[s])
                          = Cardinality(In(pending[s]) \cup In(batch[s]))
                    /\ In(batch[s]) # {} <=> loop[s] = "turn"
  BY DEF FollowupsKept, In
<1>1. pending[s] \in Seq(Replies) /\ batch[s] \in Seq(Replies)
  BY DEF TypeOK
<1>2. QueuedOK(s) /\ LoopOK(s)
  BY DEF KeptInv
<1>3. /\ IsFiniteSet(In(pending[s])) /\ Cardinality(In(pending[s])) = Len(pending[s])
      /\ IsFiniteSet(In(batch[s])) /\ Cardinality(In(batch[s])) = Len(batch[s])
  BY <1>1, <1>2, OnceCounts DEF QueuedOK
<1>4. Cardinality(In(pending[s]) \cap In(batch[s])) = 0
  BY <1>2, FS_EmptySet DEF QueuedOK
<1>5. Cardinality(In(pending[s]) \cup In(batch[s])) = Len(pending[s]) + Len(batch[s])
  <2>1. Cardinality(In(pending[s]) \cup In(batch[s]))
            = Cardinality(In(pending[s])) + Cardinality(In(batch[s]))
              - Cardinality(In(pending[s]) \cap In(batch[s]))
    BY <1>3, FS_Union
  <2>2. Len(pending[s]) \in Nat /\ Len(batch[s]) \in Nat
    BY <1>1
  <2> QED
    BY <1>3, <1>4, <2>1, <2>2
<1>6. In(batch[s]) # {} <=> loop[s] = "turn"
  BY <1>1, <1>2, InFacts DEF LoopOK
<1> QED
  BY <1>2, <1>5, <1>6 DEF QueuedOK

\* A step that queues nothing and takes nothing, but may start the loop of a queue.
LEMMA OthersKeep ==
    ASSUME KeptInv, UNCHANGED <<pending, batch>>,
           \A r \in Replies : pc'[r] = "queued" <=> pc[r] = "queued",
           \A s \in Sessions : loop'[s] = loop[s]
                               \/ (loop[s] = "off" /\ loop'[s] = "debounce" /\ pending[s] # <<>>)
    PROVE  KeptInv'
<1> SUFFICES ASSUME NEW s \in Sessions PROVE QueuedOK(s)' /\ LoopOK(s)'
  BY DEF KeptInv
<1>1. QueuedOK(s) /\ LoopOK(s)
  BY DEF KeptInv
<1>2. {r \in Replies : SessionOf[r] = s /\ pc'[r] = "queued"}
          = {r \in Replies : SessionOf[r] = s /\ pc[r] = "queued"}
  OBVIOUS
<1>3. QueuedOK(s)'
  BY <1>1, <1>2 DEF QueuedOK
<1>4. LoopOK(s)'
  BY <1>1 DEF LoopOK
<1> QED
  BY <1>3, <1>4

\* ... a message that is queued joins what waits ...
LEMMA QueueFollowupKept ==
    ASSUME TypeOK, KeptInv, NEW r \in Replies, QueueFollowup(r)
    PROVE  KeptInv'
<1> DEFINE k == SessionOf[r]
           q == Append(pending[k], r)
<1>1. /\ pc[r] = "checked" /\ pc' = [pc EXCEPT ![r] = "queued"]
      /\ pending' = [pending EXCEPT ![k] = q] /\ UNCHANGED <<batch, loop>>
  BY DEF QueueFollowup, CanDispatch
<1>2. k \in Sessions /\ pending \in [Sessions -> Seq(Replies)] /\ pending[k] \in Seq(Replies)
  BY CallerFacts DEF TypeOK
<1>3. /\ pc' \in [Replies -> {"new", "checked", "steered", "queued", "running", "answered"}]
      /\ \A x \in Replies : pc'[x] = IF x = r THEN "queued" ELSE pc[x]
  BY <1>1 DEF TypeOK
<1>4. /\ q \in Seq(Replies) /\ Len(q) = Len(pending[k]) + 1 /\ q[Len(pending[k]) + 1] = r
      /\ \A i \in 1..Len(pending[k]) : q[i] = pending[k][i]
  BY <1>2, AppendFacts
<1>5. In(q) = In(pending[k]) \cup {r}
  <2>1. DOMAIN q = 1..(Len(pending[k]) + 1) /\ DOMAIN pending[k] = 1..Len(pending[k])
        /\ Len(pending[k]) \in Nat
    BY <1>2, <1>4
  <2> HIDE DEF q
  <2>2. \A i \in DOMAIN q : i \in 1..Len(pending[k]) \/ i = Len(pending[k]) + 1
    BY <2>1
  <2>3. \A x : (\E i \in DOMAIN q : q[i] = x) <=> (\E i \in DOMAIN pending[k] : pending[k][i] = x) \/ x = r
    <3>1. Len(pending[k]) + 1 \in DOMAIN q /\ DOMAIN pending[k] \subseteq DOMAIN q
      BY <2>1
    <3> QED
      BY <1>4, <2>1, <2>2, <3>1
  <2>4. \A x : x \in In(q) <=> x \in In(pending[k]) \cup {r}
    BY <2>3 DEF In
  <2> QED
    BY <2>4
<1>6. r \notin In(pending[k]) /\ r \notin In(batch[k])
  BY <1>1, <1>2 DEF KeptInv, QueuedOK
<1>7. Once(q)
  <2>1. \A i \in 1..Len(pending[k]) : pending[k][i] # r
    BY <1>2, <1>6 DEF In
  <2>2. \A i, j \in 1..Len(pending[k]) : pending[k][i] = pending[k][j] => i = j
    BY <1>2 DEF KeptInv, QueuedOK, Once
  <2>3. \A i, j \in 1..Len(q) : q[i] = q[j] => i = j
    BY <1>2, <2>1, <2>2, AppendKeepsApart
  <2>4. DOMAIN q = 1..Len(q)
    BY <1>4
  <2> QED
    BY <2>3, <2>4 DEF Once
<1>8. pending'[k] = q /\ \A s \in Sessions : s # k => pending'[s] = pending[s]
  BY <1>1, <1>2
<1> SUFFICES ASSUME NEW s \in Sessions PROVE QueuedOK(s)' /\ LoopOK(s)'
  BY DEF KeptInv
<1>9. QueuedOK(s) /\ LoopOK(s)
  BY DEF KeptInv
<1>10. CASE s = k
  <2>1. {x \in Replies : SessionOf[x] = k /\ pc'[x] = "queued"}
            = {x \in Replies : SessionOf[x] = k /\ pc[x] = "queued"} \cup {r}
    BY <1>3
  <2>2. q # <<>>
    BY <1>5, InFacts
  <2> HIDE DEF q
  <2> QED
    BY <1>1, <1>5, <1>6, <1>7, <1>8, <1>9, <1>10, <2>1, <2>2 DEF QueuedOK, LoopOK
<1>11. CASE s # k
  <2>1. {x \in Replies : SessionOf[x] = s /\ pc'[x] = "queued"}
            = {x \in Replies : SessionOf[x] = s /\ pc[x] = "queued"}
    BY <1>3, <1>11
  <2> QED
    BY <1>1, <1>8, <1>9, <1>11, <2>1 DEF QueuedOK, LoopOK
<1> QED
  BY <1>10, <1>11

\* The turn takes the whole queue.
LEMMA StartTurnKept ==
    ASSUME TypeOK, KeptInv, NEW k \in Sessions, StartTurn(k)
    PROVE  KeptInv'
<1>1. /\ loop[k] = "debounce" /\ loop' = [loop EXCEPT ![k] = "turn"] /\ pc' = pc
      /\ batch' = [batch EXCEPT ![k] = pending[k]] /\ pending' = [pending EXCEPT ![k] = <<>>]
  BY DEF StartTurn, replyVars
<1>2. /\ loop'[k] = "turn" /\ batch'[k] = pending[k] /\ pending'[k] = <<>>
      /\ \A s \in Sessions : s # k => /\ loop'[s] = loop[s] /\ batch'[s] = batch[s]
                                      /\ pending'[s] = pending[s]
  BY <1>1 DEF TypeOK
<1>3. In(<<>>) = {} /\ Once(<<>>) /\ (In(batch[k]) = {} <=> batch[k] = <<>>)
  BY InFacts DEF TypeOK
<1> SUFFICES ASSUME NEW s \in Sessions PROVE QueuedOK(s)' /\ LoopOK(s)'
  BY DEF KeptInv
<1>4. QueuedOK(s) /\ LoopOK(s)
  BY DEF KeptInv
<1>5. CASE s = k
  <2>1. batch[k] = <<>> /\ pending[k] # <<>>
    BY <1>1, <1>4, <1>5 DEF LoopOK
  <2> QED
    BY <1>1, <1>2, <1>3, <1>4, <1>5, <2>1 DEF QueuedOK, LoopOK
<1>6. CASE s # k
  BY <1>1, <1>2, <1>4, <1>6 DEF QueuedOK, LoopOK
<1> QED
  BY <1>5, <1>6

\* What the turn took is answered, and nothing else.
LEMMA EndTurnKept ==
    ASSUME TypeOK, KeptInv, NEW k \in Sessions, EndTurn(k)
    PROVE  KeptInv'
<1>1. /\ loop[k] = "turn" /\ pending' = pending
      /\ pc' = [r \in Replies |->
                IF \E i \in DOMAIN batch[k] : batch[k][i] = r THEN "answered" ELSE pc[r]]
      /\ batch' = [batch EXCEPT ![k] = <<>>]
      /\ loop' = [loop EXCEPT ![k] = IF pending[k] # <<>> THEN "debounce" ELSE "off"]
  BY DEF EndTurn
<1>2. /\ loop'[k] = (IF pending[k] # <<>> THEN "debounce" ELSE "off") /\ batch'[k] = <<>>
      /\ \A s \in Sessions : s # k => loop'[s] = loop[s] /\ batch'[s] = batch[s]
  BY <1>1 DEF TypeOK
<1>3. \A r \in Replies : pc'[r] = IF r \in In(batch[k]) THEN "answered" ELSE pc[r]
  BY <1>1 DEF In
<1>4. In(<<>>) = {} /\ Once(<<>>)
  BY InFacts DEF TypeOK
<1>5. \A r \in In(batch[k]) : SessionOf[r] = k
  BY DEF KeptInv, QueuedOK
<1> SUFFICES ASSUME NEW s \in Sessions PROVE QueuedOK(s)' /\ LoopOK(s)'
  BY DEF KeptInv
<1>6. QueuedOK(s) /\ LoopOK(s)
  BY DEF KeptInv
<1>7. {r \in Replies : SessionOf[r] = s /\ pc'[r] = "queued"}
          = {r \in Replies : SessionOf[r] = s /\ pc[r] = "queued"} \ In(batch[k])
  BY <1>3
<1>8. CASE s = k
  BY <1>1, <1>2, <1>4, <1>6, <1>7, <1>8 DEF QueuedOK, LoopOK
<1>9. CASE s # k
  <2>1. {r \in Replies : SessionOf[r] = s /\ pc'[r] = "queued"}
            = {r \in Replies : SessionOf[r] = s /\ pc[r] = "queued"}
    BY <1>5, <1>7, <1>9
  <2> QED
    BY <1>1, <1>2, <1>6, <1>9, <2>1 DEF QueuedOK, LoopOK
<1> QED
  BY <1>8, <1>9

\* Nothing is queued at the start.
LEMMA KeptInit == Init => KeptInv
<1> SUFFICES ASSUME Init, NEW s \in Sessions PROVE QueuedOK(s) /\ LoopOK(s)
  BY DEF KeptInv
<1>1. pending[s] = <<>> /\ batch[s] = <<>> /\ loop[s] = "off" /\ \A r \in Replies : pc[r] = "new"
  BY DEF Init
<1>2. In(<<>>) = {} /\ Once(<<>>)
  BY DEF In, Once
<1> QED
  BY <1>1, <1>2 DEF QueuedOK, LoopOK

\* ... and every step keeps the invariant.
LEMMA KeptStep ==
    ASSUME TypeOK, KeptInv, [Next]_vars
    PROVE  KeptInv'
<1>1. CASE \/ LaneStep \/ \E d \in Directs : StartDirect(d)
           \/ \E c \in Callers : RunAdvances(c) \/ Retry(c)
           \/ \E s \in Sessions : DeleteSession(s) \/ DeleteTimesOut(s) \/ FinishDeletion(s)
           \/ UNCHANGED vars
  <2>1. UNCHANGED <<pc, pending, batch, loop>>
    BY <1>1 DEF LaneStep, StartInSession, StartInGlobal, StartDirect, RunAdvances, SetActive,
                EndPrompt, LeaveLanes, Retry, DeleteSession, DeleteTimesOut, FinishDeletion,
                laneVars, replyVars, followVars, vars
  <2> QED
    BY <2>1, OthersKeep
<1>2. ASSUME NEW r \in Replies, Check(r) \/ Steer(r) \/ StartReply(r) \/ Finalize(r)
      PROVE  KeptInv'
  <2>1. pc[r] \in {"new", "checked", "running"} /\ UNCHANGED <<pending, batch>>
    BY <1>2 DEF Check, Steer, StartReply, Finalize, CanDispatch, followVars
  <2>2. \E p \in {"checked", "steered", "running", "answered"} : pc' = [pc EXCEPT ![r] = p]
    BY <1>2 DEF Check, Steer, StartReply, Finalize
  <2>3. \A x \in Replies : pc'[x] = "queued" <=> pc[x] = "queued"
    BY <2>1, <2>2 DEF TypeOK
  <2>4. \A s \in Sessions : loop'[s] = loop[s]
                            \/ (loop[s] = "off" /\ loop'[s] = "debounce" /\ pending[s] # <<>>)
    <3>1. loop' = loop \/ Schedule(SessionOf[r])
      BY <1>2 DEF Check, Steer, StartReply, Finalize, followVars
    <3> QED
      BY <3>1 DEF Schedule, TypeOK
  <2> QED
    BY <2>1, <2>3, <2>4, OthersKeep
<1> QED
  BY <1>1, <1>2, QueueFollowupKept, StartTurnKept, EndTurnKept DEF Next, Dispatch, LoopAdvances

\* No message is lost on its way through the followup queue, taken twice, or left in the
\* batch of a turn that ended (FollowupsKept).
THEOREM FollowupsAreKept == SafetySpec => []FollowupsKept
<1>1. Init => KeptInv
  BY KeptInit
<1>2. TypeOK /\ KeptInv /\ [Next]_vars => KeptInv'
  BY KeptStep
<1>3. TypeOK /\ KeptInv => FollowupsKept
  BY KeptByInv
<1> QED
  BY <1>1, <1>2, <1>3, TypeCorrect, PTL DEF SafetySpec

--------------------------------------------------------------------------------
(* The orchestrator *)

\* A tick has a batch to read or works on one; it hands something out.
Active(t) == tick[t].stage \in {"reading", "incidents", "tasks"}
Handing(t) == tick[t].stage \in {"incidents", "tasks"}

\* Where the k-th line ends.
End(lines, k) == Bytes(SubSeq(lines, 1, k))

TasksReported(work) == \A j \in 1..Len(work) : work[j].kind = "task" => work[j].of \in reported

\* There are finitely many incidents, and tasks of these only, so that the open
\* tasks can be listed.
FiniteOK ==
    /\ IsFiniteSet(reported)
    /\ \A i \in Incidents : task[i] # "none" => i \in reported
    /\ \A t \in Ticks : TasksReported(tick[t].work)

\* An offset is where a line ends, never inside one.
IsBoundary(lines, o) == \E m \in 0..Len(lines) : o = End(lines, m)

\* What ends at the offset or before it is in the log of dispatches ...
Passed(lines, done, o) ==
    IsBoundary(lines, o) /\ \A k \in 1..Len(lines) : End(lines, k) <= o => lines[k] \in done

\* ... or, while the batch is handed out, still to be dealt with.
Batched(lines, done, work, o) ==
    /\ IsBoundary(lines, o)
    /\ \A k \in 1..Len(lines) : End(lines, k) <= o =>
          lines[k] \in done \/ \E j \in 1..Len(work) : work[j] = Incident(lines[k])

\* What a tick will make the offset, or is about to write.
TickPasses(lines, done, r) ==
    /\ r.stage \in {"tasks", "writing"} => Passed(lines, done, r.next.offset)
    /\ r.stage = "incidents" => Batched(lines, done, r.work, r.next.offset)

\* No offset, in memory, on disk or in a tick, passes an incident without a record.
PassInv ==
    Rewritten \/
    /\ Passed(log, recorded, state.offset) /\ Passed(log, recorded, disk.offset)
    /\ \A t \in Ticks : TickPasses(log, recorded, tick[t])

\* The log names each incident once, and only reported ones.
NamedOnce(lines) ==
    /\ \A k \in 1..Len(lines) : lines[k] \in reported
    /\ \A k, m \in 1..Len(lines) : lines[k] = lines[m] => k = m

\* What ends behind the offset was not handed out.
Fresh(lines, given, o) ==
    \A k \in 1..Len(lines) : End(lines, k) > o => given[Incident(lines[k])] = 0

\* A tick that hands out work has each item once, did not hand out what is to come ...
Distinct(r) ==
    /\ r.step = "enter" => r.work # <<>>
    /\ \A j, l \in 1..Len(r.work) : r.work[j] = r.work[l] => j = l
Waits(r, j) == j \in 1..Len(r.work) /\ (r.step = "enter" => j # 1)
Untouched(given, r) == \A j \in 1..Len(r.work) : Waits(r, j) => given[r.work[j]] = 0

\* ... and either works on lines before its offset or on open tasks.
OnLines(lines, r) ==
    \A j \in 1..Len(r.work) : \E k \in 1..Len(lines) :
        r.work[j] = Incident(lines[k]) /\ End(lines, k) <= r.next.offset
OnTasks(open, r) ==
    \A j \in 1..Len(r.work) :
        r.work[j].kind = "task" /\ (Waits(r, j) => open[r.work[j].of] = "assigned")

TickOnce(lines, given, open, r) ==
    r.stage \in {"incidents", "tasks"} =>
        /\ Distinct(r) /\ Untouched(given, r) /\ Fresh(lines, given, r.next.offset)
        /\ r.stage = "incidents" => OnLines(lines, r)
        /\ r.stage = "tasks" => OnTasks(open, r)

\* While nothing is disturbed: one tick is active, and what lies behind the offset,
\* what waits in the work of a tick and the tasks that are open were not handed out.
OnceInv ==
    Disturbed \/
    /\ NamedOnce(log) /\ copy = NoCopy
    /\ \A t, u \in Ticks : Active(t) /\ Active(u) => t = u
    /\ \A i \in Incidents \ reported : handed[Incident(i)] = 0
    /\ \A i \in Tasked : task[i] # "in_progress" => handed[Task(i)] = 0
    /\ (\A t \in Ticks : ~Handing(t)) => Fresh(log, handed, state.offset)
    /\ \A t \in Ticks : TickOnce(log, handed, task, tick[t])
    /\ \A w \in Items : handed[w] <= 1

OrchestratorInv == FiniteOK /\ PassInv /\ OnceInv

--------------------------------------------------------------------------------
(* The bytes of a log *)

\* A set of numbers that is not empty has a least one.
LEMMA LeastExists ==
    ASSUME NEW S \in SUBSET Nat, S # {}
    PROVE  \E i \in S : \A j \in S : i <= j
<1>1. IsWellFoundedOn(OpToRel(<, Nat), Nat)
  BY NatLessThanWellFounded
<1>2. PICK i \in S : \A j \in S : ~(<<j, i>> \in OpToRel(<, Nat))
  BY <1>1, WFMin
<1>3. \A j \in S : ~(j < i)
  BY <1>2 DEF OpToRel
<1> QED
  BY <1>3

\* What holds of 0 and passes from one number to the next holds up to N.
LEMMA UpTo ==
    ASSUME NEW N \in Nat, NEW S, 0 \in S, \A n \in 1..N : n - 1 \in S => n \in S
    PROVE  N \in S
<1> DEFINE Bad == {n \in 0..N : n \notin S}
<1> SUFFICES ASSUME N \notin S PROVE FALSE
  OBVIOUS
<1>1. Bad \in SUBSET Nat /\ N \in Bad
  OBVIOUS
<1>2. PICK m \in Bad : \A j \in Bad : m <= j
  BY <1>1, LeastExists
<1>3. m \in 1..N /\ m - 1 \in 0..N /\ ~(m <= m - 1)
  BY <1>2
<1> QED
  BY <1>2, <1>3

\* f adds the sizes of the lines of s at each set of the first n places.
IsSum(s, n, f) ==
    f = [S \in SUBSET (1..n) |-> IF S = {} THEN 0 ELSE f[S \ {Max(S)}] + Size[s[Max(S)]]]

\* The fold takes the places of a sequence from the last one down.
LEMMA LastIsMax ==
    ASSUME NEW n \in Nat, NEW S \in SUBSET (1..n), n \in S
    PROVE  Max(S) = n
<1>1. \A x \in S : (\A y \in S : x >= y) <=> x = n
  OBVIOUS
<1> QED
  BY <1>1 DEF Max

\* There is one such function for any length.
LEMMA SumExists ==
    ASSUME NEW s, NEW N \in Nat
    PROVE  \E f : IsSum(s, N, f)
<1> DEFINE Fine == {n \in 0..N : \E f : IsSum(s, n, f)}
<1>1. 0 \in Fine
  <2> DEFINE f == [S \in SUBSET (1..0) |-> 0]
  <2>1. \A S \in SUBSET (1..0) : S = {}
    OBVIOUS
  <2>2. f = [S \in SUBSET (1..0) |-> IF S = {} THEN 0 ELSE f[S \ {Max(S)}] + Size[s[Max(S)]]]
    BY <2>1
  <2> QED
    BY <2>2 DEF IsSum
<1>2. ASSUME NEW n \in 1..N, n - 1 \in Fine PROVE n \in Fine
  <2>1. PICK f : IsSum(s, n - 1, f)
    BY <1>2
  <2> DEFINE g == [S \in SUBSET (1..n) |-> IF n \in S THEN f[S \ {n}] + Size[s[n]] ELSE f[S]]
             val(S) == IF S = {} THEN 0 ELSE g[S \ {Max(S)}] + Size[s[Max(S)]]
  <2>2. ASSUME NEW S \in SUBSET (1..n) PROVE g[S] = val(S)
    <3>1. CASE n \in S
      <4>1. Max(S) = n /\ S # {}
        BY <3>1, LastIsMax
      <4>2. S \ {n} \in SUBSET (1..n) /\ n \notin S \ {n}
        OBVIOUS
      <4>3. g[S \ {n}] = f[S \ {n}]
        BY <4>2
      <4>4. g[S] = f[S \ {n}] + Size[s[n]]
        BY <3>1
      <4> QED
        BY <4>1, <4>3, <4>4
    <3>2. CASE n \notin S
      <4>1. S \in SUBSET (1..(n - 1))
        BY <3>2
      <4>2. f[S] = IF S = {} THEN 0 ELSE f[S \ {Max(S)}] + Size[s[Max(S)]]
        BY <2>1, <4>1 DEF IsSum
      <4>3. g[S \ {Max(S)}] = f[S \ {Max(S)}]
        BY <3>2
      <4>4. g[S] = f[S]
        BY <3>2
      <4> QED
        BY <4>2, <4>3, <4>4
    <3> QED
      BY <3>1, <3>2
  <2>3. g = [S \in SUBSET (1..n) |-> g[S]]
    OBVIOUS
  <2>4. g = [S \in SUBSET (1..n) |-> val(S)]
    <3> HIDE DEF g, val
    <3> QED
      BY <2>2, <2>3
  <2>5. IsSum(s, n, g)
    BY <2>4 DEF IsSum
  <2> QED
    BY <2>5
<1>3. N \in Fine
  <2> HIDE DEF Fine
  <2> QED
    BY <1>1, <1>2, UpTo
<1> QED
  BY <1>3

\* Bytes is what it gives for all places.
LEMMA BytesAreASum ==
    ASSUME NEW s \in Seq(Incidents)
    PROVE  \E f : IsSum(s, Len(s), f) /\ Bytes(s) = f[1..Len(s)]
<1>1. DOMAIN s = 1..Len(s) /\ Len(s) \in Nat
  BY LenProperties
<1> DEFINE f == CHOOSE h : h = [S \in SUBSET (1..Len(s)) |->
                       IF S = {} THEN 0 ELSE h[S \ {Max(S)}] + Size[s[Max(S)]]]
<1>2. Bytes(s) = f[1..Len(s)]
  BY <1>1 DEF Bytes, FoldLeft, MapThenFoldSet
<1>3. IsSum(s, Len(s), f)
  BY <1>1, SumExists DEF IsSum
<1> QED
  BY <1>2, <1>3

\* It is 0 for no line ...
LEMMA SumOfNone ==
    ASSUME NEW s, NEW f, IsSum(s, 0, f)
    PROVE  f[1..0] = 0
<1>1. 1..0 = {} /\ 1..0 \in SUBSET (1..0)
  OBVIOUS
<1> QED
  BY <1>1 DEF IsSum

\* What a sum adds for the first lines, line by line.
LEMMA SumOfFirst ==
    ASSUME NEW s \in Seq(Incidents), NEW n \in Nat, NEW f, IsSum(s, n, f), NEW k \in 0..n
    PROVE  f[1..k] = IF k = 0 THEN 0 ELSE f[1..(k - 1)] + Size[s[k]]
<1>1. 1..k \in SUBSET (1..n)
  OBVIOUS
<1>2. f[1..k] = IF 1..k = {} THEN 0 ELSE f[(1..k) \ {Max(1..k)}] + Size[s[Max(1..k)]]
  BY <1>1 DEF IsSum
<1>3. CASE k = 0
  BY <1>2, <1>3
<1>4. CASE k # 0
  <2>1. Max(1..k) = k
    BY <1>4, LastIsMax
  <2>2. k \in Nat /\ 1 <= k
    BY <1>4
  <2>3. \A x : x \in (1..k) \ {k} <=> x \in 1..(k - 1)
    BY <2>2
  <2>4. (1..k) \ {k} = 1..(k - 1)
    BY <2>3
  <2>5. k \in 1..k
    BY <2>2
  <2> QED
    BY <1>2, <1>4, <2>1, <2>4, <2>5
<1> QED
  BY <1>3, <1>4

\* ... and a number for all of them.
LEMMA SumIsNat ==
    ASSUME NEW s \in Seq(Incidents), NEW f, IsSum(s, Len(s), f)
    PROVE  f[1..Len(s)] \in Nat
<1>1. Len(s) \in Nat
  BY LenProperties
<1> DEFINE Fine == {k \in 0..Len(s) : f[1..k] \in Nat}
<1>2. 0 \in Fine
  BY <1>1, SumOfFirst
<1>3. ASSUME NEW k \in 1..Len(s), k - 1 \in Fine PROVE k \in Fine
  <2>1. f[1..k] = f[1..(k - 1)] + Size[s[k]]
    BY <1>1, SumOfFirst
  <2>2. Size[s[k]] \in Nat
    BY ElementOfSeq, SizeAssumption
  <2> QED
    BY <1>3, <2>1, <2>2
<1>4. Len(s) \in Fine
  <2> HIDE DEF Fine
  <2> QED
    BY <1>1, <1>2, <1>3, UpTo
<1> QED
  BY <1>4

\* No line has no bytes.
LEMMA BytesEmpty == Bytes(<<>>) = 0
<1>1. <<>> \in Seq(Incidents) /\ Len(<<>>) = 0
  BY EmptySeq
<1>2. PICK f : IsSum(<<>>, Len(<<>>), f) /\ Bytes(<<>>) = f[1..Len(<<>>)]
  BY <1>1, BytesAreASum
<1>3. IsSum(<<>>, 0, f) /\ Bytes(<<>>) = f[1..0]
  BY <1>1, <1>2
<1> QED
  BY <1>3, SumOfNone

\* The size of a log is a number ...
LEMMA BytesNat ==
    ASSUME NEW s \in Seq(Incidents) PROVE Bytes(s) \in Nat
  BY BytesAreASum, SumIsNat

\* ... and grows by that of the line that is appended.
LEMMA BytesAppend ==
    ASSUME NEW s \in Seq(Incidents), NEW i \in Incidents
    PROVE  Bytes(Append(s, i)) = Bytes(s) + Size[i]
<1> DEFINE t == Append(s, i)
<1>1. Len(s) \in Nat
  BY LenProperties
<1>2. /\ t \in Seq(Incidents) /\ Len(t) = Len(s) + 1 /\ t[Len(s) + 1] = i
      /\ \A k \in 1..Len(s) : t[k] = s[k]
  BY AppendProperties
<1>3. PICK f : IsSum(s, Len(s), f) /\ Bytes(s) = f[1..Len(s)]
  BY BytesAreASum
<1>4. PICK g : IsSum(t, Len(t), g) /\ Bytes(t) = g[1..Len(t)]
  BY <1>2, BytesAreASum
<1> HIDE DEF t
<1>5. IsSum(t, Len(s) + 1, g) /\ Bytes(t) = g[1..(Len(s) + 1)]
  BY <1>2, <1>4
<1> DEFINE Fine == {k \in 0..Len(s) : f[1..k] = g[1..k]}
<1>6. 0 \in Fine
  BY <1>1, <1>2, <1>3, <1>5, SumOfFirst
<1>7. ASSUME NEW k \in 1..Len(s), k - 1 \in Fine PROVE k \in Fine
  <2>1. f[1..k] = f[1..(k - 1)] + Size[s[k]]
    BY <1>1, <1>3, SumOfFirst
  <2>2. Len(s) + 1 \in Nat /\ k \in 0..(Len(s) + 1) /\ k # 0
    BY <1>1
  <2>3. g[1..k] = g[1..(k - 1)] + Size[t[k]]
    BY <1>2, <1>5, <2>2, SumOfFirst
  <2> QED
    BY <1>2, <1>7, <2>1, <2>3
<1>8. Len(s) \in Fine
  <2> HIDE DEF Fine
  <2> QED
    BY <1>1, <1>6, <1>7, UpTo
<1>9. g[1..(Len(s) + 1)] = g[1..Len(s)] + Size[i]
  BY <1>1, <1>2, <1>5, SumOfFirst
<1> QED
  BY <1>3, <1>5, <1>8, <1>9 DEF t

\* The first k lines are the first k - 1 and the k-th.
LEMMA FirstLines ==
    ASSUME NEW s \in Seq(Incidents), NEW k \in 0..Len(s)
    PROVE  /\ SubSeq(s, 1, k) \in Seq(Incidents) /\ Len(SubSeq(s, 1, k)) = k
           /\ k # 0 => SubSeq(s, 1, k) = Append(SubSeq(s, 1, k - 1), s[k]) /\ s[k] \in Incidents
<1>1. Len(s) \in Nat /\ 1 \in Int /\ k \in Int /\ \A n \in 1..Len(s) : s[n] \in Incidents
  BY LenProperties, ElementOfSeq
<1>2. ASSUME NEW n \in 0..Len(s)
      PROVE  SubSeq(s, 1, n) \in Seq(Incidents) /\ Len(SubSeq(s, 1, n)) = n
  <2>1. n \in Int /\ \A j \in 1..n : s[j] \in Incidents
    BY <1>1
  <2> QED
    BY <1>1, <2>1, SubSeqProperties
<1>3. ASSUME k # 0
      PROVE  SubSeq(s, 1, k) = Append(SubSeq(s, 1, k - 1), s[k]) /\ s[k] \in Incidents
  <2>1. 1 \in 1..Len(s) /\ k \in 1..Len(s) /\ k - 1 \in 0..Len(s)
    BY <1>1, <1>3
  <2>2. SubSeq(s, 1, k) = SubSeq(s, 1, k - 1) \o <<s[k]>>
    BY <2>1, SubSeqRecursiveSecond
  <2> QED
    BY <1>1, <1>2, <2>1, <2>2, AppendIsConcat
<1> QED
  BY <1>2, <1>3

\* Ends of lines: from 0 to the size of the log, each behind the one before it.
LEMMA EndStep ==
    ASSUME NEW s \in Seq(Incidents)
    PROVE  /\ End(s, 0) = 0 /\ End(s, Len(s)) = Bytes(s)
           /\ \A k \in 0..Len(s) : End(s, k) \in Nat
           /\ \A k \in 1..Len(s) : End(s, k - 1) < End(s, k)
<1>1. Len(s) \in Nat /\ SubSeq(s, 1, Len(s)) = s
  BY LenProperties, SubSeqFull
<1>2. SubSeq(s, 1, 0) = <<>>
  BY SubSeqEmpty
<1>3. ASSUME NEW k \in 0..Len(s) PROVE End(s, k) \in Nat
  BY FirstLines, BytesNat DEF End
<1>4. ASSUME NEW k \in 1..Len(s) PROVE End(s, k - 1) < End(s, k)
  <2>1. k \in 0..Len(s) /\ k - 1 \in 0..Len(s) /\ k # 0
    BY <1>1
  <2>2. End(s, k) = End(s, k - 1) + Size[s[k]]
    BY <2>1, FirstLines, BytesAppend DEF End
  <2>3. Size[s[k]] \in Nat \ {0}
    BY <2>1, FirstLines, SizeAssumption
  <2> QED
    BY <1>3, <2>1, <2>2, <2>3
<1> QED
  BY <1>1, <1>2, <1>3, <1>4, BytesEmpty DEF End

\* A later line ends later.
LEMMA EndsGrow ==
    ASSUME NEW s \in Seq(Incidents), NEW m \in 0..Len(s), NEW k \in 0..Len(s), m < k
    PROVE  End(s, m) < End(s, k)
<1>1. Len(s) \in Nat /\ m \in Nat /\ k \in Nat
  BY LenProperties
<1> DEFINE Fine == {d \in Nat : m + d <= Len(s) => End(s, m) + d <= End(s, m + d)}
<1>2. 0 \in Fine
  <2>1. End(s, m) \in Nat /\ m + 0 = m
    BY <1>1, EndStep
  <2> QED
    BY <2>1
<1>3. ASSUME NEW d \in 1..(k - m), d - 1 \in Fine PROVE d \in Fine
  <2>1. m + d \in 1..Len(s) /\ m + (d - 1) \in 0..Len(s) /\ m + (d - 1) = (m + d) - 1
        /\ m + d \in 0..Len(s)
    BY <1>1
  <2>2. End(s, (m + d) - 1) < End(s, m + d) /\ End(s, m + d) \in Nat /\ End(s, m + (d - 1)) \in Nat
        /\ End(s, m) \in Nat
    BY <2>1, EndStep
  <2>3. End(s, m) + (d - 1) <= End(s, m + (d - 1))
    BY <1>3, <2>1
  <2> QED
    BY <1>1, <2>1, <2>2, <2>3
<1>4. k - m \in Nat /\ k - m > 0 /\ m + (k - m) = k
  BY <1>1
<1>5. k - m \in Fine
  <2> HIDE DEF Fine
  <2> QED
    BY <1>2, <1>3, <1>4, UpTo
<1>6. End(s, m) \in Nat /\ End(s, k) \in Nat
  BY EndStep
<1>7. End(s, m) + (k - m) <= End(s, k)
  BY <1>1, <1>4, <1>5
<1> QED
  BY <1>4, <1>6, <1>7

\* A line that is appended moves no end and ends behind what was the size.
LEMMA EndsOfAppend ==
    ASSUME NEW s \in Seq(Incidents), NEW i \in Incidents
    PROVE  /\ \A k \in 0..Len(s) : End(Append(s, i), k) = End(s, k)
           /\ End(Append(s, i), Len(s) + 1) > Bytes(s)
           /\ Bytes(Append(s, i)) > Bytes(s)
<1>1. /\ Len(s) \in Nat /\ Append(s, i) \in Seq(Incidents) /\ Len(Append(s, i)) = Len(s) + 1
      /\ \A k \in 1..Len(s) : Append(s, i)[k] = s[k]
  BY LenProperties, AppendProperties
<1>2. ASSUME NEW k \in 0..Len(s) PROVE SubSeq(Append(s, i), 1, k) = SubSeq(s, 1, k)
  <2>1. k \in 0..Len(Append(s, i)) /\ k \in Nat
    BY <1>1
  <2>2. /\ SubSeq(s, 1, k) \in Seq(Incidents) /\ Len(SubSeq(s, 1, k)) = k
        /\ SubSeq(Append(s, i), 1, k) \in Seq(Incidents) /\ Len(SubSeq(Append(s, i), 1, k)) = k
    BY <1>1, <2>1, FirstLines
  <2>3. ASSUME NEW j \in 1..k PROVE SubSeq(Append(s, i), 1, k)[j] = SubSeq(s, 1, k)[j]
    <3>1. 1 \in Int /\ k \in Int /\ (\A n \in 1..k : s[n] \in Incidents /\ Append(s, i)[n] \in Incidents)
      BY <1>1, ElementOfSeq
    <3>2. j \in 1..(k - 1 + 1) /\ 1 + j - 1 = j /\ j \in 1..Len(s)
      BY <1>1, <2>1
    <3>3. SubSeq(s, 1, k)[j] = s[1 + j - 1] /\ SubSeq(Append(s, i), 1, k)[j] = Append(s, i)[1 + j - 1]
      BY <3>1, <3>2, SubSeqProperties
    <3> QED
      BY <1>1, <3>2, <3>3
  <2> QED
    BY <2>2, <2>3, SeqEqual
<1>3. Bytes(Append(s, i)) > Bytes(s)
  BY BytesAppend, BytesNat, SizeAssumption
<1>4. End(Append(s, i), Len(s) + 1) = Bytes(Append(s, i))
  BY <1>1, EndStep
<1> QED
  BY <1>2, <1>3, <1>4 DEF End

\* What a batch from an offset holds: the lines that start there or later.
LEMMA LinesFromIs ==
    ASSUME NEW s \in Seq(Incidents), NEW o \in Nat
    PROVE  \E p \in 0..Len(s) :
              /\ LinesFrom(s, o) = SubSeq(s, p + 1, Len(s))
              /\ \A k \in 1..Len(s) : k > p <=> End(s, k - 1) >= o
<1>1. Len(s) \in Nat
  BY LenProperties
<1> DEFINE whole == {k \in 1..Len(s) : Bytes(SubSeq(s, 1, k - 1)) >= o}
<1>2. \A k \in 1..Len(s) : k \in whole <=> End(s, k - 1) >= o
  BY DEF End
<1>3. \A k \in whole, n \in 1..Len(s) : k <= n => n \in whole
  <2> SUFFICES ASSUME NEW k \in whole, NEW n \in 1..Len(s), k < n PROVE n \in whole
    OBVIOUS
  <2>1. k - 1 \in 0..Len(s) /\ n - 1 \in 0..Len(s) /\ k - 1 < n - 1 /\ k \in 1..Len(s)
    BY <1>1
  <2>2. End(s, k - 1) < End(s, n - 1) /\ End(s, k - 1) \in Nat /\ End(s, n - 1) \in Nat
    BY <2>1, EndsGrow, EndStep
  <2> QED
    BY <1>2, <2>1, <2>2
<1>4. \E p \in 0..Len(s) : \A k \in 1..Len(s) : k \in whole <=> k > p
  <2>1. CASE whole = {}
    <3>1. Len(s) \in 0..Len(s) /\ \A k \in 1..Len(s) : ~(k > Len(s)) /\ k \notin whole
      BY <1>1, <2>1
    <3> QED
      BY <3>1
  <2>2. CASE whole # {}
    <3>1. whole \in SUBSET Nat
      BY <1>1
    <3>2. PICK m \in whole : \A j \in whole : m <= j
      BY <2>2, <3>1, LeastExists
    <3>3. m \in 1..Len(s) /\ m - 1 \in 0..Len(s)
      BY <1>1, <3>2
    <3>4. \A k \in 1..Len(s) : k \in whole <=> k > m - 1
      <4> HIDE DEF whole
      <4>1. \A k \in 1..Len(s) : k > m - 1 <=> m <= k
        BY <1>1, <3>3
      <4> QED
        BY <1>3, <3>2, <4>1
    <3> QED
      BY <3>3, <3>4
  <2> QED
    BY <2>1, <2>2
<1>5. PICK p \in 0..Len(s) : \A k \in 1..Len(s) : k \in whole <=> k > p
  BY <1>4
<1>6. whole = (p + 1)..Len(s)
  <2>1. \A k : k \in whole => k \in 1..Len(s)
    OBVIOUS
  <2> HIDE DEF whole
  <2>2. \A k : k \in (p + 1)..Len(s) <=> k \in 1..Len(s) /\ k > p
    BY <1>1
  <2> QED
    BY <1>5, <2>1, <2>2
<1>7. Cardinality(whole) = Len(s) - p
  <2>1. p + 1 \in Int /\ Len(s) \in Int
    BY <1>1
  <2>2. Cardinality((p + 1)..Len(s)) = IF p + 1 > Len(s) THEN 0 ELSE Len(s) - (p + 1) + 1
    BY <2>1, FS_Interval
  <2> HIDE DEF whole
  <2>3. Cardinality((p + 1)..Len(s)) = Len(s) - p
    BY <1>1, <2>2
  <2> QED
    BY <1>6, <2>3
<1>8. LinesFrom(s, o) = SubSeq(s, Len(s) - Cardinality(whole) + 1, Len(s))
  BY DEF LinesFrom
<1>9. Len(s) - (Len(s) - p) + 1 = p + 1
  BY <1>1
<1> HIDE DEF whole
<1>10. LinesFrom(s, o) = SubSeq(s, p + 1, Len(s))
  BY <1>7, <1>8, <1>9
<1> QED
  BY <1>2, <1>5, <1>10

\* f takes the first n lines of s and leaves the duplicates out.
IsKept(s, m, f) ==
    f = [n \in 0..m |-> IF n = 0 THEN <<>>
                        ELSE IF IsDuplicate(s, n) THEN f[n - 1] ELSE Append(f[n - 1], s[n])]

\* Without its duplicates a log is a log.
LEMMA UniqueTyped ==
    ASSUME NEW s \in Seq(Incidents)
    PROVE  Unique(s) \in Seq(Incidents)
<1> DEFINE N == Len(s)
           val(f, n) == IF n = 0 THEN <<>>
                        ELSE IF IsDuplicate(s, n) THEN f[n - 1] ELSE Append(f[n - 1], s[n])
           Fine == {m \in 0..N : \E f : IsKept(s, m, f)}
<1>1. N \in Nat /\ \A n \in 1..N : s[n] \in Incidents
  BY LenProperties, ElementOfSeq
<1>2. 0 \in Fine
  <2> DEFINE f == [n \in 0..0 |-> <<>>]
  <2>1. f = [n \in 0..0 |-> val(f, n)]
    OBVIOUS
  <2>2. IsKept(s, 0, f)
    BY <2>1 DEF IsKept
  <2> QED
    BY <1>1, <2>2
<1>3. ASSUME NEW m \in 1..N, m - 1 \in Fine PROVE m \in Fine
  <2>1. PICK f : IsKept(s, m - 1, f)
    BY <1>3
  <2> HIDE DEF N
  <2> DEFINE g == [n \in 0..m |-> IF n = m THEN IF IsDuplicate(s, m) THEN f[m - 1]
                                                ELSE Append(f[m - 1], s[m])
                                  ELSE f[n]]
  <2>2. m \in Nat /\ m # 0 /\ m - 1 # m
    BY <1>1
  <2>3. ASSUME NEW n \in 0..m PROVE g[n] = val(g, n)
    <3>1. CASE n = m
      <4>1. g[n] = val(f, m)
        BY <2>2, <3>1
      <4>2. m - 1 \in 0..m
        BY <2>2
      <4>3. g[m - 1] = f[m - 1]
        BY <2>2, <4>2
      <4> QED
        BY <2>2, <3>1, <4>1, <4>3
    <3>2. CASE n # m
      <4>1. n \in 0..(m - 1) /\ (n # 0 => n - 1 \in 0..m /\ n - 1 # m)
        BY <2>2, <3>2
      <4>2. f[n] = val(f, n)
        BY <2>1, <4>1 DEF IsKept
      <4>3. g[n] = f[n] /\ (n # 0 => g[n - 1] = f[n - 1])
        BY <3>2, <4>1
      <4> QED
        BY <4>2, <4>3
    <3> QED
      BY <3>1, <3>2
  <2>4. g = [n \in 0..m |-> g[n]]
    BY DEF g
  <2>5. g = [n \in 0..m |-> val(g, n)]
    <3> HIDE DEF g, val
    <3> QED
      BY <2>3, <2>4
  <2>6. IsKept(s, m, g)
    BY <2>5 DEF IsKept
  <2> HIDE DEF g
  <2> QED
    BY <2>6
<1>4. N \in Fine
  <2> HIDE DEF Fine, N
  <2> QED
    BY <1>1, <1>2, <1>3, UpTo
<1> DEFINE kept == CHOOSE f : f = [n \in 0..Len(s) |-> val(f, n)]
<1>5. kept = [n \in 0..N |-> val(kept, n)]
  BY <1>4 DEF IsKept
<1>6. Unique(s) = kept[N]
  BY DEF Unique
<1> HIDE DEF kept, N
<1> DEFINE Typed == {n \in 0..N : kept[n] \in Seq(Incidents)}
<1>7. 0 \in Typed
  BY <1>1, <1>5
<1>8. ASSUME NEW n \in 1..N, n - 1 \in Typed PROVE n \in Typed
  <2>1. n \in 0..N /\ n # 0
    BY <1>1
  <2>2. kept[n] = IF IsDuplicate(s, n) THEN kept[n - 1] ELSE Append(kept[n - 1], s[n])
    BY <1>5, <2>1
  <2>3. Append(kept[n - 1], s[n]) \in Seq(Incidents)
    BY <1>1, <1>8, AppendProperties
  <2> QED
    BY <1>8, <2>1, <2>2, <2>3
<1>9. N \in Typed
  <2> HIDE DEF Typed
  <2> QED
    BY <1>1, <1>7, <1>8, UpTo
<1> QED
  BY <1>6, <1>9

--------------------------------------------------------------------------------
(* Types *)

TickStates ==
    [stage : {"idle", "reading", "incidents", "tasks", "saving", "writing"},
     work : Seq(Items), next : States, step : {"budget", "enter"}]

\* An item is an incident or a task, and names it.
LEMMA ItemTypes ==
    /\ \A i \in Incidents : Incident(i) \in Items
    /\ \A i \in Tasked : Task(i) \in Items
    /\ \A w \in Items : w.kind = "incident" => w.of \in Incidents /\ w = Incident(w.of)
    /\ \A w \in Items : w.kind = "task" => w.of \in Tasked /\ w = Task(w.of)
    /\ \A w \in Items : w.kind \in {"incident", "task"} /\ w.of \in Incidents
  BY SubsetAssumption DEF Items, Incident, Task

\* What a tick and the log begin with has its type.
LEMMA StartTyped ==
    Blank \in States /\ Resting \in TickStates /\ <<>> \in Seq(Incidents)
<1>1. <<>> \in Seq(Items) /\ <<>> \in Seq(Incidents)
  BY EmptySeq
<1>2. Blank \in States
  BY DEF Blank, States
<1> QED
  BY <1>1, <1>2 DEF Resting, TickStates

\* The initial states are well typed.
LEMMA TypeInit == OrchestratorInit => OrchestratorTypeOK /\ FiniteOK
<1> SUFFICES ASSUME OrchestratorInit PROVE OrchestratorTypeOK /\ FiniteOK
  OBVIOUS
<1>1. FiniteOK
  BY FS_EmptySet, EmptySeq DEF OrchestratorInit, FiniteOK, TasksReported, Resting
<1>2. tick \in [Ticks -> TickStates]
  BY StartTyped DEF OrchestratorInit
<1>3. disturbed \in [overlap : BOOLEAN, faults : 0..MaxFaults, rewritten : BOOLEAN]
  BY BoundsAssumption DEF OrchestratorInit
<1> QED
  BY <1>1, <1>2, <1>3, StartTyped DEF OrchestratorInit, OrchestratorTypeOK, TickStates, NoCopy

\* A fault is within the bound.
LEMMA FaultTyped ==
    ASSUME OrchestratorTypeOK, Fault
    PROVE  disturbed' \in [overlap : BOOLEAN, faults : 0..MaxFaults, rewritten : BOOLEAN]
<1>1. disturbed.faults \in 0..MaxFaults /\ disturbed.faults + 1 \in 0..MaxFaults
  BY BoundsAssumption DEF OrchestratorTypeOK, Fault
<1>2. disturbed' = [disturbed EXCEPT !.faults = disturbed.faults + 1]
  BY DEF Fault
<1> QED
  BY <1>1, <1>2 DEF OrchestratorTypeOK

\* A log that changes leaves offsets and ticks typed.
LEMMA LogTyped ==
    ASSUME OrchestratorTypeOK, NEW lines \in Seq(Incidents), LogBecomes(lines)
    PROVE  /\ log' \in Seq(Incidents) /\ {state', disk'} \subseteq States
           /\ tick' \in [Ticks -> TickStates]
<1>1. {state', disk'} \subseteq States
  BY DEF OrchestratorTypeOK, LogBecomes, States
<1>2. ASSUME NEW t \in Ticks PROVE [tick[t] EXCEPT !.next.seen = FALSE] \in TickStates
  <2>1. tick[t] \in TickStates
    BY DEF OrchestratorTypeOK, TickStates
  <2>2. [tick[t].next EXCEPT !.seen = FALSE] \in States
    BY <2>1 DEF TickStates, States
  <2>3. [tick[t] EXCEPT !.next = [tick[t].next EXCEPT !.seen = FALSE]] \in TickStates
    BY <2>1, <2>2 DEF TickStates
  <2> QED
    BY <2>3
<1> QED
  BY <1>1, <1>2 DEF LogBecomes

\* One tick moves, and nothing but it.
LEMMA OneTickTyped ==
    ASSUME OrchestratorTypeOK, NEW t \in Ticks, NEW r \in TickStates, tick' = [tick EXCEPT ![t] = r]
    PROVE  tick' \in [Ticks -> TickStates]
  BY DEF OrchestratorTypeOK, TickStates

\* There are finitely many open tasks, and an order of them is a sequence that
\* names each once.
LEMMA OrderTyped ==
    ASSUME OrchestratorTypeOK, FiniteOK, NEW order \in SetToSeqs(OpenTasks)
    PROVE  /\ order \in Seq(Items)
           /\ \A j \in 1..Len(order) : order[j] \in OpenTasks
           /\ \A j, l \in 1..Len(order) : order[j] = order[l] => j = l
<1>1. IsFiniteSet(OpenTasks)
  <2> DEFINE made == {Task(i) : i \in reported}
  <2>1. IsFiniteSet(made)
    <3> DEFINE f == [i \in reported |-> Task(i)]
    <3>1. f \in Surjection(reported, made)
      BY DEF Surjection
    <3> HIDE DEF f, made
    <3> QED
      BY <3>1, FS_Surjection DEF FiniteOK
  <2>2. OpenTasks \subseteq made
    <3>1. ASSUME NEW w \in OpenTasks PROVE w \in made
      <4>1. w \in Items /\ w.kind = "task" /\ task[w.of] = "assigned"
        BY DEF OpenTasks
      <4>2. w = Task(w.of) /\ w.of \in Incidents /\ w.of \in reported
        BY <4>1, ItemTypes DEF FiniteOK
      <4> QED
        BY <4>2
    <3> QED
      BY <3>1
  <2> QED
    BY <2>1, <2>2, FS_Subset
<1> DEFINE D == 1..Cardinality(OpenTasks)
<1>2. Cardinality(OpenTasks) \in Nat
  BY <1>1, FS_CardinalityType
<1>3. order \in [D -> OpenTasks] /\ \A j, l \in D : j # l => order[j] # order[l]
  BY DEF SetToSeqs
<1>4. OpenTasks \subseteq Items
  BY DEF OpenTasks
<1>5. order \in [D -> Items]
  BY <1>3, <1>4
<1>6. order \in Seq(Items) /\ Len(order) = Cardinality(OpenTasks)
  BY <1>2, <1>5
<1> QED
  BY <1>3, <1>6

\* One tick goes on to r, and the other stays.
Moves(t, r) == tick' = [tick EXCEPT ![t] = r]

\* The head of the work is done.
LEMMA DoneTyped ==
    ASSUME OrchestratorTypeOK, NEW t \in Ticks, tick[t].work # <<>>
    PROVE  /\ Item(t) \in Items
           /\ [tick[t] EXCEPT !.work = Tail(tick[t].work), !.step = "budget"] \in TickStates
           /\ \A w \in Items : Recorded(w) => recorded' \subseteq Incidents
           /\ \A w \in Items : Handed(w) => handed' \in [Items -> 0..2]
<1>1. tick[t] \in TickStates
  BY DEF OrchestratorTypeOK, TickStates
<1>2. Head(tick[t].work) \in Items /\ Tail(tick[t].work) \in Seq(Items)
  <2>1. tick[t].work \in Seq(Items)
    BY <1>1 DEF TickStates
  <2> QED
    BY <2>1, HeadTailProperties
<1>3. ASSUME NEW w \in Items, Recorded(w) PROVE recorded' \subseteq Incidents
  BY <1>3, ItemTypes DEF Recorded, OrchestratorTypeOK
<1>4. ASSUME NEW w \in Items, Handed(w) PROVE handed' \in [Items -> 0..2]
  BY <1>4 DEF Handed, OrchestratorTypeOK
<1> QED
  BY <1>1, <1>2, <1>3, <1>4 DEF Item, TickStates

\* Every step keeps the types.
LEMMA TypeStep ==
    OrchestratorTypeOK /\ FiniteOK /\ [OrchestratorNext]_orchestratorVars => OrchestratorTypeOK'
<1> SUFFICES ASSUME OrchestratorTypeOK, FiniteOK, [OrchestratorNext]_orchestratorVars PROVE OrchestratorTypeOK'
  OBVIOUS
<1>0. OrchestratorTypeOK <=>
        /\ log \in Seq(Incidents) /\ reported \subseteq Incidents
        /\ task \in [Incidents -> {"none", "wanted", "assigned", "in_progress"}]
        /\ {state, disk} \subseteq States /\ tick \in [Ticks -> TickStates]
        /\ copy \in [at : Nat, lines : Seq(Incidents)]
        /\ recorded \subseteq Incidents /\ handed \in [Items -> 0..2]
        /\ disturbed \in [overlap : BOOLEAN, faults : 0..MaxFaults, rewritten : BOOLEAN]
  BY DEF OrchestratorTypeOK, TickStates
<1>1. ASSUME NEW i \in Incidents, EmitIncident(i) PROVE OrchestratorTypeOK'
  <2>1. Append(log, i) \in Seq(Incidents) /\ LogBecomes(Append(log, i))
    BY <1>0, <1>1, AppendProperties DEF EmitIncident
  <2>2. log' \in Seq(Incidents) /\ {state', disk'} \subseteq States /\ tick' \in [Ticks -> TickStates]
    BY <2>1, LogTyped
  <2> QED
    BY <1>0, <1>1, <2>2 DEF EmitIncident, history, OrchestratorTypeOK, TickStates
<1>2. ASSUME NEW i \in Incidents, MakeTask(i) PROVE OrchestratorTypeOK'
  BY <1>0, <1>2 DEF MakeTask, history, logVars, OrchestratorTypeOK
<1>3. ASSUME NEW t \in Ticks, TickStarts(t) PROVE OrchestratorTypeOK'
  <2>1. [tick[t] EXCEPT !.stage = "saving"] \in TickStates /\ [tick[t] EXCEPT !.stage = "reading"] \in TickStates
    BY <1>0, ZenonT(60) DEF TickStates
  <2>2. tick' \in [Ticks -> TickStates]
    BY <1>3, <2>1, OneTickTyped DEF TickStarts
  <2>3. disturbed' \in [overlap : BOOLEAN, faults : 0..MaxFaults, rewritten : BOOLEAN]
    BY <1>0, <1>3 DEF TickStarts
  <2> QED
    BY <1>0, <1>3, <2>2, <2>3 DEF TickStarts, logVars, OrchestratorTypeOK, TickStates
<1>4. ASSUME NEW t \in Ticks, ReadIncidentBatch(t) PROVE OrchestratorTypeOK'
  <2> DEFINE from == IF Bytes(log) < state.offset THEN 0 ELSE state.offset
             lines == LinesFrom(log, from)
             r == [stage |-> "incidents", step |-> "budget", next |-> [offset |-> Bytes(log), seen |-> TRUE],
                   work |-> [k \in 1..Len(lines) |-> Incident(lines[k])]]
  <2>1. from \in Nat /\ Bytes(log) \in Nat
    BY <1>0, BytesNat DEF States
  <2>2. PICK p \in 0..Len(log) : lines = SubSeq(log, p + 1, Len(log))
    BY <1>0, <2>1, LinesFromIs
  <2>3. lines \in Seq(Incidents)
    <3>1. Len(log) \in Int /\ p + 1 \in Int /\ \A k \in (p + 1)..Len(log) : log[k] \in Incidents
      BY <1>0, LenProperties, ElementOfSeq
    <3> QED
      BY <2>2, <3>1, SubSeqProperties
  <2> HIDE DEF lines, from
  <2>4. [k \in 1..Len(lines) |-> Incident(lines[k])] \in Seq(Items)
    <3>1. Len(lines) \in Nat /\ \A k \in 1..Len(lines) : Incident(lines[k]) \in Items
      BY <2>3, LenProperties, ElementOfSeq, ItemTypes
    <3> QED
      BY <3>1
  <2>5. r \in TickStates
    BY <2>1, <2>4 DEF TickStates, States
  <2>6. Moves(t, r)
    BY <1>4 DEF ReadIncidentBatch, Moves, lines, from
  <2>7. tick' \in [Ticks -> TickStates]
    BY <2>5, <2>6, OneTickTyped DEF Moves
  <2> QED
    BY <1>0, <1>4, <2>7 DEF ReadIncidentBatch, logVars, history, OrchestratorTypeOK, TickStates
<1>5. ASSUME NEW t \in Ticks, ListTasks(t) PROVE OrchestratorTypeOK'
  <2>1. PICK order \in SetToSeqs(OpenTasks) :
           tick' = [tick EXCEPT ![t].stage = "tasks", ![t].work = order]
    BY <1>5 DEF ListTasks
  <2>2. order \in Seq(Items)
    BY OrderTyped
  <2>3. [tick[t] EXCEPT !.stage = "tasks", !.work = order] \in TickStates
    BY <1>0, <2>2, ZenonT(60) DEF TickStates
  <2>4. tick' \in [Ticks -> TickStates]
    BY <2>1, <2>3, OneTickTyped, ZenonT(60)
  <2> QED
    BY <1>0, <1>5, <2>4 DEF ListTasks, logVars, history, OrchestratorTypeOK, TickStates
<1>6. ASSUME NEW t \in Ticks, AdvanceOffset(t) PROVE OrchestratorTypeOK'
  <2>1. [Resting EXCEPT !.stage = "saving"] \in TickStates
    BY StartTyped DEF TickStates
  <2>2. tick' \in [Ticks -> TickStates]
    BY <1>6, <2>1, OneTickTyped DEF AdvanceOffset
  <2>3. state' \in States
    BY <1>0, <1>6 DEF AdvanceOffset, NextOffset, TickStates, States
  <2> QED
    BY <1>0, <1>6, <2>2, <2>3 DEF AdvanceOffset, logVars, history, OrchestratorTypeOK, TickStates
<1>7. ASSUME NEW t \in Ticks, SaveOpens(t) PROVE OrchestratorTypeOK'
  <2>1. [Resting EXCEPT !.stage = "writing", !.next = state] \in TickStates
    BY <1>0, StartTyped DEF TickStates
  <2>2. tick' \in [Ticks -> TickStates]
    BY <1>7, <2>1, OneTickTyped DEF SaveOpens
  <2> QED
    BY <1>0, <1>7, <2>2, StartTyped DEF SaveOpens, logVars, history, OrchestratorTypeOK, TickStates
<1>8. ASSUME NEW t \in Ticks, SaveWrites(t) PROVE OrchestratorTypeOK'
  <2>1. tick' \in [Ticks -> TickStates]
    BY <1>8, StartTyped, OneTickTyped DEF SaveWrites
  <2>2. disk' \in States
    BY <1>0, <1>8 DEF SaveWrites, TickStates
  <2> QED
    BY <1>0, <1>8, <2>1, <2>2 DEF SaveWrites, logVars, history, OrchestratorTypeOK, TickStates
<1>9. ASSUME NEW t \in Ticks, Skip(t) \/ EnterLedger(t) PROVE OrchestratorTypeOK'
  <2>1. Done(t) /\ Recorded(Item(t)) /\ tick[t].work # <<>>
    BY <1>9 DEF Skip, EnterLedger, Working
  <2>2. tick' = [tick EXCEPT ![t] = [tick[t] EXCEPT !.work = Tail(tick[t].work), !.step = "budget"]]
    BY <2>1 DEF Done
  <2>3. tick' \in [Ticks -> TickStates] /\ recorded' \subseteq Incidents
    BY <2>1, <2>2, DoneTyped, OneTickTyped
  <2> QED
    BY <1>0, <1>9, <2>3 DEF Skip, EnterLedger, logVars, OrchestratorTypeOK, TickStates
<1>10. ASSUME NEW t \in Ticks, CallAccepted(t) PROVE OrchestratorTypeOK'
  <2>1. tick[t].work # <<>> /\ Handed(Item(t)) /\ task' = TaskTaken(Item(t))
    BY <1>10 DEF CallAccepted, Working
  <2>2. [tick[t] EXCEPT !.step = "enter"] \in TickStates
    BY <1>0, ZenonT(60) DEF TickStates
  <2>3. tick' \in [Ticks -> TickStates]
    BY <1>10, <2>2, OneTickTyped DEF CallAccepted
  <2>4. handed' \in [Items -> 0..2]
    BY <2>1, DoneTyped
  <2>5. task' \in [Incidents -> {"none", "wanted", "assigned", "in_progress"}]
    BY <1>0, <2>1 DEF TaskTaken
  <2> QED
    BY <1>0, <1>10, <2>3, <2>4, <2>5 DEF CallAccepted, logVars, OrchestratorTypeOK, TickStates
<1>11. ASSUME NEW t \in Ticks, CallFails(t) PROVE OrchestratorTypeOK'
  <2>1. Done(t) /\ Recorded(Item(t)) /\ tick[t].work # <<>> /\ Fault
    BY <1>11 DEF CallFails, Working
  <2>2. tick' = [tick EXCEPT ![t] = [tick[t] EXCEPT !.work = Tail(tick[t].work), !.step = "budget"]]
    BY <2>1 DEF Done
  <2>3. tick' \in [Ticks -> TickStates] /\ recorded' \subseteq Incidents
    BY <2>1, <2>2, DoneTyped, OneTickTyped
  <2>4. handed' \in [Items -> 0..2]
    BY <1>0, <1>11, <2>1, DoneTyped DEF CallFails
  <2>5. disturbed' \in [overlap : BOOLEAN, faults : 0..MaxFaults, rewritten : BOOLEAN]
    BY <2>1, FaultTyped
  <2> QED
    BY <1>0, <1>11, <2>3, <2>4, <2>5 DEF CallFails, logVars, OrchestratorTypeOK, TickStates
<1>12. ASSUME NEW t \in Ticks, TickFails(t) PROVE OrchestratorTypeOK'
  <2>1. tick' \in [Ticks -> TickStates]
    BY <1>12, StartTyped, OneTickTyped DEF TickFails
  <2>2. disturbed' \in [overlap : BOOLEAN, faults : 0..MaxFaults, rewritten : BOOLEAN]
    BY <1>12, FaultTyped DEF TickFails
  <2> QED
    BY <1>0, <1>12, <2>1, <2>2 DEF TickFails, logVars, OrchestratorTypeOK, TickStates
<1>13. CASE RewriteReads
  <2>1. copy' \in [at : Nat, lines : Seq(Incidents)]
    BY <1>0, <1>13, UniqueTyped, LenProperties DEF RewriteReads
  <2>2. disturbed' \in [overlap : BOOLEAN, faults : 0..MaxFaults, rewritten : BOOLEAN]
    BY <1>13, FaultTyped DEF RewriteReads, Fault
  <2> QED
    BY <1>0, <1>13, <2>1, <2>2 DEF RewriteReads, OrchestratorTypeOK, TickStates
<1>14. CASE RewriteReplaces
  <2>1. copy' \in [at : Nat, lines : Seq(Incidents)]
    BY <1>14, StartTyped DEF RewriteReplaces, NoCopy
  <2>2. log' \in Seq(Incidents) /\ {state', disk'} \subseteq States /\ tick' \in [Ticks -> TickStates]
    <3>1. copy.lines \in Seq(Incidents)
      BY <1>0
    <3> QED
      BY <1>0, <1>14, <3>1, LogTyped DEF RewriteReplaces
  <2>3. disturbed' \in [overlap : BOOLEAN, faults : 0..MaxFaults, rewritten : BOOLEAN]
    BY <1>0, <1>14 DEF RewriteReplaces
  <2> QED
    BY <1>0, <1>14, <2>1, <2>2, <2>3 DEF RewriteReplaces, OrchestratorTypeOK, TickStates
<1>15. CASE Crash
  <2>1. tick' \in [Ticks -> TickStates] /\ copy' \in [at : Nat, lines : Seq(Incidents)]
    BY <1>15, StartTyped DEF Crash, NoCopy
  <2>2. disturbed' \in [overlap : BOOLEAN, faults : 0..MaxFaults, rewritten : BOOLEAN]
    BY <1>15, FaultTyped DEF Crash
  <2>3. task' \in [Incidents -> {"none", "wanted", "assigned", "in_progress"}]
    BY <1>0, <1>15 DEF Crash
  <2> QED
    BY <1>0, <1>15, <2>1, <2>2, <2>3 DEF Crash, OrchestratorTypeOK, TickStates
<1>16. CASE UNCHANGED orchestratorVars
  BY <1>16 DEF orchestratorVars, OrchestratorTypeOK
<1> QED
  BY <1>1, <1>2, <1>3, <1>4, <1>5, <1>6, <1>7, <1>8, <1>9, <1>10, <1>11, <1>12, <1>13, <1>14,
     <1>15, <1>16 DEF OrchestratorNext, TickStep

\* What is left of the work when its head is done.
LEMMA Rest ==
    ASSUME OrchestratorTypeOK, NEW t \in Ticks, tick[t].work # <<>>
    PROVE  LET work == tick[t].work IN
           /\ work \in Seq(Items) /\ Len(work) \in Nat /\ Item(t) \in Items
           /\ 1 \in 1..Len(work) /\ work[1] = Item(t)
           /\ Tail(work) \in Seq(Items) /\ Len(Tail(work)) = Len(work) - 1
           /\ \A j \in 1..Len(Tail(work)) : j + 1 \in 1..Len(work) /\ Tail(work)[j] = work[j + 1]
<1> DEFINE work == tick[t].work
<1>1. work \in Seq(Items)
  BY DEF OrchestratorTypeOK
<1>2. Len(work) \in Nat /\ Len(work) > 0
  BY <1>1, EmptySeq, LenProperties
<1>3. /\ Head(work) = work[1] /\ Head(work) \in Items
      /\ Tail(work) \in Seq(Items) /\ Len(Tail(work)) = Len(work) - 1
      /\ \A j \in 1..Len(Tail(work)) : Tail(work)[j] = work[j + 1]
  BY <1>1, HeadTailProperties
<1>4. \A j \in 1..(Len(work) - 1) : j + 1 \in 1..Len(work)
  BY <1>2
<1> QED
  BY <1>1, <1>2, <1>3, <1>4 DEF Item

\* There are tasks of reported incidents only, and of these finitely many.
LEMMA FiniteStep ==
    OrchestratorTypeOK /\ FiniteOK /\ [OrchestratorNext]_orchestratorVars => FiniteOK'
<1> SUFFICES ASSUME OrchestratorTypeOK, FiniteOK, [OrchestratorNext]_orchestratorVars PROVE FiniteOK'
  OBVIOUS
<1>0. /\ task \in [Incidents -> {"none", "wanted", "assigned", "in_progress"}]
      /\ tick \in [Ticks -> TickStates]
  BY DEF OrchestratorTypeOK, TickStates
<1>1. TasksReported(<<>>) /\ Resting.work = <<>>
  BY EmptySeq DEF TasksReported, Resting
<1>2. ASSUME reported \subseteq reported', IsFiniteSet(reported'),
             \A j \in Incidents : task'[j] # "none" => j \in reported',
             \A t \in Ticks : TasksReported(tick'[t].work)
      PROVE  FiniteOK'
  BY <1>2 DEF FiniteOK, TasksReported
<1>3. ASSUME UNCHANGED <<reported, task>>,
             \A t \in Ticks : TasksReported(tick'[t].work)
      PROVE  FiniteOK'
  BY <1>2, <1>3 DEF FiniteOK
<1>4. ASSUME NEW t \in Ticks, NEW r \in TickStates, Moves(t, r), TasksReported(r.work)
      PROVE  \A u \in Ticks : TasksReported(tick'[u].work)
  BY <1>0, <1>4 DEF Moves, FiniteOK
<1>5. ASSUME UNCHANGED tick PROVE \A u \in Ticks : TasksReported(tick'[u].work)
  BY <1>5 DEF FiniteOK
<1>6. ASSUME NEW lines, LogBecomes(lines) PROVE \A u \in Ticks : tick'[u].work = tick[u].work
  BY <1>0, <1>6 DEF LogBecomes, TickStates
<1>7. ASSUME NEW t \in Ticks, tick[t].work # <<>>, Done(t)
      PROVE  \A u \in Ticks : TasksReported(tick'[u].work)
  <2>1. TasksReported(Tail(tick[t].work))
    BY <1>7, Rest DEF TasksReported, FiniteOK
  <2>2. tick' = [tick EXCEPT ![t] = [tick[t] EXCEPT !.work = Tail(tick[t].work), !.step = "budget"]]
    BY <1>7 DEF Done
  <2> QED
    BY <1>0, <2>1, <2>2 DEF FiniteOK, TickStates
<1>8. ASSUME NEW i \in Incidents, EmitIncident(i) PROVE FiniteOK'
  <2>1. reported' = reported \cup {i} /\ LogBecomes(Append(log, i))
    BY <1>8 DEF EmitIncident
  <2>2. IsFiniteSet(reported')
    BY <2>1, FS_AddElement DEF FiniteOK
  <2>3. \A j \in Incidents : task'[j] # "none" => j \in reported'
    BY <1>0, <1>8, <2>1 DEF EmitIncident, FiniteOK
  <2>4. \A u \in Ticks : TasksReported(tick'[u].work)
    BY <1>6, <2>1 DEF FiniteOK
  <2> QED
    BY <1>2, <2>1, <2>2, <2>3, <2>4
<1>9. ASSUME NEW i \in Incidents, MakeTask(i) PROVE FiniteOK'
  <2>1. \A j \in Incidents : task'[j] # "none" => task[j] # "none"
    BY <1>0, <1>9 DEF MakeTask
  <2> QED
    BY <1>2, <1>5, <1>9, <2>1 DEF MakeTask, logVars, FiniteOK
<1>10. ASSUME NEW t \in Ticks, TickStarts(t) PROVE FiniteOK'
  <2>1. PICK stage : tick' = [tick EXCEPT ![t] = [tick[t] EXCEPT !.stage = stage]]
    BY <1>10 DEF TickStarts
  <2>2. \A u \in Ticks : tick'[u].work = tick[u].work
    BY <1>0, <2>1 DEF TickStates
  <2> QED
    BY <1>3, <1>10, <2>2 DEF TickStarts, logVars, FiniteOK
<1>11. ASSUME NEW t \in Ticks, ReadIncidentBatch(t) PROVE FiniteOK'
  <2>1. OrchestratorTypeOK'
    BY <1>11, TypeStep DEF OrchestratorNext, TickStep
  <2>2. tick'[t].work \in Seq(Items) /\ (\A u \in Ticks : u # t => tick'[u] = tick[u])
    BY <1>0, <1>11, <2>1 DEF OrchestratorTypeOK, ReadIncidentBatch
  <2>3. \A j \in 1..Len(tick'[t].work) : tick'[t].work[j].kind = "incident"
    <3> DEFINE from == IF Bytes(log) < state.offset THEN 0 ELSE state.offset
               lines == LinesFrom(log, from)
               work == [k \in 1..Len(lines) |-> Incident(lines[k])]
    <3>1. tick'[t].work = work
      BY <1>0, <1>11 DEF ReadIncidentBatch
    <3>2. DOMAIN work = 1..Len(work)
      BY <2>2, <3>1, LenProperties
    <3>3. 1..Len(work) = 1..Len(lines)
      BY <3>2
    <3>4. \A k \in 1..Len(lines) : work[k].kind = "incident"
      BY DEF Incident
    <3> HIDE DEF work, lines
    <3> QED
      BY <3>1, <3>3, <3>4
  <2>4. TasksReported(tick'[t].work)
    BY <2>3 DEF TasksReported
  <2> QED
    BY <1>3, <1>11, <2>2, <2>4 DEF ReadIncidentBatch, logVars, FiniteOK
<1>12. ASSUME NEW t \in Ticks, ListTasks(t) PROVE FiniteOK'
  <2>1. PICK order \in SetToSeqs(OpenTasks) :
           tick' = [tick EXCEPT ![t].stage = "tasks", ![t].work = order]
    BY <1>12 DEF ListTasks
  <2>2. TasksReported(order)
    <3>1. \A j \in 1..Len(order) : order[j] \in Items /\ task[order[j].of] = "assigned"
      BY OrderTyped DEF OpenTasks
    <3> QED
      BY <3>1, ItemTypes DEF TasksReported, FiniteOK
  <2>3. \A u \in Ticks : TasksReported(tick'[u].work)
    BY <1>0, <2>1, <2>2 DEF FiniteOK, TickStates
  <2> QED
    BY <1>3, <1>12, <2>3 DEF ListTasks, logVars
<1>13. ASSUME NEW t \in Ticks, AdvanceOffset(t) \/ SaveOpens(t) \/ SaveWrites(t) \/ TickFails(t)
       PROVE  FiniteOK'
  <2>1. \A u \in Ticks : tick'[u].work \in {<<>>, tick[u].work}
    BY <1>0, <1>1, <1>13, ZenonT(60) DEF AdvanceOffset, SaveOpens, SaveWrites, TickFails, Resting
  <2> QED
    BY <1>1, <1>3, <1>13, <2>1 DEF AdvanceOffset, SaveOpens, SaveWrites, TickFails, logVars, FiniteOK
<1>14. ASSUME NEW t \in Ticks, Skip(t) \/ EnterLedger(t) \/ CallFails(t) PROVE FiniteOK'
  <2>1. Done(t) /\ tick[t].work # <<>>
    BY <1>14 DEF Skip, EnterLedger, CallFails, Working
  <2> QED
    BY <1>3, <1>7, <1>14, <2>1 DEF Skip, EnterLedger, CallFails, logVars
<1>15. ASSUME NEW t \in Ticks, CallAccepted(t) PROVE FiniteOK'
  <2>1. tick[t].work # <<>> /\ task' = TaskTaken(Item(t))
    BY <1>15 DEF CallAccepted, Working
  <2>2. Item(t).kind = "task" => Item(t).of \in reported
    BY <2>1, Rest DEF FiniteOK, TasksReported
  <2>3. \A j \in Incidents : task'[j] # "none" => j \in reported
    BY <1>0, <2>1, <2>2 DEF TaskTaken, FiniteOK
  <2>4. \A u \in Ticks : tick'[u].work = tick[u].work
    BY <1>0, <1>15 DEF CallAccepted, TickStates
  <2> QED
    BY <1>2, <1>15, <2>3, <2>4 DEF CallAccepted, logVars, FiniteOK
<1>16. CASE RewriteReads
  BY <1>3, <1>5, <1>16 DEF RewriteReads
<1>17. CASE RewriteReplaces
  <2>1. \A u \in Ticks : TasksReported(tick'[u].work)
    BY <1>5, <1>6, <1>17 DEF RewriteReplaces, FiniteOK
  <2> QED
    BY <1>3, <1>17, <2>1 DEF RewriteReplaces
<1>18. CASE Crash
  <2>1. \A j \in Incidents : task'[j] # "none" => task[j] # "none"
    BY <1>0, <1>18 DEF Crash
  <2>2. \A u \in Ticks : tick'[u].work = <<>>
    BY <1>1, <1>18 DEF Crash
  <2> QED
    BY <1>1, <1>2, <1>18, <2>1, <2>2 DEF Crash, FiniteOK
<1>19. CASE UNCHANGED orchestratorVars
  BY <1>3, <1>5, <1>19 DEF orchestratorVars
<1> QED
  BY <1>8, <1>9, <1>10, <1>11, <1>12, <1>13, <1>14, <1>15, <1>16, <1>17, <1>18, <1>19 DEF OrchestratorNext, TickStep

--------------------------------------------------------------------------------
(* Nothing is passed over *)

\* The start and the size of a log are ends of lines, and an end stays one.
LEMMA BoundaryFacts ==
    ASSUME NEW s \in Seq(Incidents)
    PROVE  /\ IsBoundary(s, 0) /\ IsBoundary(s, Bytes(s))
           /\ \A o : IsBoundary(s, o) =>
                 /\ o \in Nat /\ ~(Bytes(s) < o)
                 /\ \A i \in Incidents : IsBoundary(Append(s, i), o)
<1>1. Len(s) \in Nat /\ 0 \in 0..Len(s) /\ Len(s) \in 0..Len(s)
  BY LenProperties
<1>2. IsBoundary(s, 0) /\ IsBoundary(s, Bytes(s))
  BY <1>1, EndStep DEF IsBoundary
<1>3. ASSUME NEW o, IsBoundary(s, o) PROVE o \in Nat /\ ~(Bytes(s) < o)
  <2>1. PICK m \in 0..Len(s) : o = End(s, m)
    BY <1>3 DEF IsBoundary
  <2>2. o \in Nat /\ Bytes(s) \in Nat /\ End(s, Len(s)) = Bytes(s)
    BY <2>1, EndStep, BytesNat
  <2>3. CASE m = Len(s)
    BY <2>1, <2>2, <2>3
  <2>4. CASE m < Len(s)
    BY <1>1, <2>1, <2>2, <2>4, EndsGrow
  <2> QED
    BY <1>1, <2>3, <2>4
<1>4. ASSUME NEW o, IsBoundary(s, o), NEW i \in Incidents PROVE IsBoundary(Append(s, i), o)
  <2>1. PICK m \in 0..Len(s) : o = End(s, m)
    BY <1>4 DEF IsBoundary
  <2>2. End(Append(s, i), m) = End(s, m) /\ m \in 0..(Len(s) + 1)
    BY <1>1, EndsOfAppend
  <2>3. Len(Append(s, i)) = Len(s) + 1
    BY AppendProperties
  <2> QED
    BY <2>1, <2>2, <2>3 DEF IsBoundary
<1> QED
  BY <1>2, <1>3, <1>4

\* A line that is appended lies behind every offset.
LEMMA AppendedIsAhead ==
    ASSUME NEW s \in Seq(Incidents), NEW i \in Incidents, NEW o, IsBoundary(s, o),
           NEW k \in 1..Len(Append(s, i)), End(Append(s, i), k) <= o
    PROVE  k \in 1..Len(s) /\ Append(s, i)[k] = s[k] /\ End(s, k) <= o
<1>1. /\ Len(s) \in Nat /\ Len(Append(s, i)) = Len(s) + 1
      /\ \A j \in 1..Len(s) : Append(s, i)[j] = s[j]
  BY LenProperties, AppendProperties
<1>2. o \in Nat /\ Bytes(s) \in Nat /\ ~(Bytes(s) < o) /\ End(Append(s, i), Len(s) + 1) > Bytes(s)
  BY BoundaryFacts, BytesNat, EndsOfAppend
<1>3. Append(s, i) \in Seq(Incidents) /\ End(Append(s, i), Len(s) + 1) \in Nat
  <2>1. Append(s, i) \in Seq(Incidents) /\ Len(s) + 1 \in 0..Len(Append(s, i))
    BY <1>1, AppendProperties
  <2> QED
    BY <2>1, EndStep
<1>4. k # Len(s) + 1
  BY <1>2, <1>3
<1>5. k \in 1..Len(s) /\ k \in 0..Len(s)
  BY <1>1, <1>4
<1> QED
  BY <1>1, <1>5, EndsOfAppend

\* More records and one more line: what was passed rightly still is ...
LEMMA PassedStays ==
    ASSUME NEW s \in Seq(Incidents), NEW done, NEW more, done \subseteq more, NEW o, Passed(s, done, o)
    PROVE  Passed(s, more, o) /\ \A i \in Incidents : Passed(Append(s, i), more, o)
<1>1. Passed(s, more, o)
  BY DEF Passed
<1>2. ASSUME NEW i \in Incidents PROVE Passed(Append(s, i), more, o)
  <2>1. IsBoundary(Append(s, i), o) /\ IsBoundary(s, o)
    BY BoundaryFacts DEF Passed
  <2>2. ASSUME NEW k \in 1..Len(Append(s, i)), End(Append(s, i), k) <= o
        PROVE  Append(s, i)[k] \in more
    BY <1>1, <2>1, <2>2, AppendedIsAhead DEF Passed
  <2> QED
    BY <2>1, <2>2 DEF Passed
<1> QED
  BY <1>1, <1>2

\* ... so does what a batch covers ...
LEMMA BatchedStays ==
    ASSUME NEW s \in Seq(Incidents), NEW done, NEW more, done \subseteq more,
           NEW work, NEW o, Batched(s, done, work, o)
    PROVE  Batched(s, more, work, o) /\ \A i \in Incidents : Batched(Append(s, i), more, work, o)
<1>1. Batched(s, more, work, o)
  BY DEF Batched
<1>2. ASSUME NEW i \in Incidents PROVE Batched(Append(s, i), more, work, o)
  <2>1. IsBoundary(Append(s, i), o) /\ IsBoundary(s, o)
    BY BoundaryFacts DEF Batched
  <2>2. ASSUME NEW k \in 1..Len(Append(s, i)), End(Append(s, i), k) <= o
        PROVE  \/ Append(s, i)[k] \in more
               \/ \E j \in 1..Len(work) : work[j] = Incident(Append(s, i)[k])
    BY <1>1, <2>1, <2>2, AppendedIsAhead DEF Batched
  <2> QED
    BY <2>1, <2>2 DEF Batched
<1> QED
  BY <1>1, <1>2

\* ... and what a tick is about to save.
LEMMA TickStaysPassed ==
    ASSUME NEW s \in Seq(Incidents), NEW done, NEW more, done \subseteq more, NEW r, TickPasses(s, done, r)
    PROVE  TickPasses(s, more, r) /\ \A i \in Incidents : TickPasses(Append(s, i), more, r)
  BY PassedStays, BatchedStays DEF TickPasses

\* No line ends at offset 0.
LEMMA NothingBeforeStart ==
    ASSUME NEW s \in Seq(Incidents), NEW done PROVE Passed(s, done, 0)
<1>1. ASSUME NEW k \in 1..Len(s) PROVE ~(End(s, k) <= 0)
  <2>1. Len(s) \in Nat /\ k \in 0..Len(s) /\ k - 1 \in 0..Len(s)
    BY LenProperties
  <2> QED
    BY <2>1, EndStep
<1> QED
  BY <1>1, BoundaryFacts DEF Passed

\* The lines from p + 1 on.
LEMMA SuffixIs ==
    ASSUME NEW s \in Seq(Incidents), NEW p \in 0..Len(s)
    PROVE  LET lines == SubSeq(s, p + 1, Len(s))
           IN  Len(lines) = Len(s) - p /\ \A j \in 1..(Len(s) - p) : lines[j] = s[p + j]
<1>1. Len(s) \in Nat /\ p \in Nat
  BY LenProperties
<1>2. p + 1 \in Int /\ Len(s) \in Int /\ \A k \in (p + 1)..Len(s) : s[k] \in Incidents
  BY <1>1, ElementOfSeq
<1>3. /\ Len(SubSeq(s, p + 1, Len(s))) = IF p + 1 <= Len(s) THEN Len(s) - (p + 1) + 1 ELSE 0
      /\ \A j \in 1..(Len(s) - (p + 1) + 1) : SubSeq(s, p + 1, Len(s))[j] = s[p + 1 + j - 1]
  BY <1>2, SubSeqProperties
<1>4. Len(s) - (p + 1) + 1 = Len(s) - p /\ \A j \in 1..(Len(s) - p) : p + 1 + j - 1 = p + j
  BY <1>1
<1>5. Len(SubSeq(s, p + 1, Len(s))) = Len(s) - p
  <2>1. CASE p + 1 <= Len(s)
    BY <1>3, <1>4, <2>1
  <2>2. CASE ~(p + 1 <= Len(s))
    <3>1. Len(s) - p = 0
      BY <1>1, <2>2
    <3> QED
      BY <1>3, <2>2, <3>1
  <2> QED
    BY <2>1, <2>2
<1> QED
  BY <1>3, <1>4, <1>5

\* What a tick reads, and what lies before it, is the whole log.
LEMMA BatchIsTheRest ==
    ASSUME NEW s \in Seq(Incidents), NEW done, NEW o, Passed(s, done, o)
    PROVE  LET lines == LinesFrom(s, o)
           IN  Batched(s, done, [k \in 1..Len(lines) |-> Incident(lines[k])], Bytes(s))
<1> DEFINE lines == LinesFrom(s, o)
           work == [k \in 1..Len(lines) |-> Incident(lines[k])]
<1>1. o \in Nat /\ IsBoundary(s, o) /\ Len(s) \in Nat
  BY BoundaryFacts, LenProperties DEF Passed
<1>2. PICK m \in 0..Len(s) : o = End(s, m)
  BY <1>1 DEF IsBoundary
<1>3. PICK p \in 0..Len(s) : /\ lines = SubSeq(s, p + 1, Len(s))
                             /\ \A k \in 1..Len(s) : k > p <=> End(s, k - 1) >= o
  BY <1>1, LinesFromIs
<1>4. Len(lines) = Len(s) - p /\ \A j \in 1..(Len(s) - p) : lines[j] = s[p + j]
  BY <1>3, SuffixIs
<1> HIDE DEF lines
<1>5. Len(work) = Len(s) - p /\ \A j \in 1..(Len(s) - p) : work[j] = Incident(s[p + j])
  BY <1>1, <1>4
<1> HIDE DEF work
<1>6. ASSUME NEW k \in 1..Len(s)
      PROVE  s[k] \in done \/ \E j \in 1..Len(work) : work[j] = Incident(s[k])
  <2>1. CASE k > p
    <3>1. k - p \in 1..(Len(s) - p) /\ p + (k - p) = k
      BY <1>1, <2>1
    <3> QED
      BY <1>5, <3>1
  <2>2. CASE ~(k > p)
    <3>1. k - 1 \in 0..Len(s) /\ k \in 0..Len(s)
      BY <1>1
    <3>2. End(s, k - 1) < o /\ End(s, k - 1) \in Nat /\ End(s, k) \in Nat
      BY <1>1, <1>3, <2>2, <3>1, EndStep
    <3>3. k - 1 < m
      <4>1. CASE k - 1 = m
        BY <1>2, <3>2, <4>1
      <4>2. CASE m < k - 1
        <5>1. End(s, m) < End(s, k - 1)
          BY <3>1, <4>2, EndsGrow
        <5> QED
          BY <1>1, <1>2, <3>2, <5>1
      <4> QED
        BY <1>1, <3>1, <4>1, <4>2
    <3>4. End(s, k) <= o
      <4>1. CASE k = m
        BY <1>2, <3>2, <4>1
      <4>2. CASE k < m
        <5>1. End(s, k) < End(s, m)
          BY <3>1, <4>2, EndsGrow
        <5> QED
          BY <1>1, <1>2, <3>2, <5>1
      <4> QED
        BY <3>1, <3>3, <4>1, <4>2
    <3> QED
      BY <3>4 DEF Passed
  <2> QED
    BY <2>1, <2>2
<1>7. Batched(s, done, work, Bytes(s))
  BY <1>6, BoundaryFacts DEF Batched
<1> QED
  BY <1>7 DEF work, lines

\* The head of a batch gets its record.
LEMMA BatchedDone ==
    ASSUME OrchestratorTypeOK, NEW t \in Ticks, tick[t].work # <<>>, NEW o, Recorded(Item(t)),
           Batched(log, recorded, tick[t].work, o)
    PROVE  recorded \subseteq recorded' /\ Batched(log, recorded', Tail(tick[t].work), o)
<1> DEFINE work == tick[t].work
<1>1. /\ Len(work) \in Nat /\ 1 \in 1..Len(work) /\ work[1] = Item(t)
      /\ Len(Tail(work)) = Len(work) - 1
      /\ \A j \in 1..Len(Tail(work)) : j + 1 \in 1..Len(work) /\ Tail(work)[j] = work[j + 1]
  BY Rest
<1>2. recorded \subseteq recorded'
  BY DEF Recorded
<1> HIDE DEF work
<1>3. ASSUME NEW k \in 1..Len(log), End(log, k) <= o
      PROVE  \/ log[k] \in recorded'
             \/ \E j \in 1..Len(Tail(work)) : Tail(work)[j] = Incident(log[k])
  <2>1. CASE log[k] \in recorded
    BY <1>2, <2>1
  <2>2. CASE \E j \in 1..Len(work) : work[j] = Incident(log[k])
    <3>1. PICK j \in 1..Len(work) : work[j] = Incident(log[k])
      BY <2>2
    <3>2. CASE j = 1
      <4>1. Item(t) = Incident(log[k])
        BY <1>1, <3>1, <3>2
      <4> QED
        BY <4>1 DEF Recorded, Incident
    <3>3. CASE j # 1
      <4>1. j - 1 \in 1..Len(Tail(work)) /\ (j - 1) + 1 = j
        BY <1>1, <3>3
      <4>2. Tail(work)[j - 1] = Incident(log[k])
        BY <1>1, <3>1, <4>1
      <4> QED
        BY <4>1, <4>2
    <3> QED
      BY <3>2, <3>3
  <2>3. log[k] \in recorded \/ \E j \in 1..Len(work) : work[j] = Incident(log[k])
    BY <1>3 DEF Batched, work
  <2> QED
    BY <2>1, <2>2, <2>3
<1> QED
  BY <1>2, <1>3 DEF Batched, work

\* No offset has passed anything in an initial state.
LEMMA PassInit == OrchestratorInit => PassInv
<1> SUFFICES ASSUME OrchestratorInit PROVE PassInv
  OBVIOUS
<1>1. log \in Seq(Incidents)
  BY StartTyped DEF OrchestratorInit
<1>2. Passed(log, recorded, state.offset) /\ Passed(log, recorded, disk.offset)
  BY <1>1, NothingBeforeStart DEF OrchestratorInit, Blank
<1>3. \A t \in Ticks : TickPasses(log, recorded, tick[t])
  BY DEF OrchestratorInit, Resting, TickPasses
<1> QED
  BY <1>2, <1>3 DEF PassInv

\* No step lets an offset pass an incident without a record.
LEMMA PassStep ==
    OrchestratorTypeOK /\ PassInv /\ [OrchestratorNext]_orchestratorVars => PassInv'
<1> SUFFICES ASSUME OrchestratorTypeOK, PassInv, [OrchestratorNext]_orchestratorVars, ~Rewritten' PROVE PassInv'
  BY DEF PassInv
<1> DEFINE Fine(r) == TickPasses(log, recorded, r)
<1>0. /\ log \in Seq(Incidents) /\ tick \in [Ticks -> TickStates]
      /\ {state, disk} \subseteq States /\ recorded \subseteq Incidents
  BY DEF OrchestratorTypeOK, TickStates
<1>1. ~Rewritten
  BY DEF Rewritten, OrchestratorNext, TickStep, EmitIncident, MakeTask, TickStarts, ReadIncidentBatch, ListTasks,
         AdvanceOffset, SaveOpens, SaveWrites, Skip, CallAccepted, EnterLedger, CallFails, TickFails,
         RewriteReads, RewriteReplaces, Crash, Fault, history, orchestratorVars, OrchestratorTypeOK
<1>2. /\ Passed(log, recorded, state.offset) /\ Passed(log, recorded, disk.offset)
      /\ \A t \in Ticks : TickPasses(log, recorded, tick[t])
  BY <1>1 DEF PassInv
<1>3. ASSUME UNCHANGED log, recorded \subseteq recorded',
             Passed(log, recorded, state'.offset), Passed(log, recorded, disk'.offset),
             \A t \in Ticks : TickPasses(log, recorded', tick'[t])
      PROVE  PassInv'
  <2>1. Passed(log, recorded', state'.offset) /\ Passed(log, recorded', disk'.offset)
    BY <1>0, <1>3, PassedStays
  <2> QED
    BY <1>3, <2>1 DEF PassInv
\* A step of one tick that leaves the log and the offsets alone.
<1>4. ASSUME UNCHANGED <<log, state, disk>>, recorded \subseteq recorded', NEW t \in Ticks,
             \A u \in Ticks : u # t => tick'[u] = tick[u], TickPasses(log, recorded', tick'[t])
      PROVE  PassInv'
  <2>1. \A u \in Ticks : TickPasses(log, recorded', tick'[u])
    BY <1>0, <1>2, <1>4, TickStaysPassed
  <2> QED
    BY <1>2, <1>3, <1>4, <2>1
<1>5. ASSUME UNCHANGED <<log, state, disk, tick, recorded>> PROVE PassInv'
  BY <1>2, <1>3, <1>5
<1>6. ASSUME NEW i \in Incidents, EmitIncident(i) PROVE PassInv'
  <2>1. LogBecomes(Append(log, i)) /\ recorded' = recorded
    BY <1>6 DEF EmitIncident, history
  <2>2. log' = Append(log, i) /\ state'.offset = state.offset /\ disk'.offset = disk.offset
    BY <1>0, <2>1 DEF LogBecomes, States
  <2>3. Passed(log', recorded', state'.offset) /\ Passed(log', recorded', disk'.offset)
    BY <1>0, <1>2, <2>1, <2>2, PassedStays
  <2>4. ASSUME NEW t \in Ticks PROVE TickPasses(log', recorded', tick'[t])
    <3>1. tick[t] \in TickStates /\ tick'[t] = [tick[t] EXCEPT !.next.seen = FALSE]
      BY <1>0, <2>1 DEF LogBecomes
    <3>2. tick'[t].stage = tick[t].stage /\ tick'[t].work = tick[t].work
          /\ tick'[t].next.offset = tick[t].next.offset
      BY <3>1 DEF TickStates, States
    <3>3. TickPasses(log', recorded', tick[t])
      BY <1>0, <1>2, <2>1, <2>2, TickStaysPassed
    <3> QED
      BY <3>2, <3>3 DEF TickPasses
  <2> QED
    BY <2>3, <2>4 DEF PassInv
<1>7. ASSUME NEW i \in Incidents, MakeTask(i) PROVE PassInv'
  BY <1>5, <1>7 DEF MakeTask, logVars, history
<1>8. ASSUME NEW t \in Ticks, TickStarts(t) PROVE PassInv'
  <2>1. PICK stage \in {"saving", "reading"} :
           tick' = [tick EXCEPT ![t] = [tick[t] EXCEPT !.stage = stage]]
    BY <1>8 DEF TickStarts
  <2>2. tick'[t].stage = stage /\ \A u \in Ticks : u # t => tick'[u] = tick[u]
    BY <1>0, <2>1 DEF TickStates
  <2>3. TickPasses(log, recorded', tick'[t])
    BY <2>1, <2>2 DEF TickPasses
  <2> QED
    BY <1>4, <1>8, <2>2, <2>3 DEF TickStarts, logVars
<1>9. ASSUME NEW t \in Ticks, ReadIncidentBatch(t) PROVE PassInv'
  <2> DEFINE lines == LinesFrom(log, state.offset)
             work == [k \in 1..Len(lines) |-> Incident(lines[k])]
  <2>1. ~(Bytes(log) < state.offset)
    BY <1>0, <1>2, BoundaryFacts DEF Passed
  <2>2. /\ tick'[t].stage = "incidents" /\ tick'[t].work = work /\ tick'[t].next.offset = Bytes(log)
        /\ \A u \in Ticks : u # t => tick'[u] = tick[u]
    BY <1>0, <1>9, <2>1 DEF ReadIncidentBatch
  <2>3. Batched(log, recorded, work, Bytes(log))
    BY <1>0, <1>2, BatchIsTheRest
  <2> HIDE DEF work
  <2>4. TickPasses(log, recorded, tick'[t])
    BY <2>2, <2>3 DEF TickPasses
  <2> QED
    BY <1>4, <1>9, <2>2, <2>4 DEF ReadIncidentBatch, logVars, history
<1>10. ASSUME NEW t \in Ticks, ListTasks(t) PROVE PassInv'
  <2>1. PICK order : tick' = [tick EXCEPT ![t] = [tick[t] EXCEPT !.stage = "tasks", !.work = order]]
    BY <1>10 DEF ListTasks
  <2>2. /\ tick'[t].stage = "tasks" /\ tick'[t].next = tick[t].next
        /\ \A u \in Ticks : u # t => tick'[u] = tick[u]
    BY <1>0, <2>1 DEF TickStates
  <2>3. Batched(log, recorded, <<>>, tick[t].next.offset)
    BY <1>2, <1>10 DEF ListTasks, TickPasses
  <2>4. Passed(log, recorded, tick[t].next.offset)
    BY <2>3, EmptySeq DEF Batched, Passed
  <2>5. TickPasses(log, recorded, tick'[t])
    BY <2>2, <2>4 DEF TickPasses
  <2> QED
    BY <1>4, <1>10, <2>2, <2>5 DEF ListTasks, logVars, history
<1>11. ASSUME NEW t \in Ticks, AdvanceOffset(t) PROVE PassInv'
  <2>1. Passed(log, recorded, tick[t].next.offset)
    BY <1>2, <1>11 DEF AdvanceOffset, TickPasses
  <2>2. state'.offset = tick[t].next.offset
    BY <1>11 DEF AdvanceOffset, NextOffset
  <2>3. \A u \in Ticks : TickPasses(log, recorded, tick'[u])
    <3>1. tick'[t].stage = "saving" /\ \A u \in Ticks : u # t => tick'[u] = tick[u]
      BY <1>0, <1>11 DEF AdvanceOffset, Resting
    <3> QED
      BY <1>2, <3>1 DEF TickPasses
  <2> QED
    BY <1>2, <1>3, <1>11, <2>1, <2>2, <2>3 DEF AdvanceOffset, logVars, history
<1>12. ASSUME NEW t \in Ticks, SaveOpens(t) PROVE PassInv'
  <2>1. disk'.offset = 0
    BY <1>12 DEF SaveOpens, Blank
  <2>2. /\ tick'[t].stage = "writing" /\ tick'[t].next = state
        /\ \A u \in Ticks : u # t => tick'[u] = tick[u]
    BY <1>0, <1>12 DEF SaveOpens, Resting
  <2>3. \A u \in Ticks : TickPasses(log, recorded, tick'[u])
    BY <1>2, <2>2 DEF TickPasses
  <2>4. Passed(log, recorded, disk'.offset)
    BY <1>0, <2>1, NothingBeforeStart
  <2> QED
    BY <1>2, <1>3, <1>12, <2>3, <2>4 DEF SaveOpens, logVars, history
<1>13. ASSUME NEW t \in Ticks, SaveWrites(t) PROVE PassInv'
  <2>1. Passed(log, recorded, disk'.offset)
    BY <1>2, <1>13 DEF SaveWrites, TickPasses
  <2>2. tick'[t].stage = "idle" /\ \A u \in Ticks : u # t => tick'[u] = tick[u]
    BY <1>0, <1>13 DEF SaveWrites, Resting
  <2>3. \A u \in Ticks : TickPasses(log, recorded, tick'[u])
    BY <1>2, <2>2 DEF TickPasses
  <2> QED
    BY <1>2, <1>3, <1>13, <2>1, <2>3 DEF SaveWrites, logVars, history
<1>14. ASSUME NEW t \in Ticks, Skip(t) \/ EnterLedger(t) \/ CallFails(t) PROVE PassInv'
  <2>1. /\ Done(t) /\ Recorded(Item(t)) /\ tick[t].work # <<>>
        /\ tick[t].stage \in {"incidents", "tasks"} /\ UNCHANGED <<log, state, disk>>
    BY <1>14 DEF Skip, EnterLedger, CallFails, Working, logVars
  <2>2. /\ tick'[t].stage = tick[t].stage /\ tick'[t].next = tick[t].next
        /\ tick'[t].work = Tail(tick[t].work) /\ \A u \in Ticks : u # t => tick'[u] = tick[u]
    <3>1. tick' = [tick EXCEPT ![t] = [tick[t] EXCEPT !.work = Tail(tick[t].work), !.step = "budget"]]
      BY <2>1 DEF Done
    <3> QED
      BY <1>0, <3>1 DEF TickStates
  <2>3. recorded \subseteq recorded'
    BY <2>1 DEF Recorded
  <2>4. TickPasses(log, recorded', tick'[t])
    <3>1. CASE tick[t].stage = "incidents"
      BY <1>2, <2>1, <2>2, <3>1, BatchedDone DEF TickPasses
    <3>2. CASE tick[t].stage = "tasks"
      BY <1>0, <1>2, <2>2, <2>3, <3>2, PassedStays DEF TickPasses
    <3> QED
      BY <2>1, <3>1, <3>2
  <2> QED
    BY <1>4, <2>1, <2>2, <2>3, <2>4
<1>15. ASSUME NEW t \in Ticks, CallAccepted(t) PROVE PassInv'
  <2>1. tick' = [tick EXCEPT ![t] = [tick[t] EXCEPT !.step = "enter"]]
    BY <1>15 DEF CallAccepted
  <2>2. /\ tick'[t].stage = tick[t].stage /\ tick'[t].next = tick[t].next
        /\ tick'[t].work = tick[t].work /\ \A u \in Ticks : u # t => tick'[u] = tick[u]
    BY <1>0, <2>1 DEF TickStates
  <2>3. TickPasses(log, recorded, tick'[t])
    BY <1>2, <2>2 DEF TickPasses
  <2> QED
    BY <1>4, <1>15, <2>2, <2>3 DEF CallAccepted, logVars
<1>16. ASSUME NEW t \in Ticks, TickFails(t) PROVE PassInv'
  <2>1. tick'[t].stage = "idle" /\ \A u \in Ticks : u # t => tick'[u] = tick[u]
    BY <1>0, <1>16 DEF TickFails, Resting
  <2>2. TickPasses(log, recorded, tick'[t])
    BY <2>1 DEF TickPasses
  <2> QED
    BY <1>4, <1>16, <2>1, <2>2 DEF TickFails, logVars
<1>17. CASE RewriteReads
  BY <1>5, <1>17 DEF RewriteReads
<1>18. CASE RewriteReplaces
  <2>1. ~(Len(copy.lines) < copy.at)
    BY <1>18 DEF RewriteReplaces, Rewritten, OrchestratorTypeOK
  <2> QED
    BY <1>5, <1>18, <2>1 DEF RewriteReplaces
<1>19. CASE Crash
  <2>1. \A u \in Ticks : tick'[u].stage = "idle"
    BY <1>19 DEF Crash, Resting
  <2>2. \A u \in Ticks : TickPasses(log, recorded, tick'[u])
    BY <2>1 DEF TickPasses
  <2> QED
    BY <1>2, <1>3, <1>19, <2>2 DEF Crash
<1>20. CASE UNCHANGED orchestratorVars
  BY <1>5, <1>20 DEF orchestratorVars
<1> QED
  BY <1>6, <1>7, <1>8, <1>9, <1>10, <1>11, <1>12, <1>13, <1>14, <1>15, <1>16, <1>17, <1>18, <1>19,
     <1>20 DEF OrchestratorNext, TickStep

--------------------------------------------------------------------------------
(* An item is handed out once *)

\* Nothing is handed out in an initial state.
LEMMA OnceInit == OrchestratorInit => OnceInv
<1> SUFFICES ASSUME OrchestratorInit PROVE OnceInv
  OBVIOUS
<1>1. Len(log) = 0 /\ 1..Len(log) = {}
  BY EmptySeq DEF OrchestratorInit
<1>2. NamedOnce(log) /\ copy = NoCopy /\ \A o : Fresh(log, handed, o)
  BY <1>1 DEF OrchestratorInit, NamedOnce, Fresh
<1>3. \A t \in Ticks : tick[t].stage = "idle"
  BY DEF OrchestratorInit, Resting
<1>4. \A t \in Ticks : ~Active(t) /\ TickOnce(log, handed, task, tick[t])
  BY <1>3 DEF Active, TickOnce
<1>5. \A w \in Items : handed[w] = 0
  BY DEF OrchestratorInit
<1> QED
  BY <1>2, <1>4, <1>5, ItemTypes DEF OnceInv

\* What is appended was not reported, hence not handed out.
LEMMA FreshStays ==
    ASSUME NEW s \in Seq(Incidents), NEW i \in Incidents, NEW given, given[Incident(i)] = 0,
           NEW o, Fresh(s, given, o)
    PROVE  Fresh(Append(s, i), given, o)
<1>1. /\ Len(s) \in Nat /\ Len(Append(s, i)) = Len(s) + 1 /\ Append(s, i)[Len(s) + 1] = i
      /\ \A k \in 1..Len(s) : Append(s, i)[k] = s[k]
  BY LenProperties, AppendProperties
<1>2. ASSUME NEW k \in 1..Len(Append(s, i)), End(Append(s, i), k) > o
      PROVE  given[Incident(Append(s, i)[k])] = 0
  <2>1. CASE k = Len(s) + 1
    BY <1>1, <2>1
  <2>2. CASE k # Len(s) + 1
    <3>1. k \in 1..Len(s) /\ k \in 0..Len(s)
      BY <1>1, <2>2
    <3>2. End(s, k) > o
      BY <1>2, <3>1, EndsOfAppend
    <3> QED
      BY <1>1, <3>1, <3>2 DEF Fresh
  <2> QED
    BY <2>1, <2>2
<1> QED
  BY <1>2 DEF Fresh

\* A new incident is named once.
LEMMA NamedStays ==
    ASSUME NEW s \in Seq(Incidents), NEW i \in Incidents \ reported, NamedOnce(s),
           reported' = reported \cup {i}
    PROVE  NamedOnce(Append(s, i))'
<1> DEFINE t == Append(s, i)
<1>1. /\ Len(s) \in Nat /\ Len(t) = Len(s) + 1 /\ t[Len(s) + 1] = i
      /\ \A k \in 1..Len(s) : t[k] = s[k]
  BY LenProperties, AppendProperties
<1> HIDE DEF t
<1>2. \A k \in 1..Len(t) : t[k] \in reported'
  BY <1>1 DEF NamedOnce
<1>3. \A k, m \in 1..Len(t) : t[k] = t[m] => k = m
  BY <1>1 DEF NamedOnce
<1> QED
  BY <1>2, <1>3 DEF NamedOnce, t

\* A tick does not lose its place when the log grows or a task is made.
LEMMA TickStaysOnce ==
    ASSUME NEW s \in Seq(Incidents), NEW i \in Incidents, NEW given, given[Incident(i)] = 0,
           NEW open, NEW more, \A w \in Incidents : open[w] = "assigned" => more[w] = "assigned",
           NEW r \in TickStates, TickOnce(s, given, open, r)
    PROVE  TickOnce(s, given, more, r) /\ TickOnce(Append(s, i), given, more, r)
<1>1. \A j \in 1..Len(r.work) : r.work[j].of \in Incidents
  <2>1. r.work \in Seq(Items)
    BY DEF TickStates
  <2> QED
    BY <2>1, ElementOfSeq, ItemTypes
<1>2. OnTasks(open, r) => OnTasks(more, r)
  BY <1>1 DEF OnTasks
<1>3. OnLines(s, r) => OnLines(Append(s, i), r)
  <2>1. \A k \in 1..Len(s) : /\ k \in 1..Len(Append(s, i)) /\ Append(s, i)[k] = s[k]
                             /\ End(Append(s, i), k) = End(s, k)
    <3>1. Len(s) \in Nat /\ Len(Append(s, i)) = Len(s) + 1 /\ \A k \in 1..Len(s) : Append(s, i)[k] = s[k]
      BY LenProperties, AppendProperties
    <3>2. \A k \in 1..Len(s) : k \in 0..Len(s) /\ k \in 1..(Len(s) + 1)
      BY <3>1
    <3> QED
      BY <3>1, <3>2, EndsOfAppend
  <2> QED
    BY <2>1 DEF OnLines
<1>4. Fresh(s, given, r.next.offset) => Fresh(Append(s, i), given, r.next.offset)
  BY FreshStays
<1> QED
  BY <1>2, <1>3, <1>4 DEF TickOnce

\* A batch that was read a moment ago.
LEMMA BatchOnce ==
    ASSUME NEW s \in Seq(Incidents), NamedOnce(s), NEW o \in Nat, NEW given, Fresh(s, given, o),
           NEW r, r.stage = "incidents", r.step = "budget", r.next.offset = Bytes(s), NEW open,
           LET lines == LinesFrom(s, o)
           IN  r.work = [k \in 1..Len(lines) |-> Incident(lines[k])]
    PROVE  TickOnce(s, given, open, r)
<1>1. PICK p \in 0..Len(s) : /\ LinesFrom(s, o) = SubSeq(s, p + 1, Len(s))
                             /\ \A k \in 1..Len(s) : k > p <=> End(s, k - 1) >= o
  BY LinesFromIs
<1>2. Len(s) \in Nat /\ Len(s) - p \in Nat
  BY LenProperties
<1> DEFINE lines == LinesFrom(s, o)
<1>3. Len(lines) = Len(s) - p /\ \A j \in 1..(Len(s) - p) : lines[j] = s[p + j]
  BY <1>1, SuffixIs
<1> HIDE DEF lines
<1>4. /\ DOMAIN r.work = 1..(Len(s) - p) /\ Len(r.work) = Len(s) - p
      /\ \A j \in 1..(Len(s) - p) : r.work[j] = Incident(s[p + j])
  <2>1. r.work = [k \in 1..Len(lines) |-> Incident(lines[k])]
    BY DEF lines
  <2>2. r.work = [k \in 1..(Len(s) - p) |-> Incident(lines[k])]
    BY <1>3, <2>1
  <2> QED
    BY <1>2, <1>3, <2>2
<1>5. \A j \in 1..(Len(s) - p) : p + j \in 1..Len(s) /\ p + j > p
  BY <1>2
<1>6. \A k \in 1..Len(s) : End(s, k) \in Nat /\ ~(End(s, k) > Bytes(s)) /\ End(s, k) <= Bytes(s)
  <2> SUFFICES ASSUME NEW k \in 1..Len(s)
               PROVE  End(s, k) \in Nat /\ ~(End(s, k) > Bytes(s)) /\ End(s, k) <= Bytes(s)
    OBVIOUS
  <2>1. k \in 0..Len(s)
    BY <1>2
  <2>2. End(s, k) \in Nat /\ IsBoundary(s, End(s, k)) /\ Bytes(s) \in Nat
    BY <2>1, EndStep, BytesNat DEF IsBoundary
  <2>3. ~(Bytes(s) < End(s, k))
    BY <2>2, BoundaryFacts
  <2> QED
    BY <2>2, <2>3
<1>7. Distinct(r)
  <2>1. ASSUME NEW j \in 1..(Len(s) - p), NEW l \in 1..(Len(s) - p), r.work[j] = r.work[l] PROVE j = l
    <3>0. Incident(s[p + j]) = Incident(s[p + l])
      BY <1>4, <2>1
    <3>1. s[p + j] = s[p + l]
      BY <3>0 DEF Incident
    <3>2. p + j = p + l
      BY <1>5, <3>1 DEF NamedOnce
    <3> QED
      BY <1>2, <3>2
  <2> QED
    BY <1>4, <2>1 DEF Distinct
<1>8. Untouched(given, r)
  <2>1. ASSUME NEW j \in 1..(Len(s) - p) PROVE given[r.work[j]] = 0
    <3>1. End(s, p + j - 1) >= o /\ End(s, p + j - 1) < End(s, p + j)
      BY <1>1, <1>5, EndStep
    <3>2. p + j - 1 \in 0..Len(s) /\ p + j \in 0..Len(s)
      BY <1>2, <1>5
    <3>3. End(s, p + j - 1) \in Nat /\ End(s, p + j) \in Nat
      BY <3>2, EndStep
    <3>4. End(s, p + j) > o
      BY <3>1, <3>3
    <3> QED
      BY <1>4, <1>5, <3>4 DEF Fresh
  <2> QED
    BY <1>4, <2>1 DEF Untouched
<1>9. Fresh(s, given, r.next.offset)
  BY <1>6 DEF Fresh
<1>10. OnLines(s, r)
  <2>1. ASSUME NEW j \in 1..(Len(s) - p)
        PROVE  \E k \in 1..Len(s) : r.work[j] = Incident(s[k]) /\ End(s, k) <= r.next.offset
    BY <1>4, <1>5, <1>6
  <2> QED
    BY <1>4, <2>1 DEF OnLines
<1> QED
  BY <1>7, <1>8, <1>9, <1>10 DEF TickOnce

\* The head of the work is done: what waits behind it still waits.
LEMMA TailOnce ==
    ASSUME OrchestratorTypeOK, NEW t \in Ticks, tick[t].work # <<>>,
           TickOnce(log, handed, task, tick[t])
    PROVE  TickOnce(log, handed, task, [tick[t] EXCEPT !.work = Tail(tick[t].work), !.step = "budget"])
<1> DEFINE r == tick[t]
           q == [tick[t] EXCEPT !.work = Tail(tick[t].work), !.step = "budget"]
<1>1. r \in TickStates
  BY DEF OrchestratorTypeOK, TickStates
<1>2. q.work = Tail(r.work) /\ q.step = "budget" /\ q.stage = r.stage /\ q.next = r.next
  BY <1>1 DEF TickStates
<1>3. /\ Len(r.work) \in Nat /\ Len(q.work) = Len(r.work) - 1
      /\ \A j \in 1..Len(q.work) : j + 1 \in 1..Len(r.work) /\ q.work[j] = r.work[j + 1]
  BY <1>2, Rest
<1> HIDE DEF q, r
<1>4. \A j \in 1..Len(q.work) : Waits(r, j + 1)
  BY <1>3 DEF Waits
<1>5. Distinct(r) => Distinct(q)
  <2> SUFFICES ASSUME Distinct(r), NEW j \in 1..Len(q.work), NEW l \in 1..Len(q.work), q.work[j] = q.work[l]
               PROVE  j = l
    BY <1>2 DEF Distinct
  <2>1. j + 1 = l + 1
    BY <1>3 DEF Distinct
  <2> QED
    BY <1>3, <2>1
<1>6. Untouched(handed, r) => Untouched(handed, q)
  BY <1>3, <1>4 DEF Untouched
<1>7. OnLines(log, r) => OnLines(log, q)
  BY <1>2, <1>3 DEF OnLines
<1>8. OnTasks(task, r) => OnTasks(task, q)
  BY <1>3, <1>4 DEF OnTasks
<1>9. TickOnce(log, handed, task, r)
  BY DEF r
<1>10. TickOnce(log, handed, task, q)
  BY <1>2, <1>5, <1>6, <1>7, <1>8, <1>9 DEF TickOnce
<1> QED
  BY <1>10 DEF q

\* A run was started for the head of the work.
LEMMA HandedOnce ==
    ASSUME OrchestratorTypeOK, NEW t \in Ticks, CallAccepted(t), NamedOnce(log),
           TickOnce(log, handed, task, tick[t])
    PROVE  /\ Item(t) \in Items /\ handed[Item(t)] = 0
           /\ handed' = [handed EXCEPT ![Item(t)] = 1]
           /\ Item(t).kind = "incident" => Item(t).of \in reported
           /\ TickOnce(log, handed', task', tick'[t])
<1> DEFINE r == tick[t]
           w == Item(t)
<1>1. r \in TickStates /\ tick'[t] = [r EXCEPT !.step = "enter"]
  BY DEF OrchestratorTypeOK, TickStates, CallAccepted
<1>2. /\ tick'[t].work = r.work /\ tick'[t].stage = r.stage /\ tick'[t].next = r.next
      /\ tick'[t].step = "enter"
  BY <1>1 DEF TickStates
<1>3. /\ r.stage \in {"incidents", "tasks"} /\ r.work # <<>> /\ r.step = "budget"
      /\ Handed(w) /\ task' = TaskTaken(w)
  BY DEF CallAccepted, Working
<1>4. Len(r.work) \in Nat /\ w \in Items /\ 1 \in 1..Len(r.work) /\ r.work[1] = w
  BY <1>3, Rest
<1>5. /\ Distinct(r) /\ Untouched(handed, r) /\ Fresh(log, handed, r.next.offset)
      /\ r.stage = "incidents" => OnLines(log, r)
      /\ r.stage = "tasks" => OnTasks(task, r)
  BY <1>3 DEF TickOnce
<1>6. \A j \in 1..Len(r.work) : Waits(r, j) /\ r.work[j] \in Items
  <2>1. r.work \in Seq(Items)
    BY <1>1 DEF TickStates
  <2> QED
    BY <1>3, <2>1, ElementOfSeq DEF Waits
<1>7. handed[w] = 0
  BY <1>4, <1>5, <1>6 DEF Untouched
<1>8. handed' = [handed EXCEPT ![w] = 1] /\ handed \in [Items -> 0..2]
  BY <1>3, <1>7 DEF Handed, OrchestratorTypeOK
<1> HIDE DEF r, w
<1>9. \A j \in 1..Len(r.work) : j # 1 => r.work[j] # w
  BY <1>4, <1>5 DEF Distinct
<1>10. Distinct(tick'[t])
  BY <1>2, <1>3, <1>5 DEF Distinct
<1>11. Untouched(handed', tick'[t])
  <2>1. ASSUME NEW j \in 1..Len(r.work), j # 1 PROVE handed'[r.work[j]] = 0
    BY <1>5, <1>6, <1>8, <1>9, <2>1 DEF Untouched
  <2> QED
    BY <1>2, <2>1 DEF Untouched, Waits
<1>12. r.stage = "incidents" => \E k \in 1..Len(log) : w = Incident(log[k]) /\ End(log, k) <= r.next.offset
  BY <1>4, <1>5 DEF OnLines
<1>13. w.kind = "incident" => w.of \in reported /\ r.stage = "incidents"
  <2>1. r.stage = "tasks" => w.kind = "task"
    BY <1>4, <1>5 DEF OnTasks
  <2>2. r.stage = "incidents" => w.of \in reported
    BY <1>12 DEF Incident, NamedOnce
  <2>3. r.stage \in {"incidents", "tasks"}
    BY <1>3 DEF r
  <2> QED
    BY <2>1, <2>2, <2>3
<1>14. Fresh(log, handed', r.next.offset)
  <2>1. ASSUME NEW k \in 1..Len(log), End(log, k) > r.next.offset
        PROVE  handed'[Incident(log[k])] = 0
    <3>1. log[k] \in Incidents /\ End(log, k) \in Nat /\ r.next.offset \in Nat
      <4>1. log \in Seq(Incidents) /\ r.next.offset \in Nat
        BY <1>1 DEF OrchestratorTypeOK, TickStates, States
      <4>2. k \in 0..Len(log)
        BY <4>1, LenProperties
      <4> QED
        BY <4>1, <4>2, ElementOfSeq, EndStep
    <3>2. Incident(log[k]) # w
      <4> SUFFICES ASSUME Incident(log[k]) = w PROVE FALSE
        OBVIOUS
      <4>1. w.kind = "incident" /\ w.of = log[k]
        BY DEF Incident
      <4>2. PICK m \in 1..Len(log) : w = Incident(log[m]) /\ End(log, m) <= r.next.offset
        BY <1>12, <1>13, <4>1
      <4>3. log[m] = log[k]
        BY <4>1, <4>2 DEF Incident
      <4>4. m = k
        BY <4>3 DEF NamedOnce
      <4> QED
        BY <2>1, <3>1, <4>2, <4>4
    <3>3. handed[Incident(log[k])] = 0
      BY <1>5, <2>1 DEF Fresh
    <3>4. Incident(log[k]) \in Items
      BY <3>1, ItemTypes
    <3> QED
      BY <1>8, <3>2, <3>3, <3>4
  <2> QED
    BY <2>1 DEF Fresh
<1>15. r.stage = "incidents" => OnLines(log, tick'[t])
  BY <1>2, <1>5 DEF OnLines
<1>16. r.stage = "tasks" => OnTasks(task', tick'[t])
  <2> SUFFICES ASSUME r.stage = "tasks" PROVE OnTasks(task', tick'[t])
    OBVIOUS
  <2>1. \A j \in 1..Len(r.work) : r.work[j].kind = "task" /\ task[r.work[j].of] = "assigned"
    BY <1>5, <1>6 DEF OnTasks
  <2>2. task' = [task EXCEPT ![w.of] = "in_progress"] /\ task \in [Incidents -> {"none", "wanted", "assigned", "in_progress"}]
    BY <1>3, <1>4, <2>1 DEF TaskTaken, OrchestratorTypeOK, w
  <2>3. ASSUME NEW j \in 1..Len(r.work), j # 1 PROVE task'[r.work[j].of] = "assigned"
    <3>1. r.work[j] = Task(r.work[j].of) /\ w = Task(w.of) /\ r.work[j].of \in Incidents
      BY <1>4, <1>6, <2>1, ItemTypes
    <3>2. r.work[j].of # w.of
      BY <1>9, <2>3, <3>1
    <3> QED
      BY <2>1, <2>2, <3>1, <3>2
  <2> QED
    BY <1>2, <2>1, <2>3 DEF OnTasks, Waits
<1>17. TickOnce(log, handed', task', tick'[t])
  BY <1>2, <1>10, <1>11, <1>14, <1>15, <1>16 DEF TickOnce
<1> QED
  BY <1>4, <1>7, <1>8, <1>13, <1>17 DEF w

\* No undisturbed step hands out anything a second time.
LEMMA OnceStep ==
    OrchestratorTypeOK /\ FiniteOK /\ PassInv /\ OnceInv /\ [OrchestratorNext]_orchestratorVars => OnceInv'
<1> SUFFICES ASSUME OrchestratorTypeOK, FiniteOK, PassInv, OnceInv, [OrchestratorNext]_orchestratorVars, ~Disturbed' PROVE OnceInv'
  BY DEF OnceInv
<1>0. /\ log \in Seq(Incidents) /\ tick \in [Ticks -> TickStates]
      /\ state \in States /\ handed \in [Items -> 0..2] /\ reported \subseteq Incidents
      /\ task \in [Incidents -> {"none", "wanted", "assigned", "in_progress"}]
  BY DEF OrchestratorTypeOK, TickStates
<1>1. ~Disturbed /\ ~Fault /\ disturbed.faults = 0
  <2>1. /\ disturbed.overlap => disturbed'.overlap
        /\ disturbed.rewritten => disturbed'.rewritten
        /\ disturbed'.faults \in {disturbed.faults, disturbed.faults + 1}
    BY ZenonT(60) DEF OrchestratorNext, TickStep, EmitIncident, MakeTask, TickStarts, ReadIncidentBatch, ListTasks,
           AdvanceOffset, SaveOpens, SaveWrites, Skip, CallAccepted, EnterLedger, CallFails, TickFails,
           RewriteReads, RewriteReplaces, Crash, Fault, history, orchestratorVars, OrchestratorTypeOK
  <2>2. disturbed.faults \in Nat /\ ~(disturbed'.faults > 0) /\ ~disturbed'.overlap /\ ~disturbed'.rewritten
    BY BoundsAssumption DEF Disturbed, Rewritten, OrchestratorTypeOK
  <2>3. disturbed.faults = 0 /\ disturbed'.faults = 0
    BY <2>1, <2>2
  <2>4. ~Fault
    BY <2>3 DEF Fault, OrchestratorTypeOK
  <2> QED
    BY <2>1, <2>2, <2>3, <2>4 DEF Disturbed, Rewritten
<1>2. /\ NamedOnce(log) /\ copy = NoCopy
      /\ \A t, u \in Ticks : Active(t) /\ Active(u) => t = u
      /\ \A i \in Incidents \ reported : handed[Incident(i)] = 0
      /\ \A i \in Tasked : task[i] # "in_progress" => handed[Task(i)] = 0
      /\ (\A t \in Ticks : ~Handing(t)) => Fresh(log, handed, state.offset)
      /\ \A t \in Ticks : TickOnce(log, handed, task, tick[t])
      /\ \A w \in Items : handed[w] <= 1
  BY <1>1 DEF OnceInv
\* A tick that is not active says nothing.
<1>3. ASSUME NEW t \in Ticks, ~Active(t), NEW given, NEW open PROVE TickOnce(log, given, open, tick[t])
  BY <1>3 DEF Active, TickOnce
\* A step that hands out nothing and leaves the log alone.
<1>4. ASSUME UNCHANGED <<log, reported, copy, handed, task>>,
             \A t, u \in Ticks : Active(t)' /\ Active(u)' => t = u,
             (\A t \in Ticks : ~Handing(t)') => Fresh(log, handed, state'.offset),
             \A t \in Ticks : TickOnce(log, handed, task, tick'[t])
      PROVE  OnceInv'
  BY <1>2, <1>4 DEF OnceInv, NamedOnce
\* One tick goes to a stage in which it is not active.
<1>5. ASSUME UNCHANGED <<log, reported, copy, handed, task>>, NEW t \in Ticks,
             \A u \in Ticks : u # t => tick'[u] = tick[u],
             ~Active(t)', Handing(t) \/ UNCHANGED state,
             Handing(t) => Fresh(log, handed, state'.offset)
      PROVE  OnceInv'
  <2>1. \A u \in Ticks : Active(u)' => Active(u)
    BY <1>5 DEF Active
  <2>2. \A u \in Ticks : Handing(u) => Handing(u)' \/ u = t
    BY <1>5 DEF Handing
  <2>3. \A u \in Ticks : TickOnce(log, handed, task, tick'[u])
    BY <1>2, <1>5 DEF TickOnce, Active
  <2> QED
    BY <1>2, <1>4, <1>5, <2>1, <2>2, <2>3
\* One tick goes on handing out.
<1>6. ASSUME UNCHANGED <<log, reported, copy, handed, task>>, NEW t \in Ticks, Active(t),
             \A u \in Ticks : u # t => tick'[u] = tick[u],
             Handing(t)', TickOnce(log, handed, task, tick'[t])
      PROVE  OnceInv'
  <2>1. \A u \in Ticks : Active(u)' => Active(u)
    BY <1>6 DEF Active
  <2>2. \A u \in Ticks : TickOnce(log, handed, task, tick'[u])
    BY <1>2, <1>6
  <2> QED
    BY <1>2, <1>4, <1>6, <2>1, <2>2
<1>7. ASSUME NEW i \in Incidents, EmitIncident(i) PROVE OnceInv'
  <2>1. /\ i \notin reported /\ reported' = reported \cup {i} /\ LogBecomes(Append(log, i))
        /\ handed' = handed /\ copy' = copy
        /\ task' = IF i \in Tasked THEN [task EXCEPT ![i] = "wanted"] ELSE task
    BY <1>7 DEF EmitIncident, history
  <2>2. /\ log' = Append(log, i) /\ state'.offset = state.offset
        /\ \A t \in Ticks : /\ tick'[t].stage = tick[t].stage /\ tick'[t].work = tick[t].work
                            /\ tick'[t].step = tick[t].step /\ tick'[t].next.offset = tick[t].next.offset
    <3>1. \A t \in Ticks : tick[t] \in TickStates /\ tick'[t] = [tick[t] EXCEPT !.next.seen = FALSE]
      BY <1>0, <2>1 DEF LogBecomes
    <3> QED
      BY <1>0, <2>1, <3>1 DEF LogBecomes, TickStates, States
  <2>3. handed[Incident(i)] = 0
    BY <1>2, <2>1
  <2>4. task[i] = "none"
    BY <2>1 DEF FiniteOK
  <2>5. \A j \in Incidents : /\ task[j] = "assigned" => task'[j] = "assigned"
                             /\ task'[j] # "in_progress" => task[j] # "in_progress"
    BY <1>0, <2>1, <2>4
  <2>6. ASSUME NEW t \in Ticks PROVE TickOnce(log', handed', task', tick'[t])
    <3>1. TickOnce(log', handed', task', tick[t])
      BY <1>0, <1>2, <2>1, <2>2, <2>3, <2>5, TickStaysOnce
    <3> QED
      BY <2>2, <3>1, ZenonT(60) DEF TickOnce, Distinct, Untouched, Waits, OnLines, OnTasks
  <2>7. (\A t \in Ticks : ~Handing(t)') => Fresh(log', handed', state'.offset)
    <3>1. \A t \in Ticks : Handing(t)' <=> Handing(t)
      BY <2>2 DEF Handing
    <3> QED
      BY <1>0, <1>2, <2>1, <2>2, <2>3, <3>1, FreshStays
  <2>8. \A t, u \in Ticks : Active(t)' /\ Active(u)' => t = u
    BY <1>2, <2>2 DEF Active
  <2>9. NamedOnce(log)'
    BY <1>0, <1>2, <2>1, <2>2, NamedStays
  <2>10. \A j \in Tasked : task'[j] # "in_progress" => handed'[Task(j)] = 0
    BY <1>2, <2>1, <2>5, SubsetAssumption
  <2> QED
    BY <1>2, <2>1, <2>6, <2>7, <2>8, <2>9, <2>10 DEF OnceInv
<1>8. ASSUME NEW i \in Incidents, MakeTask(i) PROVE OnceInv'
  <2>1. /\ task[i] = "wanted" /\ task' = [task EXCEPT ![i] = "assigned"]
        /\ UNCHANGED <<log, reported, copy, state, tick, handed>>
    BY <1>8 DEF MakeTask, logVars, history
  <2>2. \A j \in Incidents : /\ task[j] = "assigned" => task'[j] = "assigned"
                             /\ task'[j] # "in_progress" => task[j] # "in_progress"
    BY <1>0, <2>1
  <2>3. ASSUME NEW t \in Ticks PROVE TickOnce(log, handed, task', tick[t])
    <3>1. \A j \in 1..Len(tick[t].work) : tick[t].work[j].of \in Incidents
      <4>1. tick[t].work \in Seq(Items)
        BY <1>0 DEF TickStates
      <4> QED
        BY <4>1, ElementOfSeq, ItemTypes
    <3>2. OnTasks(task, tick[t]) => OnTasks(task', tick[t])
      BY <2>2, <3>1 DEF OnTasks
    <3> QED
      BY <1>2, <3>2 DEF TickOnce
  <2>4. \A j \in Tasked : task'[j] # "in_progress" => handed[Task(j)] = 0
    BY <1>2, <2>2, SubsetAssumption
  <2> QED
    BY <1>2, <2>1, <2>3, <2>4 DEF OnceInv, NamedOnce, Active, Handing
<1>9. ASSUME NEW t \in Ticks, TickStarts(t) PROVE OnceInv'
  <2>1. PICK stage \in {"saving", "reading"} :
           /\ tick' = [tick EXCEPT ![t] = [tick[t] EXCEPT !.stage = stage]]
           /\ stage = "reading" => disturbed' = [disturbed EXCEPT !.overlap =
                 @ \/ \E u \in Ticks : tick[u].stage \in {"reading", "incidents", "tasks"}]
    BY <1>9 DEF TickStarts
  <2>2. tick'[t].stage = stage /\ \A u \in Ticks : u # t => tick'[u] = tick[u]
    BY <1>0, <2>1 DEF TickStates
  <2>3. UNCHANGED <<log, reported, copy, handed, task, state>> /\ tick[t].stage = "idle"
    BY <1>9 DEF TickStarts, logVars
  <2>4. CASE stage = "saving"
    BY <1>5, <2>2, <2>3, <2>4 DEF Active, Handing
  <2>5. CASE stage = "reading"
    <3>1. \A u \in Ticks : ~Active(u)
      <4>1. disturbed'.overlap = (disturbed.overlap \/ \E u \in Ticks : Active(u))
        BY <2>1, <2>5 DEF Active, OrchestratorTypeOK
      <4>2. ~disturbed'.overlap
        BY DEF Disturbed
      <4> QED
        BY <4>1, <4>2
    <3>2. \A u, v \in Ticks : Active(u)' /\ Active(v)' => u = v
      BY <2>2, <3>1 DEF Active
    <3>3. \A u \in Ticks : ~Handing(u)
      BY <3>1 DEF Active, Handing
    <3>4. \A u \in Ticks : TickOnce(log, handed, task, tick'[u])
      BY <1>2, <2>2, <2>5 DEF TickOnce
    <3> QED
      BY <1>2, <1>4, <2>3, <3>2, <3>3, <3>4
  <2> QED
    BY <2>4, <2>5
<1>10. ASSUME NEW t \in Ticks, ReadIncidentBatch(t) PROVE OnceInv'
  <2> DEFINE lines == LinesFrom(log, state.offset)
             work == [k \in 1..Len(lines) |-> Incident(lines[k])]
  <2>1. ~(Bytes(log) < state.offset) /\ state.offset \in Nat
    BY <1>0, <1>1, BoundaryFacts DEF Passed, PassInv, Disturbed
  <2>2. /\ tick'[t].stage = "incidents" /\ tick'[t].step = "budget"
        /\ tick'[t].work = work /\ tick'[t].next.offset = Bytes(log)
        /\ \A u \in Ticks : u # t => tick'[u] = tick[u]
    BY <1>0, <1>10, <2>1 DEF ReadIncidentBatch
  <2>3. Active(t) /\ ~Handing(t) /\ Handing(t)'
    BY <1>10, <2>2 DEF ReadIncidentBatch, Active, Handing
  <2>4. \A u \in Ticks : ~Handing(u)
    BY <1>2, <2>3 DEF Active, Handing
  <2>5. TickOnce(log, handed, task, tick'[t])
    BY <1>0, <1>2, <2>1, <2>2, <2>4, BatchOnce
  <2> QED
    BY <1>6, <1>10, <2>2, <2>3, <2>5 DEF ReadIncidentBatch, logVars, history
<1>11. ASSUME NEW t \in Ticks, ListTasks(t) PROVE OnceInv'
  <2>1. PICK order \in SetToSeqs(OpenTasks) :
           tick' = [tick EXCEPT ![t] = [tick[t] EXCEPT !.stage = "tasks", !.work = order]]
    BY <1>11 DEF ListTasks
  <2>2. /\ tick'[t].stage = "tasks" /\ tick'[t].next = tick[t].next /\ tick'[t].step = tick[t].step
        /\ tick'[t].work = order /\ \A u \in Ticks : u # t => tick'[u] = tick[u]
    BY <1>0, <2>1 DEF TickStates
  <2>3. tick[t].stage = "incidents" /\ tick[t].work = <<>>
    BY <1>11 DEF ListTasks
  <2>4. Distinct(tick[t]) /\ Fresh(log, handed, tick[t].next.offset)
    BY <1>2, <2>3 DEF TickOnce
  <2>5. tick'[t].step # "enter"
    BY <2>2, <2>3, <2>4 DEF Distinct
  <2>6. \A j \in 1..Len(order) : /\ order[j] \in Items /\ order[j].kind = "task"
                                 /\ task[order[j].of] = "assigned"
    BY OrderTyped DEF OpenTasks
  <2>7. \A j \in 1..Len(order) : handed[order[j]] = 0
    BY <1>2, <2>6, ItemTypes
  <2>8. TickOnce(log, handed, task, tick'[t])
    <3>1. Distinct(tick'[t])
      BY <2>2, <2>5, OrderTyped DEF Distinct
    <3>2. Untouched(handed, tick'[t]) /\ OnTasks(task, tick'[t])
      BY <2>2, <2>6, <2>7 DEF Untouched, OnTasks
    <3> QED
      BY <2>2, <2>4, <3>1, <3>2 DEF TickOnce
  <2>9. Active(t) /\ Handing(t)'
    BY <2>2, <2>3 DEF Active, Handing
  <2> QED
    BY <1>6, <1>11, <2>2, <2>8, <2>9 DEF ListTasks, logVars, history
<1>12. ASSUME NEW t \in Ticks, AdvanceOffset(t) PROVE OnceInv'
  <2>1. tick[t].stage = "tasks" /\ state'.offset = tick[t].next.offset
    BY <1>12 DEF AdvanceOffset, NextOffset
  <2>2. tick'[t].stage = "saving" /\ \A u \in Ticks : u # t => tick'[u] = tick[u]
    BY <1>0, <1>12 DEF AdvanceOffset, Resting
  <2>3. Handing(t) /\ ~Active(t)' /\ Fresh(log, handed, state'.offset)
    BY <1>2, <2>1, <2>2 DEF Handing, Active, TickOnce
  <2> QED
    BY <1>5, <1>12, <2>2, <2>3 DEF AdvanceOffset, logVars, history
<1>13. ASSUME NEW t \in Ticks, SaveOpens(t) \/ SaveWrites(t) PROVE OnceInv'
  <2>1. /\ tick[t].stage \in {"saving", "writing"} /\ tick'[t].stage \in {"writing", "idle"}
        /\ \A u \in Ticks : u # t => tick'[u] = tick[u]
    <3>1. CASE SaveOpens(t)
      BY <1>0, <3>1 DEF SaveOpens, Resting
    <3>2. CASE SaveWrites(t)
      BY <1>0, <3>2 DEF SaveWrites, Resting
    <3> QED
      BY <1>13, <3>1, <3>2
  <2>2. ~Handing(t) /\ ~Active(t)'
    BY <2>1 DEF Handing, Active
  <2> QED
    BY <1>5, <1>13, <2>1, <2>2 DEF SaveOpens, SaveWrites, logVars, history
<1>14. ASSUME NEW t \in Ticks, Skip(t) \/ EnterLedger(t) PROVE OnceInv'
  <2>1. Done(t) /\ tick[t].work # <<>> /\ tick[t].stage \in {"incidents", "tasks"}
    BY <1>14 DEF Skip, EnterLedger, Working
  <2> DEFINE r == [tick[t] EXCEPT !.work = Tail(tick[t].work), !.step = "budget"]
  <2>2. tick' = [tick EXCEPT ![t] = r]
    BY <2>1 DEF Done
  <2>3. tick'[t] = r /\ r.stage = tick[t].stage /\ \A u \in Ticks : u # t => tick'[u] = tick[u]
    BY <1>0, <2>2 DEF TickStates
  <2>4. TickOnce(log, handed, task, tick'[t])
    BY <1>2, <2>1, <2>3, TailOnce
  <2>5. Active(t) /\ Handing(t)'
    BY <2>1, <2>3 DEF Active, Handing
  <2> QED
    BY <1>6, <1>14, <2>3, <2>4, <2>5 DEF Skip, EnterLedger, logVars
<1>15. ASSUME NEW t \in Ticks, CallAccepted(t) PROVE OnceInv'
  <2> DEFINE w == Item(t)
  <2>1. /\ w \in Items /\ handed[w] = 0 /\ handed' = [handed EXCEPT ![w] = 1]
        /\ w.kind = "incident" => w.of \in reported
        /\ TickOnce(log, handed', task', tick'[t])
    BY <1>2, <1>15, HandedOnce
  <2>2. task' = TaskTaken(w) /\ UNCHANGED <<log, reported, copy, state>>
    BY <1>15 DEF CallAccepted, logVars
  <2>3. tick' = [tick EXCEPT ![t] = [tick[t] EXCEPT !.step = "enter"]] /\ Handing(t)
    BY <1>15 DEF CallAccepted, Working, Handing
  <2>4. tick'[t].stage = tick[t].stage /\ \A u \in Ticks : u # t => tick'[u] = tick[u]
    BY <1>0, <2>3 DEF TickStates
  <2>5. Active(t) /\ Handing(t)' /\ \A u \in Ticks : Active(u)' => Active(u)
    BY <2>3, <2>4 DEF Active, Handing
  <2>6. ASSUME NEW u \in Ticks PROVE TickOnce(log, handed', task', tick'[u])
    <3>1. CASE u = t
      BY <2>1, <3>1
    <3>2. CASE u # t
      <4>1. ~Active(u)
        BY <1>2, <2>5, <3>2
      <4> QED
        BY <1>3, <2>4, <3>2, <4>1
    <3> QED
      BY <3>1, <3>2
  <2> HIDE DEF w
  <2>7. ASSUME NEW i \in Incidents \ reported PROVE handed'[Incident(i)] = 0
    <3>1. Incident(i) # w
      BY <2>1 DEF Incident
    <3> QED
      BY <1>0, <1>2, <2>1, <3>1, ItemTypes
  <2>8. ASSUME NEW i \in Tasked, task'[i] # "in_progress" PROVE handed'[Task(i)] = 0
    <3>1. i \in Incidents /\ Task(i) \in Items
      BY SubsetAssumption, ItemTypes
    <3>2. task[i] # "in_progress"
      BY <1>0, <2>2, <2>8, <3>1 DEF TaskTaken
    <3>3. Task(i) # w
      <4> SUFFICES ASSUME Task(i) = w PROVE FALSE
        OBVIOUS
      <4>1. w.kind = "task" /\ w.of = i
        BY DEF Task
      <4> QED
        BY <1>0, <2>2, <2>8, <3>1, <4>1 DEF TaskTaken
    <3> QED
      BY <1>0, <1>2, <2>1, <3>1, <3>2, <3>3
  <2>9. \A v \in Items : handed'[v] <= 1
    BY <1>0, <1>2, <2>1
  <2>10. NamedOnce(log)' /\ copy' = NoCopy /\ \A u, v \in Ticks : Active(u)' /\ Active(v)' => u = v
    BY <1>2, <2>2, <2>5 DEF NamedOnce
  <2> QED
    BY <2>2, <2>5, <2>6, <2>7, <2>8, <2>9, <2>10 DEF OnceInv
<1>16. CASE RewriteReplaces
  BY <1>2, <1>16 DEF RewriteReplaces
<1>17. CASE UNCHANGED orchestratorVars
  BY <1>2, <1>17 DEF orchestratorVars, OnceInv, NamedOnce, Active, Handing
<1>18. ~RewriteReads /\ ~Crash /\ \A t \in Ticks : ~CallFails(t) /\ ~TickFails(t)
  BY <1>1 DEF RewriteReads, Crash, CallFails, TickFails, Fault
<1> QED
  BY <1>7, <1>8, <1>9, <1>10, <1>11, <1>12, <1>13, <1>14, <1>15, <1>16, <1>17, <1>18 DEF OrchestratorNext, TickStep

\* OrchestratorInv is an invariant.
LEMMA OrchestratorInvariance == OrchestratorSpec => [](OrchestratorTypeOK /\ OrchestratorInv)
<1>1. OrchestratorInit => OrchestratorTypeOK /\ OrchestratorInv
  BY TypeInit, PassInit, OnceInit DEF OrchestratorInv
<1>2. OrchestratorTypeOK /\ OrchestratorInv /\ [OrchestratorNext]_orchestratorVars => (OrchestratorTypeOK /\ OrchestratorInv)'
  BY TypeStep, FiniteStep, PassStep, OnceStep DEF OrchestratorInv
<1> QED
  BY <1>1, <1>2, PTL DEF OrchestratorSpec

\* Type correctness: log, offsets, ticks and what was handed out keep their types.
THEOREM OrchestratorTypeCorrect == OrchestratorSpec => []OrchestratorTypeOK
  BY OrchestratorInvariance, PTL

\* No offset of orchestrator.state.json, nor the one in memory, passes an incident
\* that has no record in the log of dispatches, unless maintenance rewrote the log:
\* for any incidents and sizes of lines, ticks that overlap or fail, and crashes.
THEOREM NothingIsSkipped == OrchestratorSpec => []NothingIsPassedOver
<1>1. OrchestratorTypeOK /\ OrchestratorInv => NothingIsPassedOver
  <2> SUFFICES ASSUME OrchestratorTypeOK, PassInv, ~Rewritten PROVE NothingIsPassedOver
    BY DEF OrchestratorInv, NothingIsPassedOver
  <2>1. \A o \in {state.offset, disk.offset} \cup
              {tick[t].next.offset : t \in {u \in Ticks : tick[u].stage = "writing"}} :
           Passed(log, recorded, o)
    BY DEF PassInv, TickPasses
  <2> QED
    BY <2>1 DEF NothingIsPassedOver, Passed, End
<1> QED
  BY <1>1, OrchestratorInvariance, PTL

\* Each incident and each task is given to an agent once at most, as long as no
\* ticks overlap, nothing fails and nothing is rewritten.
THEOREM ItemsAreHandedOutOnce == OrchestratorSpec => []HandedOutOnce
<1>1. OrchestratorInv => HandedOutOnce
  BY DEF OrchestratorInv, OnceInv, HandedOutOnce
<1> QED
  BY <1>1, OrchestratorInvariance, PTL

================================================================================
