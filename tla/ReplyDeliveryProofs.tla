-------------------------- MODULE ReplyDeliveryProofs ---------------------------
(***************************************************************************)
(* Proofs about the delivery of a reply, for any number of blocks, tool    *)
(* results and attempts and for every setting of the reply.                *)
(*                                                                         *)
(* First the typing indicator: it ends with the reply.  Signals come late  *)
(* and continuations of startTypingLoop check nothing: what ends the       *)
(* indicator is that an open controller is active as soon as anything of   *)
(* it moves, and that the end of the run is noted before the dispatch      *)
(* returns.                                                                *)
(*                                                                         *)
(* Then the types, and what the chat gets: no block is lost, none is sent  *)
(* twice, and they keep their order.  All three are read off one line of   *)
(* texts: what was sent, what the dispatcher still has, and what is to     *)
(* follow.  Handing a payload on moves it along the line and changes       *)
(* nothing on it; a block joins the line at its end, or waits to be merged *)
(* or, as audio, for the end; and what waits is known to be new.           *)
(*                                                                         *)
(* The loops of the code are functions defined by recursion here: what a   *)
(* loop does is shown by the least round that would break it.              *)
(***************************************************************************)
EXTENDS ReplyDelivery, SequenceTheorems, WellFoundedInduction, TLAPS

\* An open controller with a loop that was started, is starting or goes on, is active:
\* the end of the reply will clean it up.
ActiveOK == ~sealed /\ (started \/ waiting \/ intervals # 0 \/ resuming # 0) => active

\* What follows the run finds its end noted, or the controller sealed.
CompleteOK == phase \in {"sending", "waiting", "done"} => sealed \/ runComplete

\* A dispatch that returned leaves no loop behind.
DoneOK == phase = "done" => sealed \/ ~active

IInv == ActiveOK /\ CompleteOK /\ DoneOK

--------------------------------------------------------------------------------
(* The typing controller *)

\* The clean-up stops the timers and closes the controller.
LEMMA CleanupKeeps ==
    ASSUME IInv, Cleanup
    PROVE  ActiveOK' /\ sealed'
  BY DEF Cleanup, IInv, ActiveOK, typingVars

\* After the end of the run is noted the controller is closed, or knows it.
LEMMA RunCompleteKeeps ==
    ASSUME IInv, MarkRunComplete
    PROVE  ActiveOK' /\ (sealed' \/ runComplete')
  BY CleanupKeeps DEF MarkRunComplete, IInv, ActiveOK

\* After the end of the run an idle dispatcher stops what is active.
LEMMA DispatchIdleKeeps ==
    ASSUME IInv, MarkDispatchIdle
    PROVE  /\ ActiveOK'
           /\ sealed \/ runComplete => sealed' \/ (runComplete' /\ ~active')
<1>1. CASE active /\ runComplete
  BY <1>1, CleanupKeeps DEF MarkDispatchIdle
<1>2. CASE ~(active /\ runComplete)
  BY <1>2 DEF MarkDispatchIdle, IInv, ActiveOK
<1> QED
  BY <1>1, <1>2

\* A signal never undoes the end: a run that is complete starts no loop.
LEMMA SignalKeeps ==
    ASSUME IInv, StartTypingLoop \/ RefreshTypingTtl \/ UNCHANGED typingVars
    PROVE  /\ ActiveOK'
           /\ sealed \/ runComplete => (sealed' \/ runComplete') /\ (active' => active)
           /\ sealed => sealed'
<1>1. CASE StartTypingLoop
  BY <1>1 DEF StartTypingLoop, MayStart, typingVars, IInv, ActiveOK
<1>2. CASE RefreshTypingTtl
  BY <1>2 DEF RefreshTypingTtl, IInv, ActiveOK
<1>3. CASE UNCHANGED typingVars
  BY <1>3 DEF typingVars, IInv, ActiveOK
<1> QED
  BY <1>1, <1>2, <1>3

\* Nor does a continuation, though it sets an interval without looking.
LEMMA ContinuationKeeps ==
    ASSUME IInv, TypingSteps
    PROVE  /\ ActiveOK'
           /\ sealed \/ runComplete => (sealed' \/ runComplete') /\ (sealed' \/ (active' => active))
           /\ sealed => sealed'
<1>1. CASE ChatAnswers
  BY <1>1 DEF ChatAnswers, SetInterval, IInv, ActiveOK
<1>2. CASE ChatRefuses
  BY <1>2 DEF ChatRefuses, IInv, ActiveOK
<1>3. CASE LoopResumes
  <2>1. resuming # 0
    BY <1>3 DEF LoopResumes
  <2> QED
    BY <1>3, <2>1 DEF LoopResumes, SetInterval, IInv, ActiveOK
<1>4. CASE TtlFires
  <2>1. CASE typingTimer
    BY <1>4, <2>1, CleanupKeeps DEF TtlFires
  <2>2. CASE ~typingTimer
    BY <1>4, <2>2 DEF TtlFires, IInv, ActiveOK
  <2> QED
    BY <2>1, <2>2
<1> QED
  BY <1>1, <1>2, <1>3, <1>4 DEF TypingSteps

--------------------------------------------------------------------------------
(* The reply *)

\* The invariant of the typing indicator holds at the start ...
LEMMA InitOK == Init => IInv
  BY DEF Init, TypingInit, IInv, ActiveOK, CompleteOK, DoneOK

\* Steps of the run, which has not ended.
LEMMA RunningKeeps ==
    ASSUME IInv,
           EmitBlock \/ ToolStarts \/ ToolReports \/ FallBack \/ IdleFlush \/ AgentEnds
    PROVE  IInv'
<1>1. /\ phase' \in {"running", "flushing"}
      /\ StartTypingLoop \/ RefreshTypingTtl \/ UNCHANGED typingVars
  BY DEF EmitBlock, ToolStarts, ToolReports, FallBack, IdleFlush, AgentEnds, SignalTyping
<1> QED
  BY <1>1, SignalKeeps DEF IInv, CompleteOK, DoneOK

\* A signal of its own may come at any time.
LEMMA LateSignalKeeps ==
    ASSUME IInv, Signal
    PROVE  IInv'
<1>1. phase' = phase /\ (StartTypingLoop \/ RefreshTypingTtl)
  BY DEF Signal
<1> QED
  BY <1>1, SignalKeeps DEF IInv, CompleteOK, DoneOK

\* The end of the run is noted, whichever way it ends.
LEMMA RunEndsKeeps ==
    ASSUME IInv, AgentFails \/ QueuedInstead \/ Throws \/ RunReturns
    PROVE  IInv'
<1>1. CASE AgentFails \/ RunReturns
  <2>1. phase' = "sending" /\ MarkRunComplete
    BY <1>1 DEF AgentFails, RunReturns
  <2> QED
    BY <2>1, RunCompleteKeeps DEF IInv, CompleteOK, DoneOK
<1>2. CASE QueuedInstead
  <2>1. phase' = "sending" /\ Cleanup
    BY <1>2 DEF QueuedInstead
  <2> QED
    BY <2>1, CleanupKeeps DEF IInv, CompleteOK, DoneOK
<1>3. CASE Throws
  <2>1. phase' = "threw" /\ (MarkRunComplete \/ UNCHANGED typingVars)
    BY <1>3 DEF Throws
  <2> QED
    BY <2>1, RunCompleteKeeps, SignalKeeps DEF IInv, CompleteOK, DoneOK
<1> QED
  BY <1>1, <1>2, <1>3

\* The two chains and the final payloads.
LEMMA SendingKeeps ==
    ASSUME IInv, SendBlock \/ BlockRouted \/ BlockTimesOut \/ ToolTaskEnds \/ SendFinals
    PROVE  IInv'
<1>1. /\ UNCHANGED typingVars
      /\ phase' = phase \/ (phase = "sending" /\ phase' = "waiting")
  BY DEF SendBlock, BlockRouted, BlockTimesOut, ToolTaskEnds, SendFinals
<1> QED
  BY <1>1 DEF typingVars, IInv, ActiveOK, CompleteOK, DoneOK

\* The dispatcher tells that it is idle, in the middle of the reply or at its end.
LEMMA IdleKeeps ==
    ASSUME IInv, Deliver \/ DispatchReturns
    PROVE  IInv'
<1>1. CASE DispatchReturns
  <2>1. phase = "waiting" /\ phase' = "done" /\ MarkDispatchIdle
    BY <1>1 DEF DispatchReturns
  <2> QED
    BY <2>1, DispatchIdleKeeps DEF IInv, CompleteOK, DoneOK
<1>2. CASE Deliver
  <2>1. phase' = phase /\ (MarkDispatchIdle \/ UNCHANGED typingVars)
    BY <1>2 DEF Deliver
  <2>2. CASE MarkDispatchIdle
    BY <2>1, <2>2, DispatchIdleKeeps DEF IInv, CompleteOK, DoneOK
  <2>3. CASE UNCHANGED typingVars
    BY <2>1, <2>3 DEF typingVars, IInv, ActiveOK, CompleteOK, DoneOK
  <2> QED
    BY <2>1, <2>2, <2>3
<1> QED
  BY <1>1, <1>2

\* ... a timer, an answer of the chat or a continuation that comes late keeps it ...
LEMMA TypingKeeps ==
    ASSUME IInv, TypingStep
    PROVE  IInv'
<1>1. phase' = phase /\ TypingSteps
  BY DEF TypingStep
<1> QED
  BY <1>1, ContinuationKeeps DEF IInv, CompleteOK, DoneOK

\* ... and so does every step.
LEMMA StepOK == IInv /\ [Next]_vars => IInv'
<1> SUFFICES ASSUME IInv, [Next]_vars PROVE IInv'
  OBVIOUS
<1>1. CASE UNCHANGED vars
  BY <1>1 DEF vars, typingVars, IInv, ActiveOK, CompleteOK, DoneOK
<1> QED
  BY <1>1, RunningKeeps, LateSignalKeeps, RunEndsKeeps, SendingKeeps, IdleKeeps, TypingKeeps
  DEF Next, RunEnds, Settles, Ends

\* It is an invariant.
LEMMA Invariance == Spec => []IInv
  BY InitOK, StepOK, PTL DEF Spec

--------------------------------------------------------------------------------
(* The typing indicator ends *)

\* Once the dispatch returned the chat is not told that the assistant types, whatever
\* signal, answer of the chat or timer comes late.
THEOREM TypingEnds == Spec => []TypingEndsWithReply
<1>1. IInv => TypingEndsWithReply
  <2> SUFFICES ASSUME IInv, phase = "done", ~sealed PROVE ~(waiting \/ intervals > 0)
    BY DEF TypingEndsWithReply, Typing
  <2>1. ~active
    BY DEF IInv, DoneOK
  <2>2. ~waiting /\ intervals = 0
    BY <2>1 DEF IInv, ActiveOK
  <2> QED
    BY <2>2
<1> QED
  BY <1>1, Invariance, PTL

--------------------------------------------------------------------------------
(* Sequences *)

\* A set of numbers that is not empty has a least one.
LEMMA LeastExists ==
    ASSUME NEW S \in SUBSET Nat, S # {}
    PROVE  \E i \in S : \A j \in S : i <= j
<1>1. IsWellFoundedOn(OpToRel(<, Nat), Nat)
  BY NatLessThanWellFounded
<1>2. PICK i \in S : \A j \in S : ~(<<j, i>> \in OpToRel(<, Nat))
  BY <1>1, WFMin
<1>3. \A j \in S : ~(j < i)
  BY <1>2 DEF OpToRel
<1> QED
  BY <1>3

\* What holds of 0 and passes from one number to the next holds up to N.
LEMMA UpTo ==
    ASSUME NEW N \in Nat, NEW S, 0 \in S, \A n \in 1..N : n - 1 \in S => n \in S
    PROVE  N \in S
<1> DEFINE Bad == {n \in 0..N : n \notin S}
<1> SUFFICES ASSUME N \notin S PROVE FALSE
  OBVIOUS
<1>1. Bad \in SUBSET Nat /\ N \in Bad
  OBVIOUS
<1>2. PICK m \in Bad : \A j \in Bad : m <= j
  BY <1>1, LeastExists
<1>3. m \in 1..N /\ m - 1 \in 0..N /\ ~(m <= m - 1)
  BY <1>2
<1> QED
  BY <1>2, <1>3

\* A loop from 1 to N takes the values of a function.
LoopRuns(D, base, N, step) ==
    \E f \in [0..N -> D] : \A n \in 0..N : f[n] = IF n = 0 THEN base ELSE step[n][f[n - 1]]

\* A loop whose body maps D to D has a function of its rounds.
LEMMA LoopExists ==
    ASSUME NEW D, NEW base \in D, NEW N \in Nat, NEW step \in [1..N -> [D -> D]]
    PROVE  LoopRuns(D, base, N, step)
<1> DEFINE Good(f, m) == \A n \in 0..m : f[n] = IF n = 0 THEN base ELSE step[n][f[n - 1]]
           Reached == {m \in 0..N : \E f \in [0..m -> D] : Good(f, m)}
<1>1. 0 \in Reached
  <2> DEFINE f == [n \in 0..0 |-> base]
  <2>1. f \in [0..0 -> D]
    OBVIOUS
  <2>2. Good(f, 0)
    OBVIOUS
  <2> HIDE DEF f
  <2>3. 0 \in 0..N
    OBVIOUS
  <2> QED
    BY <2>1, <2>2, <2>3
<1>2. ASSUME NEW m \in 1..N, m - 1 \in Reached PROVE m \in Reached
  <2>1. PICK f \in [0..(m - 1) -> D] : Good(f, m - 1)
    BY <1>2
  <2> DEFINE g == [n \in 0..m |-> IF n = m THEN step[m][f[m - 1]] ELSE f[n]]
  <2>2. f[m - 1] \in D /\ step[m] \in [D -> D]
    OBVIOUS
  <2>3. g \in [0..m -> D]
    BY <2>2
  <2>4. ASSUME NEW n \in 0..m PROVE g[n] = IF n = 0 THEN base ELSE step[n][g[n - 1]]
    <3>1. CASE n = m
      <4>1. n # 0 /\ n - 1 \in 0..m /\ n - 1 # m
        BY <3>1
      <4> QED
        BY <3>1, <4>1
    <3>2. CASE n # m /\ n # 0
      <4>1. n \in 0..(m - 1) /\ n - 1 \in 0..m /\ n - 1 # m
        BY <3>2
      <4> QED
        BY <2>1, <3>2, <4>1
    <3>3. CASE n # m /\ n = 0
      BY <2>1, <3>3
    <3> QED
      BY <3>1, <3>2, <3>3
  <2> HIDE DEF g
  <2>5. Good(g, m) /\ m \in 0..N
    BY <2>4
  <2> QED
    BY <2>3, <2>5
<1>3. N \in Reached
  <2> HIDE DEF Reached
  <2> QED
    BY <1>1, <1>2, UpTo
<1>4. PICK f \in [0..N -> D] : Good(f, N)
  BY <1>3
<1> QED
  BY <1>4 DEF LoopRuns

\* The elements of a sequence: of none ...
LEMMA SetOfEmpty == ToSet(<<>>) = {}
  BY DEF ToSet

\* ... of one ...
LEMMA SetOfOne ==
    ASSUME NEW e
    PROVE  ToSet(<<e>>) = {e}
  BY DEF ToSet

\* ... with one more at the end ...
LEMMA SetOfAppend ==
    ASSUME NEW S, NEW s \in Seq(S), NEW e \in S
    PROVE  ToSet(Append(s, e)) = ToSet(s) \cup {e}
<1>1. /\ DOMAIN Append(s, e) = 1..(Len(s) + 1) /\ DOMAIN s = 1..Len(s) /\ Len(s) \in Nat
      /\ Append(s, e)[Len(s) + 1] = e /\ \A i \in 1..Len(s) : Append(s, e)[i] = s[i]
  BY AppendProperties, LenProperties
<1>2. \A i \in 1..(Len(s) + 1) : i \in 1..Len(s) \/ i = Len(s) + 1
  BY <1>1
<1>3. \A i \in 1..Len(s) : i \in 1..(Len(s) + 1)
  BY <1>1
<1>4. Len(s) + 1 \in 1..(Len(s) + 1)
  BY <1>1
<1> QED
  BY <1>1, <1>2, <1>3, <1>4 DEF ToSet

\* ... of two in a row ...
LEMMA SetOfConcat ==
    ASSUME NEW S, NEW s \in Seq(S), NEW t \in Seq(S)
    PROVE  ToSet(s \o t) = ToSet(s) \cup ToSet(t)
<1>1. /\ DOMAIN (s \o t) = 1..(Len(s) + Len(t)) /\ DOMAIN s = 1..Len(s) /\ DOMAIN t = 1..Len(t)
      /\ Len(s) \in Nat /\ Len(t) \in Nat
      /\ \A i \in 1..(Len(s) + Len(t)) : (s \o t)[i] = IF i <= Len(s) THEN s[i] ELSE t[i - Len(s)]
  BY ConcatProperties, LenProperties
<1>2. \A i \in 1..Len(s) : i \in 1..(Len(s) + Len(t)) /\ (s \o t)[i] = s[i]
  BY <1>1
<1>3. \A i \in 1..Len(t) : i + Len(s) \in 1..(Len(s) + Len(t)) /\ (s \o t)[i + Len(s)] = t[i]
  BY <1>1
<1>4. \A i \in 1..(Len(s) + Len(t)) :
         i \in 1..Len(s) \/ (i - Len(s) \in 1..Len(t) /\ (s \o t)[i] = t[i - Len(s)])
  BY <1>1
<1>5. ToSet(s) \subseteq ToSet(s \o t)
  BY <1>1, <1>2 DEF ToSet
<1>6. ToSet(t) \subseteq ToSet(s \o t)
  BY <1>1, <1>3, ZenonT(60) DEF ToSet
<1>7. ASSUME NEW i \in 1..(Len(s) + Len(t)) PROVE (s \o t)[i] \in ToSet(s) \cup ToSet(t)
  <2>1. CASE i \in 1..Len(s)
    <3>1. (s \o t)[i] = s[i] /\ s[i] \in ToSet(s)
      BY <1>1, <1>2, <2>1 DEF ToSet
    <3> QED
      BY <3>1
  <2>2. CASE i - Len(s) \in 1..Len(t) /\ (s \o t)[i] = t[i - Len(s)]
    <3>1. t[i - Len(s)] \in ToSet(t)
      BY <1>1, <2>2 DEF ToSet
    <3> QED
      BY <2>2, <3>1
  <2> QED
    BY <1>4, <2>1, <2>2
<1>8. ToSet(s \o t) \subseteq ToSet(s) \cup ToSet(t)
  BY <1>1, <1>7 DEF ToSet
<1> QED
  BY <1>5, <1>6, <1>8

\* ... and without the first.
LEMMA SetOfTail ==
    ASSUME NEW S, NEW s \in Seq(S), s # <<>>
    PROVE  /\ ToSet(s) = {Head(s)} \cup ToSet(Tail(s))
           /\ IsInjective(s) => IsInjective(Tail(s)) /\ Head(s) \notin ToSet(Tail(s))
<1>1. /\ DOMAIN s = 1..Len(s) /\ Len(s) \in Nat \ {0} /\ Head(s) = s[1]
      /\ DOMAIN Tail(s) = 1..(Len(s) - 1) /\ \A i \in 1..(Len(s) - 1) : Tail(s)[i] = s[i + 1]
  BY HeadTailProperties, LenProperties, EmptySeq
<1>2. \A i \in 1..(Len(s) - 1) : i + 1 \in 1..Len(s) /\ i + 1 # 1
  BY <1>1
<1>3. \A i \in 1..Len(s) : i = 1 \/ (i - 1 \in 1..(Len(s) - 1) /\ Tail(s)[i - 1] = s[i])
  BY <1>1
<1>4. 1 \in 1..Len(s)
  BY <1>1
<1>5. ToSet(s) = {Head(s)} \cup ToSet(Tail(s))
  <2>1. ASSUME NEW i \in 1..Len(s) PROVE s[i] \in {Head(s)} \cup ToSet(Tail(s))
    BY <1>1, <1>3 DEF ToSet
  <2>2. ASSUME NEW i \in 1..(Len(s) - 1) PROVE Tail(s)[i] \in ToSet(s)
    BY <1>1, <1>2 DEF ToSet
  <2>3. Head(s) \in ToSet(s)
    BY <1>1, <1>4 DEF ToSet
  <2>4. ToSet(s) \subseteq {Head(s)} \cup ToSet(Tail(s))
    BY <1>1, <2>1 DEF ToSet
  <2>5. ToSet(Tail(s)) \subseteq ToSet(s)
    BY <1>1, <2>2 DEF ToSet
  <2> QED
    BY <2>3, <2>4, <2>5
<1>6. ASSUME IsInjective(s) PROVE IsInjective(Tail(s)) /\ Head(s) \notin ToSet(Tail(s))
  <2>1. \A i, j \in 1..Len(s) : s[i] = s[j] => i = j
    BY <1>1, <1>6 DEF IsInjective
  <2>2. \A i, j \in 1..(Len(s) - 1) : Tail(s)[i] = Tail(s)[j] => i = j
    BY <1>1, <1>2, <2>1
  <2>3. \A i \in 1..(Len(s) - 1) : Tail(s)[i] # Head(s)
    BY <1>1, <1>2, <1>4, <2>1
  <2> QED
    BY <1>1, <2>2, <2>3 DEF IsInjective, ToSet
<1> QED
  BY <1>5, <1>6

\* A new element at the end repeats none.
LEMMA InjectiveAppend ==
    ASSUME NEW S, NEW s \in Seq(S), NEW e \in S, IsInjective(s), e \notin ToSet(s)
    PROVE  IsInjective(Append(s, e))
<1>1. /\ DOMAIN Append(s, e) = 1..(Len(s) + 1) /\ DOMAIN s = 1..Len(s) /\ Len(s) \in Nat
      /\ Append(s, e)[Len(s) + 1] = e /\ \A i \in 1..Len(s) : Append(s, e)[i] = s[i]
  BY AppendProperties, LenProperties
<1>2. \A i \in 1..(Len(s) + 1) : i \in 1..Len(s) \/ i = Len(s) + 1
  BY <1>1
<1>3. \A i, j \in 1..Len(s) : s[i] = s[j] => i = j
  BY <1>1 DEF IsInjective
<1>4. \A i \in 1..Len(s) : s[i] # e
  BY <1>1 DEF ToSet
<1> QED
  BY <1>1, <1>2, <1>3, <1>4 DEF IsInjective

--------------------------------------------------------------------------------
(* The pipeline *)

Pipes == [seen : SUBSET Text, chain : Seq(Text)]
\* What is on the chain was seen, is there once and was not sent.
PipeTyped(p) ==
    /\ p \in Pipes
    /\ sentKeys \subseteq p.seen /\ ToSet(p.chain) \subseteq p.seen
    /\ sentKeys \cap ToSet(p.chain) = {} /\ IsInjective(p.chain)
    /\ inFlight => p.chain # <<>>

\* sendPayload puts a key into the chain that is neither sent nor in it.
LEMMA ChainedFacts ==
    ASSUME NEW p, PipeTyped(p), NEW key \in p.seen
    PROVE  /\ PipeTyped(Chained(p, key))
           /\ \/ key \in sentKeys \cup ToSet(p.chain) /\ Chained(p, key) = p
              \/ /\ key \notin sentKeys \cup ToSet(p.chain)
                 /\ Chained(p, key) = [p EXCEPT !.chain = Append(p.chain, key)]
<1>1. p \in Pipes /\ p.chain \in Seq(Text) /\ key \in Text
  BY DEF PipeTyped, Pipes
<1>2. CASE key \in sentKeys \cup ToSet(p.chain)
  BY <1>2 DEF Chained
<1>3. CASE key \notin sentKeys \cup ToSet(p.chain)
  <2> DEFINE q == [p EXCEPT !.chain = Append(p.chain, key)]
  <2>1. Chained(p, key) = q
    BY <1>3 DEF Chained
  <2>2. q.seen = p.seen /\ q.chain = Append(p.chain, key) /\ q \in Pipes
    BY <1>1 DEF Pipes
  <2>3. ToSet(q.chain) = ToSet(p.chain) \cup {key} /\ IsInjective(q.chain) /\ q.chain # <<>>
    BY <1>1, <1>3, <2>2, SetOfAppend, InjectiveAppend, AppendProperties DEF PipeTyped
  <2>4. PipeTyped(q)
    BY <1>3, <2>2, <2>3 DEF PipeTyped
  <2> QED
    BY <1>3, <2>1, <2>4
<1> QED
  BY <1>2, <1>3

\* A key that was not seen is seen and goes into the chain; an aborted pipeline takes none.
LEMMA SendFacts ==
    ASSUME NEW p, PipeTyped(p), NEW key \in Text
    PROVE  /\ PipeTyped(SendPayload(p, key)) /\ p.seen \subseteq SendPayload(p, key).seen
           /\ \/ (aborted \/ key \in p.seen) /\ SendPayload(p, key) = p
              \/ /\ ~aborted /\ key \notin p.seen
                 /\ SendPayload(p, key) = [seen |-> p.seen \cup {key}, chain |-> Append(p.chain, key)]
<1>1. CASE aborted \/ key \in p.seen
  BY <1>1 DEF SendPayload
<1>2. CASE ~aborted /\ key \notin p.seen
  <2> DEFINE q == [p EXCEPT !.seen = p.seen \cup {key}]
  <2>1. p \in Pipes
    BY DEF PipeTyped
  <2>2. q.seen = p.seen \cup {key} /\ q.chain = p.chain /\ q \in Pipes
    BY <2>1 DEF Pipes
  <2>3. PipeTyped(q) /\ key \notin sentKeys \cup ToSet(q.chain)
    BY <1>2, <2>2 DEF PipeTyped
  <2>4. /\ PipeTyped(Chained(q, key))
        /\ Chained(q, key) = [q EXCEPT !.chain = Append(q.chain, key)]
    BY <2>2, <2>3, ChainedFacts
  <2>5. SendPayload(p, key) = Chained(q, key)
    BY <1>2 DEF SendPayload
  <2>6. Chained(q, key) = [seen |-> p.seen \cup {key}, chain |-> Append(p.chain, key)]
    BY <2>1, <2>4 DEF Pipes
  <2> QED
    BY <1>2, <2>4, <2>5, <2>6
<1> QED
  BY <1>1, <1>2

\* A flush sees more, and the pipeline stays typed ...
LEMMA FlushedFacts ==
    ASSUME NEW p, PipeTyped(p), NEW text \in Text
    PROVE  PipeTyped(Flushed(p, text)) /\ p.seen \subseteq Flushed(p, text).seen
  BY SendFacts DEF Flushed

\* What the loop over the audio does, from what one round of it does.
LEMMA AudioLoop ==
    ASSUME audio \in Seq(Text), ~aborted, NEW p \in Pipes, NEW G,
           p \in G[0],
           \A n \in 1..Len(audio) : \A q \in Pipes : q \in G[n - 1] => Chained(q, audio[n]) \in G[n]
    PROVE  AudioFlushed(p) \in G[Len(audio)]
<1>1. Len(audio) \in Nat /\ \A n \in 1..Len(audio) : audio[n] \in Text
  BY LenProperties, ElementOfSeq
<1>2. \A q \in Pipes, k \in Text : Chained(q, k) \in Pipes
  BY AppendProperties DEF Chained, Pipes
<1> DEFINE step == [n \in 1..Len(audio) |-> [q \in Pipes |-> Chained(q, audio[n])]]
<1>3. step \in [1..Len(audio) -> [Pipes -> Pipes]]
  BY <1>1, <1>2
<1>4. PICK f \in [0..Len(audio) -> Pipes] :
         \A n \in 0..Len(audio) : f[n] = IF n = 0 THEN p ELSE step[n][f[n - 1]]
  <2>1. Len(audio) \in Nat
    BY <1>1
  <2> HIDE DEF step
  <2>2. LoopRuns(Pipes, p, Len(audio), step)
    BY <1>3, <2>1, LoopExists
  <2> QED
    BY <2>2 DEF LoopRuns
<1>5. f = [n \in 0..Len(audio) |-> f[n]]
  OBVIOUS
<1>6. ASSUME NEW n \in 1..Len(audio) PROVE step[n][f[n - 1]] = Chained(f[n - 1], audio[n])
  <2>1. n - 1 \in 0..Len(audio)
    BY <1>1
  <2> QED
    BY <2>1
<1>7. f = [n \in 0..Len(audio) |-> IF n = 0 THEN p ELSE Chained(f[n - 1], audio[n])]
  <2>1. \A n \in 0..Len(audio) : n = 0 \/ n \in 1..Len(audio)
    BY <1>1
  <2> HIDE DEF step
  <2>2. \A n \in 0..Len(audio) : f[n] = IF n = 0 THEN p ELSE Chained(f[n - 1], audio[n])
    BY <1>4, <1>6, <2>1
  <2> QED
    BY <1>5, <2>2
<1> DEFINE sent == CHOOSE g : g = [n \in 0..Len(audio) |-> IF n = 0 THEN p ELSE Chained(g[n - 1], audio[n])]
<1>8. sent = [n \in 0..Len(audio) |-> IF n = 0 THEN p ELSE Chained(sent[n - 1], audio[n])]
  BY <1>7
<1>9. AudioFlushed(p) = sent[Len(audio)]
  BY DEF AudioFlushed
<1> HIDE DEF sent
<1> DEFINE Fine == {n \in 0..Len(audio) : sent[n] \in G[n] /\ sent[n] \in Pipes}
<1>10. 0 \in Fine
  BY <1>1, <1>8
<1>11. ASSUME NEW n \in 1..Len(audio), n - 1 \in Fine PROVE n \in Fine
  <2>1. n \in 0..Len(audio) /\ n # 0
    BY <1>1
  <2>2. sent[n] = Chained(sent[n - 1], audio[n])
    BY <1>8, <2>1
  <2> QED
    BY <1>1, <1>2, <1>11, <2>1, <2>2
<1>12. Len(audio) \in Fine
  <2> HIDE DEF Fine
  <2> QED
    BY <1>1, <1>10, <1>11, UpTo
<1> QED
  BY <1>9, <1>12

\* ... and so it does when the audio, which was seen before, goes into the chain.
LEMMA AudioFacts ==
    ASSUME audio \in Seq(Text), NEW p, PipeTyped(p), ToSet(audio) \subseteq p.seen
    PROVE  PipeTyped(AudioFlushed(p)) /\ AudioFlushed(p).seen = p.seen
<1>1. CASE aborted
  BY <1>1 DEF AudioFlushed
<1>2. CASE ~aborted
  <2> DEFINE G == [n \in 0..Len(audio) |-> {q \in Pipes : PipeTyped(q) /\ q.seen = p.seen}]
  <2>1. p \in Pipes /\ Len(audio) \in Nat /\ DOMAIN audio = 1..Len(audio)
    BY LenProperties DEF PipeTyped
  <2>2. p \in G[0]
    BY <2>1
  <2>3. ASSUME NEW n \in 1..Len(audio), NEW q \in Pipes, q \in G[n - 1]
        PROVE  Chained(q, audio[n]) \in G[n]
    <3>1. n \in 0..Len(audio) /\ n - 1 \in 0..Len(audio) /\ audio[n] \in ToSet(audio)
      BY <2>1 DEF ToSet
    <3>2. PipeTyped(q) /\ q.seen = p.seen /\ audio[n] \in q.seen
      BY <2>3, <3>1
    <3>3. PipeTyped(Chained(q, audio[n])) /\ Chained(q, audio[n]).seen = p.seen
      BY <3>2, ChainedFacts DEF Pipes
    <3> QED
      BY <3>1, <3>3 DEF PipeTyped
  <2> HIDE DEF G
  <2>4. AudioFlushed(p) \in G[Len(audio)]
    BY <1>2, <2>1, <2>2, <2>3, AudioLoop
  <2> QED
    BY <2>1, <2>4 DEF G
<1> QED
  BY <1>1, <1>2

--------------------------------------------------------------------------------
(* The types of the pipeline, the run and the sends: with the typing controller's they are TypeOK *)

PipelineTyped ==
    /\ PipeTyped(Pipe)
    /\ buffer \in Text /\ Len(buffer) < MaxChars
    /\ audio \in Seq(Text) /\ ToSet(audio) \subseteq seenKeys /\ IsInjective(audio)
    /\ inFlight \in BOOLEAN /\ aborted \in BOOLEAN
SendTyped ==
    /\ toolTasks \in 0..toolCalls /\ toolCalls \in 0..MaxTools
    /\ queue \in Seq(Payloads) /\ tried \in Seq(Payloads) /\ awaited \in 0..Len(queue)
    /\ finals \in Seq(Text)
RunTyped ==
    /\ config \in Configs
    /\ phase \in {"running", "flushing", "sending", "waiting", "done", "threw"}
    /\ outcome \in {"none", "success", "failed", "queued"}
    /\ attempts \in 1..MaxAttempts /\ said \in 0..MaxBlocks /\ withError \in BOOLEAN
ReplyTyped == RunTyped /\ PipelineTyped /\ SendTyped

\* The types of the reply and those of its typing indicator.
LEMMA PartsOfTypeOK == TypeOK <=> ReplyTyped /\ TypingTypeOK
<1>1. Pipe.seen = seenKeys /\ Pipe.chain = chain
  BY DEF Pipe
<1>2. Pipe \in Pipes <=> seenKeys \subseteq Text /\ chain \in Seq(Text)
  BY DEF Pipe, Pipes
<1>3. PipeTyped(Pipe) <=> /\ seenKeys \subseteq Text /\ chain \in Seq(Text)
                          /\ sentKeys \subseteq seenKeys /\ ToSet(chain) \subseteq seenKeys
                          /\ sentKeys \cap ToSet(chain) = {} /\ IsInjective(chain)
                          /\ inFlight => chain # <<>>
  BY <1>1, <1>2 DEF PipeTyped
<1> QED
  BY <1>3 DEF TypeOK, ReplyTyped, RunTyped, SendTyped, PipelineTyped

\* A pipeline that becomes another keeps its types.
LEMMA BecomesTyped ==
    ASSUME NEW q, PipeTyped(q), PipeBecomes(q), UNCHANGED <<sentKeys, inFlight>>
    PROVE  PipeTyped(Pipe)'
<1>1. q.seen = seenKeys' /\ q.chain = chain' /\ q \in Pipes
  BY DEF PipeBecomes, PipeTyped
<1>2. (Pipe \in Pipes)'
  BY <1>1 DEF Pipe, Pipes
<1> QED
  BY <1>1, <1>2 DEF PipeTyped, Pipe

\* What is unchanged keeps its type.
LEMMA SamePipe ==
    ASSUME PipeTyped(Pipe), UNCHANGED <<seenKeys, chain, sentKeys, inFlight>>
    PROVE  PipeTyped(Pipe)'
  BY DEF PipeTyped, Pipe

\* The empty text and the texts of one block are texts.
LEMMA TextTypes ==
    /\ <<>> \in Text /\ Len(<<>>) = 0 /\ <<>> \in Seq(Text) /\ ToSet(<<>>) = {}
    /\ \A b \in 0..Error : <<b>> \in Text /\ Len(<<b>>) = 1
    /\ 0 < MaxChars
<1>1. IsInjective(<<>>)
  BY DEF IsInjective
<1> QED
  BY SetOfEmpty, CharsAssumption, BlocksAssumption DEF Text, Error

\* Each operation of the pipeline keeps its types: the flush at the end ...
LEMMA FlushAllTyped ==
    ASSUME PipelineTyped, FlushAll
    PROVE  PipelineTyped'
<1> DEFINE q == Flushed(Pipe, buffer)
           r == AudioFlushed(q)
<1>1. PipeTyped(q) /\ seenKeys \subseteq q.seen
  BY FlushedFacts DEF PipelineTyped, Pipe
<1>2. PipeTyped(r)
  BY <1>1, AudioFacts DEF PipelineTyped
<1> HIDE DEF q
<1>3. PipeTyped(Pipe)'
  <2>1. PipeBecomes(r) /\ UNCHANGED <<sentKeys, inFlight>>
    BY DEF FlushAll, q
  <2> HIDE DEF r
  <2> QED
    BY <1>2, <2>1, BecomesTyped
<1>4. buffer' = <<>> /\ audio' = <<>> /\ UNCHANGED <<inFlight, aborted>>
  BY DEF FlushAll
<1> QED
  BY <1>3, <1>4, TextTypes DEF PipelineTyped, IsInjective

\* ... a block that comes in ...
LEMMA EnqueueTyped ==
    ASSUME PipelineTyped, RunTyped, NEW b \in 1..MaxBlocks, Enqueue(b)
    PROVE  PipelineTyped'
<1> DEFINE key == <<b>>
<1>1. key \in Text /\ Len(key) = 1 /\ UNCHANGED <<sentKeys, inFlight, aborted>>
  BY TextTypes, BlocksAssumption DEF Enqueue, Error
<1> HIDE DEF key
<1>2. Pipe.seen = seenKeys /\ Pipe.chain = chain /\ PipeTyped(Pipe)
  BY DEF Pipe, PipelineTyped
<1>3. CASE aborted /\ UNCHANGED <<buffer, audio, seenKeys, chain>>
  BY <1>1, <1>2, <1>3, SamePipe DEF PipelineTyped
<1>4. CASE EnqueueAudio(key)
  <2>1. CASE ~IsNew(key)
    BY <1>1, <1>2, <1>4, <2>1, SamePipe DEF PipelineTyped, EnqueueAudio
  <2>2. CASE IsNew(key)
    <3>1. /\ seenKeys' = seenKeys \cup {key} /\ audio' = Append(audio, key)
          /\ key \notin seenKeys /\ UNCHANGED <<buffer, chain>>
      BY <1>4, <2>2 DEF EnqueueAudio, IsNew
    <3>2. /\ audio' \in Seq(Text) /\ IsInjective(audio')
          /\ ToSet(audio') = ToSet(audio) \cup {key}
      BY <1>1, <3>1, AppendProperties, SetOfAppend, InjectiveAppend DEF PipelineTyped
    <3>3. (Pipe \in Pipes)'
      BY <1>1, <1>2, <3>1 DEF Pipe, Pipes, PipeTyped
    <3>4. PipeTyped(Pipe)'
      BY <1>1, <1>2, <3>1, <3>3 DEF PipeTyped, Pipe
    <3> QED
      BY <1>1, <3>1, <3>2, <3>4 DEF PipelineTyped
  <2> QED
    BY <2>1, <2>2
<1>5. CASE EnqueueMedia(key)
  <2> DEFINE q == Flushed(Pipe, buffer)
             r == SendPayload(q, key)
  <2>1. PipeTyped(q) /\ Pipe.seen \subseteq q.seen
    BY <1>2, FlushedFacts DEF PipelineTyped
  <2>2. PipeTyped(r) /\ q.seen \subseteq r.seen
    BY <1>1, <2>1, SendFacts
  <2>3. PipeBecomes(r) /\ buffer' = <<>> /\ audio' = audio /\ seenKeys' = r.seen
    BY <1>5 DEF EnqueueMedia, PipeBecomes
  <2> HIDE DEF r
  <2>4. PipeTyped(Pipe)'
    BY <1>1, <2>2, <2>3, BecomesTyped
  <2> QED
    BY <1>1, <1>2, <2>1, <2>2, <2>3, <2>4, TextTypes DEF PipelineTyped
<1>6. CASE EnqueueText(key)
  <2>1. audio' = audio
    BY <1>6 DEF EnqueueText
  <2>2. CASE PipeBecomes(SendPayload(Pipe, key)) /\ UNCHANGED buffer
    <3> DEFINE r == SendPayload(Pipe, key)
    <3>1. PipeTyped(r) /\ seenKeys \subseteq r.seen /\ seenKeys' = r.seen
      BY <1>1, <1>2, <2>2, SendFacts DEF PipeBecomes
    <3>2. PipeBecomes(r)
      BY <2>2
    <3> HIDE DEF r
    <3>3. PipeTyped(Pipe)'
      BY <1>1, <3>1, <3>2, BecomesTyped
    <3> QED
      BY <1>1, <2>1, <2>2, <3>1, <3>3 DEF PipelineTyped
  <2>3. CASE UNCHANGED <<buffer, seenKeys, chain>>
    BY <1>1, <1>2, <2>1, <2>3, SamePipe DEF PipelineTyped
  <2> DEFINE merged == buffer \o key
  <2>4. merged \in Text /\ Len(merged) \in Nat
    <3>1. buffer \in Seq(0..Error) /\ key \in Seq(0..Error)
      BY <1>1 DEF PipelineTyped, Text
    <3> QED
      BY <3>1, ConcatProperties, LenProperties DEF Text
  <2> HIDE DEF merged
  <2>5. CASE PipeBecomes(Flushed(Pipe, merged)) /\ buffer' = <<>>
    <3> DEFINE r == Flushed(Pipe, merged)
    <3>1. PipeTyped(r) /\ seenKeys \subseteq r.seen /\ seenKeys' = r.seen
      BY <1>2, <2>4, <2>5, FlushedFacts DEF PipeBecomes
    <3>2. PipeBecomes(r)
      BY <2>5
    <3> HIDE DEF r
    <3>3. PipeTyped(Pipe)'
      BY <1>1, <3>1, <3>2, BecomesTyped
    <3> QED
      BY <1>1, <2>1, <2>5, <3>1, <3>3, TextTypes DEF PipelineTyped
  <2>6. CASE ~(Len(merged) >= MaxChars) /\ buffer' = merged /\ UNCHANGED <<seenKeys, chain>>
    <3>1. Len(buffer') < MaxChars
      BY <2>4, <2>6, CharsAssumption
    <3> QED
      BY <1>1, <1>2, <2>1, <2>4, <2>6, <3>1, SamePipe DEF PipelineTyped
  <2> QED
    BY <1>6, <2>2, <2>3, <2>5, <2>6 DEF EnqueueText, merged
<1> QED
  BY <1>3, <1>4, <1>5, <1>6 DEF Enqueue, key

\* ... no operation ...
LEMMA PipelineSame ==
    ASSUME PipelineTyped, UNCHANGED pipelineVars
    PROVE  PipelineTyped'
  BY SamePipe DEF PipelineTyped, pipelineVars

\* ... the flush of the idle timer ...
LEMMA IdleFlushTyped ==
    ASSUME PipelineTyped, IdleFlush
    PROVE  PipelineTyped'
<1> DEFINE q == Flushed(Pipe, buffer)
<1>1. PipeTyped(q) /\ seenKeys \subseteq q.seen
  BY FlushedFacts DEF PipelineTyped, Pipe
<1>2. /\ PipeBecomes(q) /\ buffer' = <<>> /\ seenKeys' = q.seen
      /\ UNCHANGED <<audio, sentKeys, inFlight, aborted>>
  BY DEF IdleFlush, PipeBecomes
<1> HIDE DEF q
<1>3. PipeTyped(Pipe)'
  BY <1>1, <1>2, BecomesTyped
<1> QED
  BY <1>1, <1>2, <1>3, TextTypes DEF PipelineTyped

\* The head of the chain leaves it, sent or not.
LEMMA LeaveTyped ==
    ASSUME PipelineTyped, chain # <<>>, LeaveChain, inFlight' = FALSE,
           sentKeys' \in {sentKeys, sentKeys \cup {Head(chain)}},
           aborted' \in BOOLEAN, UNCHANGED <<buffer, audio, seenKeys>>
    PROVE  PipelineTyped'
<1>1. /\ seenKeys \subseteq Text /\ chain \in Seq(Text) /\ ToSet(chain) \subseteq seenKeys
      /\ sentKeys \cap ToSet(chain) = {} /\ IsInjective(chain) /\ sentKeys \subseteq seenKeys
  BY DEF PipelineTyped, PipeTyped, Pipe, Pipes
<1>2. /\ chain' \in Seq(Text) /\ IsInjective(chain')
      /\ ToSet(chain) = {Head(chain)} \cup ToSet(chain') /\ Head(chain) \notin ToSet(chain')
  BY <1>1, HeadTailProperties, SetOfTail DEF LeaveChain
<1>3. sentKeys' \subseteq seenKeys' /\ sentKeys' \cap ToSet(chain') = {}
  BY <1>1, <1>2
<1>4. (Pipe \in Pipes)'
  BY <1>1, <1>2 DEF Pipe, Pipes
<1>5. PipeTyped(Pipe)'
  BY <1>1, <1>2, <1>3, <1>4 DEF PipeTyped, Pipe
<1> QED
  BY <1>5 DEF PipelineTyped

\* ... and what happens to a block that is sent.
LEMMA SendBlockTyped ==
    ASSUME PipelineTyped, SendBlock \/ BlockRouted \/ BlockTimesOut
    PROVE  PipelineTyped'
<1>1. chain \in Seq(Text) /\ (inFlight => chain # <<>>)
  BY DEF PipelineTyped, PipeTyped, Pipe, Pipes
<1>2. CASE LeaveChain
  <2>1. /\ chain # <<>> /\ inFlight' = FALSE /\ aborted' \in BOOLEAN
        /\ UNCHANGED <<buffer, audio, seenKeys>>
    <3>1. inFlight \in BOOLEAN /\ aborted \in BOOLEAN
      BY DEF PipelineTyped
    <3>2. CASE BlockRouted \/ BlockTimesOut
      BY <1>1, <3>1, <3>2 DEF BlockRouted, BlockTimesOut
    <3>3. CASE SendBlock
      <4>1. Tail(chain) # chain
        BY <1>1, <3>3, HeadTailProperties DEF SendBlock
      <4>2. inFlight' = inFlight \/ chain' = chain
        BY <3>3 DEF SendBlock
      <4> QED
        BY <1>2, <3>1, <3>3, <4>1, <4>2 DEF SendBlock, LeaveChain
    <3> QED
      BY <3>2, <3>3
  <2>2. sentKeys' \in {sentKeys, sentKeys \cup {Head(chain)}}
    BY <1>1, <1>2 DEF SendBlock, BlockRouted, BlockTimesOut
  <2> QED
    BY <1>2, <2>1, <2>2, LeaveTyped
<1>3. CASE UNCHANGED chain /\ SendBlock
  <2>1. CASE UNCHANGED <<sentKeys, chain>> /\ inFlight' = TRUE
    <3>1. UNCHANGED <<buffer, audio, seenKeys, aborted>> /\ chain # <<>>
      BY <1>3 DEF SendBlock
    <3>2. PipeTyped(Pipe)'
      BY <2>1, <3>1 DEF PipelineTyped, PipeTyped, Pipe
    <3> QED
      BY <2>1, <3>1, <3>2 DEF PipelineTyped
  <2>2. CASE LeaveChain
    BY <1>2, <2>2
  <2> QED
    BY <1>3, <2>1, <2>2 DEF SendBlock
<1> QED
  BY <1>2, <1>3 DEF SendBlock, BlockRouted, BlockTimesOut

\* Every step keeps the types of the pipeline ...
LEMMA PipelineStep ==
    ASSUME RunTyped, PipelineTyped, [Next]_vars
    PROVE  PipelineTyped'
<1>1. CASE UNCHANGED pipelineVars
  BY <1>1, PipelineSame
<1>2. CASE EmitBlock
  <2>1. said + 1 \in 1..MaxBlocks /\ Enqueue(said + 1)
    <3>1. config.kinds \in Seq({"text", "media", "audio"}) /\ Len(config.kinds) <= MaxBlocks
      BY ConfigsAssumption DEF RunTyped, IsConfig
    <3>2. Len(config.kinds) \in Nat /\ said < Len(config.kinds) /\ Enqueue(said + 1) /\ said \in Nat
      BY <1>2, <3>1, LenProperties DEF EmitBlock, RunTyped
    <3> QED
      BY <3>1, <3>2, BlocksAssumption
  <2> QED
    BY <2>1, EnqueueTyped
<1>3. CASE ToolStarts \/ AgentEnds
  BY <1>3, FlushAllTyped DEF ToolStarts, AgentEnds
<1>4. CASE IdleFlush
  BY <1>4, IdleFlushTyped
<1>5. CASE SendBlock \/ BlockRouted \/ BlockTimesOut
  BY <1>5, SendBlockTyped
<1>6. CASE Signal \/ ToolReports \/ FallBack \/ AgentFails \/ QueuedInstead \/ Throws
  BY <1>1, <1>6 DEF Signal, ToolReports, FallBack, AgentFails, QueuedInstead, Throws
<1>7. CASE ToolTaskEnds \/ Deliver \/ Ends \/ TypingStep
  BY <1>1, <1>7 DEF ToolTaskEnds, Deliver, Ends, RunReturns, SendFinals, DispatchReturns, TypingStep
<1>8. CASE UNCHANGED vars
  BY <1>1, <1>8 DEF vars
<1> QED
  BY <1>2, <1>3, <1>4, <1>5, <1>6, <1>7, <1>8 DEF Next, RunEnds, Settles

\* ... and those of the run.
LEMMA RunStep ==
    ASSUME RunTyped, [Next]_vars
    PROVE  RunTyped'
<1>1. CASE UNCHANGED <<config, runVars, phase>>
  BY <1>1 DEF RunTyped, runVars
<1>2. CASE EmitBlock
  <2>1. config.kinds \in Seq({"text", "media", "audio"}) /\ Len(config.kinds) <= MaxBlocks
    BY ConfigsAssumption DEF RunTyped, IsConfig
  <2>2. said' \in 0..MaxBlocks
    BY <1>2, <2>1, LenProperties, BlocksAssumption DEF EmitBlock, RunTyped
  <2> QED
    BY <1>2, <2>2 DEF EmitBlock, RunTyped
<1>3. CASE FallBack
  BY <1>3, BlocksAssumption, BoundsAssumption DEF FallBack, RunTyped
<1>4. CASE RunEnds \/ Throws
  BY <1>4 DEF RunEnds, AgentEnds, AgentFails, QueuedInstead, Throws, RunTyped, runVars
<1>5. CASE Ends
  BY <1>5 DEF Ends, RunReturns, SendFinals, DispatchReturns, RunTyped, runVars
<1>6. CASE Signal \/ ToolStarts \/ ToolReports \/ IdleFlush
  BY <1>1, <1>6 DEF Signal, ToolStarts, ToolReports, IdleFlush, runVars
<1>7. CASE SendBlock \/ BlockRouted \/ BlockTimesOut \/ ToolTaskEnds \/ Deliver \/ TypingStep
  BY <1>1, <1>7 DEF SendBlock, BlockRouted, BlockTimesOut, ToolTaskEnds, Deliver, TypingStep, runVars
<1>8. CASE UNCHANGED vars
  BY <1>1, <1>8 DEF vars
<1> QED
  BY <1>2, <1>3, <1>4, <1>5, <1>6, <1>7, <1>8 DEF Next, Settles

\* What the run returns: its payloads that were not sent, in their order.
RunPayloadsTyped ==
    /\ RunPayloads \in Seq(Text)
    /\ Len(RunPayloads) = said + (IF withError THEN 1 ELSE 0)
    /\ \A i \in 1..Len(RunPayloads) :
          RunPayloads[i] = IF withError THEN (IF i = 1 THEN <<Error>> ELSE <<i - 1>>) ELSE <<i>>

\* What the run returns are texts of one block each, or the error.
LEMMA RunPayloadsFacts ==
    ASSUME RunTyped
    PROVE  RunPayloadsTyped
<1> DEFINE own == [b \in 1..said |-> <<b>>]
<1>1. said \in Nat /\ said <= MaxBlocks
  BY BlocksAssumption DEF RunTyped
<1>2. ASSUME NEW b \in 1..said PROVE <<b>> \in Text
  <2>1. b \in 0..Error
    BY <1>1, BlocksAssumption DEF Error
  <2> QED
    BY <2>1, TextTypes
<1>3. own \in Seq(Text) /\ Len(own) = said /\ \A b \in 1..said : own[b] = <<b>>
  <2>1. own \in [1..said -> Text]
    BY <1>2
  <2> QED
    BY <1>1, <2>1, IsASeq, LenProperties
<1>4. <<<<Error>>>> \in Seq(Text) /\ Len(<<<<Error>>>>) = 1 /\ <<<<Error>>>>[1] = <<Error>>
  BY TextTypes, BlocksAssumption DEF Error
<1>5. CASE withError
  <2>1. RunPayloads = <<<<Error>>>> \o own
    BY <1>5 DEF RunPayloads
  <2> HIDE DEF own
  <2>2. /\ RunPayloads \in Seq(Text) /\ Len(RunPayloads) = said + 1
        /\ \A i \in 1..(said + 1) : RunPayloads[i] = IF i <= 1 THEN <<<<Error>>>>[i] ELSE own[i - 1]
    BY <1>1, <1>3, <1>4, <2>1, ConcatProperties
  <2> QED
    BY <1>1, <1>3, <1>4, <1>5, <2>2 DEF RunPayloadsTyped
<1>6. CASE ~withError
  <2>1. RunPayloads = <<>> \o own
    BY <1>6 DEF RunPayloads
  <2> HIDE DEF own
  <2>2. RunPayloads = own
    BY <1>3, <2>1, ConcatEmptySeq
  <2> QED
    BY <1>1, <1>3, <1>6, <2>2 DEF RunPayloadsTyped
<1> QED
  BY <1>5, <1>6

--------------------------------------------------------------------------------
(* The final payloads *)

\* The run returns no text twice.
LEMMA RunPayloadsDiffer ==
    ASSUME RunTyped
    PROVE  /\ RunPayloads \in Seq(Text) /\ Len(RunPayloads) \in Nat
           /\ \A i \in 1..Len(RunPayloads) : RunPayloads[i] \in Text
           /\ \A i, j \in 1..Len(RunPayloads) : RunPayloads[i] = RunPayloads[j] => i = j
<1>1. RunPayloadsTyped /\ said \in 0..MaxBlocks
  BY RunPayloadsFacts DEF RunTyped
<1> DEFINE Number(i) == IF withError THEN (IF i = 1 THEN Error ELSE i - 1) ELSE i
<1>2. \A i \in 1..Len(RunPayloads) : RunPayloads[i][1] = Number(i)
  <2> TAKE i \in 1..Len(RunPayloads)
  <2>1. RunPayloads[i] = <<Number(i)>>
    BY <1>1 DEF RunPayloadsTyped
  <2> QED
    BY <2>1
<1>3. ASSUME NEW i \in 1..Len(RunPayloads), NEW j \in 1..Len(RunPayloads), RunPayloads[i] = RunPayloads[j]
      PROVE  i = j
  <2>1. Number(i) = Number(j)
    BY <1>2, <1>3
  <2> QED
    BY <1>1, <2>1, BlocksAssumption DEF RunPayloadsTyped, Error
<1> QED
  BY <1>1, <1>3, LenProperties, ElementOfSeq DEF RunPayloadsTyped

\* What one round of the filter makes of the texts that it kept.
Kept(texts, text) == IF text \in sentKeys THEN texts ELSE Append(texts, text)

\* What the filter of the final payloads keeps round by round it keeps at the end.
LEMMA PayloadLoop ==
    ASSUME RunTyped, ~ShouldDropFinalPayloads, NEW G, <<>> \in G[0],
           \A n \in 1..Len(RunPayloads) : \A q \in Seq(Text) :
               q \in G[n - 1] => Kept(q, RunPayloads[n]) \in G[n]
    PROVE  BuildReplyPayloads \in Seq(Text) /\ BuildReplyPayloads \in G[Len(RunPayloads)]
<1> DEFINE N == Len(RunPayloads)
<1>1. N \in Nat /\ \A n \in 1..N : RunPayloads[n] \in Text
  BY RunPayloadsDiffer
<1>2. \A q \in Seq(Text), k \in Text : Kept(q, k) \in Seq(Text)
  BY AppendProperties DEF Kept
<1> DEFINE step == [n \in 1..N |-> [q \in Seq(Text) |-> Kept(q, RunPayloads[n])]]
<1>3. step \in [1..N -> [Seq(Text) -> Seq(Text)]] /\ <<>> \in Seq(Text)
  BY <1>1, <1>2, TextTypes
<1>4. PICK f \in [0..N -> Seq(Text)] :
         \A n \in 0..N : f[n] = IF n = 0 THEN <<>> ELSE step[n][f[n - 1]]
  <2>1. N \in Nat
    BY <1>1
  <2> HIDE DEF step, N
  <2>2. LoopRuns(Seq(Text), <<>>, N, step)
    BY <1>3, <2>1, LoopExists
  <2> QED
    BY <2>2 DEF LoopRuns
<1>5. f = [n \in 0..N |-> f[n]]
  OBVIOUS
<1>6. ASSUME NEW n \in 1..N PROVE step[n][f[n - 1]] = Kept(f[n - 1], RunPayloads[n])
  <2>1. n - 1 \in 0..N
    BY <1>1
  <2> QED
    BY <2>1
<1>7. f = [n \in 0..N |-> IF n = 0 THEN <<>>
                          ELSE IF RunPayloads[n] \in sentKeys THEN f[n - 1]
                               ELSE Append(f[n - 1], RunPayloads[n])]
  <2>1. \A n \in 0..N : n = 0 \/ n \in 1..N
    BY <1>1
  <2> HIDE DEF step
  <2>2. \A n \in 0..N : f[n] = IF n = 0 THEN <<>>
                               ELSE IF RunPayloads[n] \in sentKeys THEN f[n - 1]
                                    ELSE Append(f[n - 1], RunPayloads[n])
    BY <1>4, <1>6, <2>1 DEF Kept
  <2> HIDE DEF N
  <2> QED
    BY <1>5, <2>2
<1> DEFINE unsent == CHOOSE g : g = [n \in 0..Len(RunPayloads) |->
                        IF n = 0 THEN <<>>
                        ELSE IF RunPayloads[n] \in sentKeys THEN g[n - 1]
                             ELSE Append(g[n - 1], RunPayloads[n])]
<1>8. unsent = [n \in 0..Len(RunPayloads) |->
                        IF n = 0 THEN <<>>
                        ELSE IF RunPayloads[n] \in sentKeys THEN unsent[n - 1]
                             ELSE Append(unsent[n - 1], RunPayloads[n])]
  BY <1>7
<1>9. BuildReplyPayloads = unsent[N]
  BY DEF BuildReplyPayloads
<1> HIDE DEF unsent
<1> DEFINE Fine == {n \in 0..N : unsent[n] \in G[n] /\ unsent[n] \in Seq(Text)}
<1>10. 0 \in Fine
  BY <1>1, <1>3, <1>8
<1>11. ASSUME NEW n \in 1..N, n - 1 \in Fine PROVE n \in Fine
  <2>1. n \in 0..N /\ n # 0
    BY <1>1
  <2>2. unsent[n] = Kept(unsent[n - 1], RunPayloads[n])
    BY <1>8, <2>1 DEF Kept
  <2> QED
    BY <1>1, <1>2, <1>11, <2>1, <2>2
<1>12. N \in Fine
  <2> HIDE DEF Fine, N
  <2> QED
    BY <1>1, <1>10, <1>11, UpTo
<1> QED
  BY <1>9, <1>12

\* The final payloads are the texts of the run that were not sent, in the order of the run.
FinalsOf(F, n) ==
    /\ \A p \in DOMAIN F : \E i \in 1..n : F[p] = RunPayloads[i]
    /\ \A i \in 1..n : RunPayloads[i] \in sentKeys \/ \E p \in DOMAIN F : F[p] = RunPayloads[i]
    /\ \A p \in DOMAIN F, i, j \in 1..n :
          F[p] = RunPayloads[j] /\ i < j /\ RunPayloads[i] \notin sentKeys =>
              \E q \in 1..p : F[q] = RunPayloads[i]

\* One round of the filter: the payloads so far that were not sent, in order.
LEMMA FinalsStep ==
    ASSUME RunTyped, NEW n \in 1..Len(RunPayloads), NEW F \in Seq(Text), FinalsOf(F, n - 1)
    PROVE  FinalsOf(Kept(F, RunPayloads[n]), n)
<1> DEFINE t == RunPayloads[n]
<1>1. /\ Len(RunPayloads) \in Nat /\ t \in Text
      /\ \A i, j \in 1..Len(RunPayloads) : RunPayloads[i] = RunPayloads[j] => i = j
  BY RunPayloadsDiffer
<1>2. \A i \in 1..n : i \in 1..Len(RunPayloads) /\ (i \in 1..(n - 1) \/ i = n)
  BY <1>1
<1>3. \A i \in 1..(n - 1) : i \in 1..n /\ i # n
  BY <1>1
<1>4. DOMAIN F = 1..Len(F) /\ Len(F) \in Nat
  BY LenProperties
<1>5. \A p \in DOMAIN F : F[p] # t
  BY <1>1, <1>2, <1>3 DEF FinalsOf
<1>6. CASE t \in sentKeys
  BY <1>2, <1>3, <1>5, <1>6 DEF FinalsOf, Kept
<1>7. CASE t \notin sentKeys
  <2> DEFINE H == Append(F, t)
  <2>1. /\ DOMAIN H = 1..(Len(F) + 1) /\ H[Len(F) + 1] = t
        /\ \A p \in 1..Len(F) : H[p] = F[p]
    BY <1>1, <1>4, AppendProperties, LenProperties
  <2> HIDE DEF H
  <2>2. \A p \in DOMAIN H : p \in DOMAIN F \/ p = Len(F) + 1
    BY <1>4, <2>1
  <2>3. \A p \in DOMAIN F : p \in DOMAIN H /\ H[p] = F[p] /\ p <= Len(F) /\ p \in 1..(Len(F) + 1)
    BY <1>4, <2>1
  <2>4. Len(F) + 1 \in DOMAIN H
    BY <1>4, <2>1
  <2>5. \A p \in DOMAIN H : \E i \in 1..n : H[p] = RunPayloads[i]
    BY <1>2, <1>3, <2>1, <2>2, <2>3 DEF FinalsOf
  <2>6. \A i \in 1..n : RunPayloads[i] \in sentKeys \/ \E p \in DOMAIN H : H[p] = RunPayloads[i]
    BY <1>2, <2>1, <2>3, <2>4 DEF FinalsOf
  <2>7. ASSUME NEW p \in DOMAIN H, NEW i \in 1..n, NEW j \in 1..n,
               H[p] = RunPayloads[j], i < j, RunPayloads[i] \notin sentKeys
        PROVE  \E q \in 1..p : H[q] = RunPayloads[i]
    <3>1. i \in 1..(n - 1)
      BY <2>7
    <3>2. CASE p \in DOMAIN F
      <4>1. j \in 1..(n - 1) /\ F[p] = RunPayloads[j]
        BY <1>2, <1>5, <2>3, <2>7, <3>2
      <4>2. PICK q \in 1..p : F[q] = RunPayloads[i]
        BY <2>7, <3>1, <3>2, <4>1 DEF FinalsOf
      <4>3. q \in DOMAIN F
        BY <1>4, <3>2
      <4> QED
        BY <2>3, <4>2, <4>3
    <3>3. CASE p = Len(F) + 1
      <4>1. PICK q \in DOMAIN F : F[q] = RunPayloads[i]
        BY <2>7, <3>1 DEF FinalsOf
      <4> QED
        BY <2>3, <3>3, <4>1
    <3> QED
      BY <2>2, <3>2, <3>3
  <2>8. FinalsOf(H, n)
    BY <2>5, <2>6, <2>7 DEF FinalsOf
  <2> QED
    BY <1>7, <2>8 DEF Kept, H
<1> QED
  BY <1>6, <1>7

\* The final payloads are those of the run that were not sent, or none.
LEMMA FinalsFacts ==
    ASSUME RunTyped
    PROVE  /\ BuildReplyPayloads \in Seq(Text)
           /\ \/ ShouldDropFinalPayloads /\ BuildReplyPayloads = <<>>
              \/ ~ShouldDropFinalPayloads /\ FinalsOf(BuildReplyPayloads, Len(RunPayloads))
<1>1. CASE ShouldDropFinalPayloads
  BY <1>1, TextTypes DEF BuildReplyPayloads
<1>2. CASE ~ShouldDropFinalPayloads
  <2> DEFINE N == Len(RunPayloads)
             G == [n \in 0..N |-> {F \in Seq(Text) : FinalsOf(F, n)}]
  <2>1. N \in Nat
    BY RunPayloadsDiffer
  <2>2. <<>> \in G[0]
    BY <2>1, TextTypes DEF FinalsOf
  <2>3. ASSUME NEW n \in 1..N, NEW q \in Seq(Text), q \in G[n - 1]
        PROVE  Kept(q, RunPayloads[n]) \in G[n]
    <3>1. n \in 0..N /\ n - 1 \in 0..N
      BY <2>1
    <3>2. FinalsOf(q, n - 1)
      BY <2>3, <3>1
    <3>3. FinalsOf(Kept(q, RunPayloads[n]), n)
      BY <3>2, FinalsStep
    <3>4. Kept(q, RunPayloads[n]) \in Seq(Text)
      BY RunPayloadsDiffer, AppendProperties DEF Kept
    <3> QED
      BY <3>1, <3>3, <3>4
  <2> HIDE DEF G
  <2>4. BuildReplyPayloads \in Seq(Text) /\ BuildReplyPayloads \in G[N]
    BY <1>2, <2>2, <2>3, PayloadLoop
  <2> QED
    BY <1>2, <2>1, <2>4 DEF G
<1> QED
  BY <1>1, <1>2

--------------------------------------------------------------------------------
(* The payloads that are sent *)

\* A payload has the text and the kind it is made of.
LEMMA PayloadTypes ==
    /\ \A k \in {"tool", "block", "final"}, text \in Text :
          Payload(k, text) \in Payloads /\ Payload(k, text).text = text /\ Payload(k, text).kind = k
    /\ <<ToolResult>> \in Text /\ <<<<Error>>>> \in Seq(Text)
<1>1. <<ToolResult>> \in Text
  BY TextTypes, BlocksAssumption DEF ToolResult, Error
<1>2. <<Error>> \in Text
  BY TextTypes, BlocksAssumption DEF Error
<1> QED
  BY <1>1, <1>2 DEF Payload, Payloads

\* The payloads made of the final texts have these texts.
LEMMA FinalPayloads ==
    ASSUME NEW F \in Seq(Text)
    PROVE  LET P == [i \in DOMAIN F |-> Payload("final", F[i])]
           IN  /\ P \in Seq(Payloads) /\ Len(P) = Len(F)
               /\ \A i \in 1..Len(F) : P[i].text = F[i] /\ P[i].kind = "final"
<1> DEFINE P == [i \in DOMAIN F |-> Payload("final", F[i])]
<1>1. Len(F) \in Nat /\ DOMAIN F = 1..Len(F) /\ \A i \in 1..Len(F) : F[i] \in Text
  BY LenProperties, ElementOfSeq
<1>2. P \in [1..Len(F) -> Payloads]
  BY <1>1, PayloadTypes
<1>3. P \in Seq(Payloads) /\ Len(P) = Len(F)
  BY <1>1, <1>2, IsASeq, LenProperties
<1> QED
  BY <1>1, <1>3, PayloadTypes

\* A sequence that got one more element, or not, is a sequence.
LEMMA MayAppend ==
    ASSUME NEW s \in Seq(Payloads), NEW e \in Payloads, NEW r \in {s, Append(s, e)}
    PROVE  r \in Seq(Payloads) /\ Len(r) \in {Len(s), Len(s) + 1} /\ Len(s) \in Nat
  BY AppendProperties, LenProperties

\* Every step keeps the types of what is sent.
LEMMA SendStep ==
    ASSUME RunTyped, PipelineTyped, SendTyped, [Next]_vars
    PROVE  SendTyped'
<1>1. CASE UNCHANGED <<toolVars, sendVars>>
  BY <1>1 DEF SendTyped, toolVars, sendVars
<1>2. CASE ToolReports
  BY <1>2, BoundsAssumption DEF ToolReports, SendTyped, sendVars
<1>3. CASE SendBlock
  <2>1. Head(chain) \in Text
    BY <1>3, HeadTailProperties DEF SendBlock, PipelineTyped, PipeTyped, Pipe, Pipes
  <2>2. Payload("block", Head(chain)) \in Payloads
    BY <2>1, PayloadTypes
  <2>3. /\ queue' \in {queue, Append(queue, Payload("block", Head(chain)))}
        /\ tried' \in {tried, Append(tried, Payload("block", Head(chain)))}
        /\ UNCHANGED <<toolVars, awaited, finals>>
    BY <1>3 DEF SendBlock
  <2>4. /\ queue' \in Seq(Payloads) /\ tried' \in Seq(Payloads)
        /\ Len(queue') \in {Len(queue), Len(queue) + 1}
    BY <2>2, <2>3, MayAppend DEF SendTyped
  <2> QED
    BY <2>3, <2>4, LenProperties DEF SendTyped, toolVars
<1>4. CASE ToolTaskEnds
  <2> DEFINE t == Payload("tool", <<ToolResult>>)
  <2>1. t \in Payloads
    BY PayloadTypes
  <2>2. queue' \in {queue, Append(queue, t)} /\ tried' \in {tried, Append(tried, t)}
    BY <1>4 DEF ToolTaskEnds
  <2> HIDE DEF t
  <2>3. /\ queue' \in Seq(Payloads) /\ tried' \in Seq(Payloads)
        /\ Len(queue') \in {Len(queue), Len(queue) + 1}
    BY <2>1, <2>2, MayAppend DEF SendTyped
  <2>4. toolTasks > 0 /\ toolTasks' = toolTasks - 1 /\ UNCHANGED <<toolCalls, awaited, finals>>
    BY <1>4 DEF ToolTaskEnds
  <2>5. Len(queue) \in Nat
    BY LenProperties DEF SendTyped
  <2>6. awaited' \in 0..Len(queue')
    BY <2>3, <2>4, <2>5 DEF SendTyped
  <2>7. toolTasks' \in 0..toolCalls' /\ toolCalls' \in 0..MaxTools
    BY <2>4, BoundsAssumption DEF SendTyped
  <2> QED
    BY <2>3, <2>4, <2>6, <2>7 DEF SendTyped
<1>5. CASE Deliver
  <2>1. /\ queue # <<>> /\ queue' = Tail(queue) /\ tried' = Append(tried, Head(queue))
        /\ awaited' = (IF awaited = 0 THEN 0 ELSE awaited - 1) /\ UNCHANGED <<toolVars, finals>>
    BY <1>5 DEF Deliver
  <2>2. queue' \in Seq(Payloads) /\ Len(queue') = Len(queue) - 1 /\ Len(queue) \in Nat \ {0}
    BY <2>1, HeadTailProperties, LenProperties, EmptySeq DEF SendTyped
  <2>3. tried' \in Seq(Payloads)
    BY <2>1, HeadTailProperties, AppendProperties DEF SendTyped
  <2> QED
    BY <2>1, <2>2, <2>3 DEF SendTyped, toolVars
<1>6. CASE AgentFails
  BY <1>6, PayloadTypes DEF AgentFails, SendTyped, toolVars
<1>7. CASE RunReturns
  BY <1>7, FinalsFacts DEF RunReturns, SendTyped, toolVars
<1>8. CASE SendFinals
  <2> DEFINE P == [i \in DOMAIN finals |-> Payload("final", finals[i])]
  <2>1. P \in Seq(Payloads)
    BY FinalPayloads DEF SendTyped
  <2>2. UNCHANGED toolVars
    BY <1>8 DEF SendFinals
  <2>3. CASE finals # <<>> /\ tried' = Append(tried, Payload("final", Head(finals)))
              /\ finals' = Tail(finals) /\ UNCHANGED <<queue, awaited>>
    <3>1. Head(finals) \in Text /\ finals' \in Seq(Text)
      BY <2>3, HeadTailProperties DEF SendTyped
    <3>2. tried' \in Seq(Payloads)
      BY <2>3, <3>1, PayloadTypes, AppendProperties DEF SendTyped
    <3> QED
      BY <2>2, <2>3, <3>1, <3>2 DEF SendTyped, toolVars
  <2>4. CASE queue' = queue \o P /\ awaited' = Len(queue') /\ finals' = <<>> /\ UNCHANGED tried
    <3> HIDE DEF P
    <3>1. queue' \in Seq(Payloads) /\ Len(queue') \in Nat
      BY <2>1, <2>4, ConcatProperties, LenProperties DEF SendTyped
    <3> QED
      BY <2>2, <2>4, <3>1, TextTypes DEF SendTyped, toolVars
  <2> QED
    BY <1>8, <2>3, <2>4 DEF SendFinals
<1>9. CASE EmitBlock \/ Signal \/ ToolStarts \/ FallBack \/ IdleFlush \/ AgentEnds \/ QueuedInstead \/ Throws
  BY <1>1, <1>9 DEF EmitBlock, Signal, ToolStarts, FallBack, IdleFlush, AgentEnds, QueuedInstead, Throws
<1>10. CASE BlockRouted \/ BlockTimesOut \/ DispatchReturns \/ TypingStep \/ UNCHANGED vars
  BY <1>1, <1>10 DEF BlockRouted, BlockTimesOut, DispatchReturns, TypingStep, vars
<1> QED
  BY <1>2, <1>3, <1>4, <1>5, <1>6, <1>7, <1>8, <1>9, <1>10 DEF Next, RunEnds, Settles, Ends

--------------------------------------------------------------------------------
(* The types of the typing controller *)

\* Each interval has a call of its own behind it, and only the first call may add to the bound.
IntervalsOK ==
    /\ intervals + resuming <= MaxIntervals + 1
    /\ waiting => intervals + resuming <= MaxIntervals
TypingBooleans ==
    /\ started \in BOOLEAN /\ active \in BOOLEAN /\ runComplete \in BOOLEAN
    /\ dispatchIdle \in BOOLEAN /\ sealed \in BOOLEAN /\ typingTimer \in BOOLEAN
    /\ ttlTimer \in BOOLEAN /\ waiting \in BOOLEAN
    /\ active => started /\ ~sealed
TypingCounts ==
    /\ intervals \in 0..MaxIntervals + 1 /\ resuming \in 0..MaxIntervals
    /\ typingTimer => intervals > 0
    /\ IntervalsOK
TypingTyped == TypingBooleans /\ TypingCounts

\* The types of the indicator, and those of its intervals.
LEMMA PartsOfTyping == TypingTyped <=> TypingTypeOK /\ IntervalsOK
  BY DEF TypingTyped, TypingTypeOK, TypingBooleans, TypingCounts

\* The operations of the indicator keep its types: the clean-up ...
LEMMA CleanupTyped ==
    ASSUME TypingTyped, Cleanup
    PROVE  TypingTyped'
<1>1. TypingBooleans'
  <2>1. CASE UNCHANGED typingVars
    BY <2>1 DEF TypingTyped, TypingBooleans, typingVars
  <2>2. CASE /\ sealed' = TRUE /\ typingTimer' = FALSE /\ ttlTimer' = FALSE
             /\ started' = FALSE /\ active' = FALSE /\ runComplete' = FALSE
             /\ dispatchIdle' = FALSE /\ waiting' = waiting
    <3>1. waiting \in BOOLEAN
      BY DEF TypingTyped, TypingBooleans
    <3> QED
      BY <2>2, <3>1 DEF TypingBooleans
  <2> QED
    BY <2>1, <2>2 DEF Cleanup
<1>2. CASE sealed /\ UNCHANGED typingVars
  BY <1>1, <1>2 DEF TypingTyped, TypingCounts, IntervalsOK, typingVars
<1>3. CASE /\ ~typingTimer' /\ UNCHANGED <<waiting, resuming>>
           /\ intervals' = IF typingTimer THEN intervals - 1 ELSE intervals
  <2>1. /\ intervals \in 0..MaxIntervals + 1 /\ (typingTimer => intervals > 0) /\ resuming \in 0..MaxIntervals
        /\ intervals + resuming <= MaxIntervals + 1 /\ (waiting => intervals + resuming <= MaxIntervals)
    BY DEF TypingTyped, TypingCounts, IntervalsOK
  <2>2. intervals' \in 0..MaxIntervals + 1 /\ intervals' <= intervals
    BY <1>3, <2>1, MaxIntervalsAssumption
  <2>3. TypingCounts'
    BY <1>3, <2>1, <2>2, MaxIntervalsAssumption DEF TypingCounts, IntervalsOK
  <2> QED
    BY <1>1, <2>3 DEF TypingTyped
<1> QED
  BY <1>2, <1>3 DEF Cleanup

\* ... the two marks ...
LEMMA MarksTyped ==
    ASSUME TypingTyped, MarkRunComplete \/ MarkDispatchIdle
    PROVE  TypingTyped'
<1>1. CASE Cleanup
  BY <1>1, CleanupTyped
<1>2. CASE UNCHANGED <<typingTimer, intervals, waiting, resuming>> /\ TypingBooleans'
  BY <1>2 DEF TypingTyped, TypingCounts, IntervalsOK
<1>3. CASE ~Cleanup
  <2>1. UNCHANGED <<started, active, sealed, typingTimer, ttlTimer, intervals, waiting, resuming>>
    BY <1>3 DEF MarkRunComplete, MarkDispatchIdle
  <2>2. runComplete' \in BOOLEAN /\ dispatchIdle' \in BOOLEAN
    BY <1>3 DEF MarkRunComplete, MarkDispatchIdle, TypingTyped, TypingBooleans
  <2>3. TypingBooleans'
    BY <2>1, <2>2 DEF TypingTyped, TypingBooleans
  <2> QED
    BY <1>2, <2>1, <2>3
<1> QED
  BY <1>1, <1>3

\* ... a signal of the run ...
LEMMA SignalTyped ==
    ASSUME IInv, TypingTyped, StartTypingLoop \/ RefreshTypingTtl \/ UNCHANGED typingVars
    PROVE  TypingTyped'
<1>1. CASE UNCHANGED typingVars
  BY <1>1 DEF TypingTyped, TypingBooleans, TypingCounts, IntervalsOK, typingVars
<1>2. CASE RefreshTypingTtl
  BY <1>2 DEF TypingTyped, TypingBooleans, TypingCounts, IntervalsOK, RefreshTypingTtl
<1>3. CASE StartTypingLoop /\ MayStart
  <2>1. ~started /\ ~sealed => ~waiting /\ intervals = 0 /\ resuming = 0
    BY DEF IInv, ActiveOK, TypingTyped, TypingBooleans
  <2>2. TypingBooleans'
    <3>1. /\ ttlTimer' = TRUE /\ UNCHANGED <<runComplete, dispatchIdle, sealed, typingTimer, intervals>>
          /\ \/ UNCHANGED <<started, active, waiting>>
             \/ started' = TRUE /\ active' = TRUE /\ waiting' = TRUE
      BY <1>3 DEF StartTypingLoop
    <3>2. CASE UNCHANGED <<started, active, waiting>>
      BY <3>1, <3>2 DEF TypingTyped, TypingBooleans
    <3>3. CASE started' = TRUE /\ active' = TRUE /\ waiting' = TRUE
      BY <1>3, <3>1, <3>3 DEF TypingTyped, TypingBooleans, MayStart
    <3> QED
      BY <3>1, <3>2, <3>3
  <2>3. /\ intervals \in 0..MaxIntervals + 1 /\ (typingTimer => intervals > 0) /\ resuming \in 0..MaxIntervals
        /\ intervals + resuming <= MaxIntervals + 1 /\ (waiting => intervals + resuming <= MaxIntervals)
        /\ UNCHANGED <<typingTimer, intervals>>
    BY <1>3 DEF TypingTyped, TypingCounts, IntervalsOK, StartTypingLoop
  <2>4. CASE UNCHANGED <<waiting, resuming>>
    BY <2>2, <2>3, <2>4 DEF TypingTyped, TypingCounts, IntervalsOK
  <2>5. CASE ~started /\ UNCHANGED resuming
    BY <1>3, <2>1, <2>2, <2>3, <2>5, MaxIntervalsAssumption DEF MayStart, TypingTyped, TypingCounts, IntervalsOK
  <2>6. CASE intervals + resuming < MaxIntervals /\ resuming' = resuming + 1 /\ UNCHANGED waiting
    <3>1. /\ resuming' \in 0..MaxIntervals /\ intervals + resuming' <= MaxIntervals
      BY <2>3, <2>6, MaxIntervalsAssumption
    <3>2. TypingCounts'
      BY <2>3, <2>6, <3>1, MaxIntervalsAssumption DEF TypingCounts, IntervalsOK
    <3> QED
      BY <2>2, <3>2 DEF TypingTyped
  <2> QED
    BY <1>3, <2>4, <2>5, <2>6 DEF StartTypingLoop
<1> QED
  BY <1>1, <1>2, <1>3 DEF StartTypingLoop

\* ... and what a timer or an answer goes on with.
LEMMA ContinuationTyped ==
    ASSUME TypingTyped, TypingSteps
    PROVE  TypingTyped'
<1>1. /\ intervals \in 0..MaxIntervals + 1 /\ resuming \in 0..MaxIntervals
      /\ intervals + resuming <= MaxIntervals + 1 /\ (waiting => intervals + resuming <= MaxIntervals)
      /\ MaxIntervals \in Nat
  BY MaxIntervalsAssumption DEF TypingTyped, TypingCounts, IntervalsOK
<1>2. CASE ChatAnswers
  <2>1. TypingBooleans'
    BY <1>2 DEF ChatAnswers, SetInterval, TypingTyped, TypingBooleans
  <2>2. ~waiting' /\ resuming' = resuming /\ intervals' = intervals + 1 /\ waiting
    BY <1>2 DEF ChatAnswers, SetInterval
  <2>3. TypingCounts'
    BY <1>1, <2>2 DEF TypingCounts, IntervalsOK
  <2> QED
    BY <2>1, <2>3 DEF TypingTyped
<1>3. CASE ChatRefuses
  <2>1. TypingBooleans'
    BY <1>3 DEF ChatRefuses, TypingTyped, TypingBooleans
  <2>2. ~waiting' /\ UNCHANGED <<resuming, intervals, typingTimer>>
    BY <1>3 DEF ChatRefuses
  <2>3. TypingCounts'
    BY <2>2 DEF TypingTyped, TypingCounts, IntervalsOK
  <2> QED
    BY <2>1, <2>3 DEF TypingTyped
<1>4. CASE LoopResumes
  <2>1. TypingBooleans'
    BY <1>4 DEF LoopResumes, SetInterval, TypingTyped, TypingBooleans
  <2>2. resuming > 0 /\ resuming' = resuming - 1 /\ intervals' = intervals + 1 /\ UNCHANGED waiting
    BY <1>4 DEF LoopResumes, SetInterval
  <2>3. resuming' \in 0..MaxIntervals /\ intervals' \in 1..MaxIntervals + 1 /\ intervals' + resuming' = intervals + resuming
    BY <1>1, <2>2
  <2>4. TypingCounts'
    BY <1>1, <2>2, <2>3 DEF TypingCounts, IntervalsOK
  <2> QED
    BY <2>1, <2>4 DEF TypingTyped
<1>5. CASE TtlFires
  <2>1. CASE Cleanup
    BY <2>1, CleanupTyped
  <2>2. CASE ~typingTimer
    BY <1>5, <2>2 DEF TtlFires, TypingTyped, TypingBooleans, TypingCounts, IntervalsOK
  <2> QED
    BY <1>5, <2>1, <2>2 DEF TtlFires
<1> QED
  BY <1>2, <1>3, <1>4, <1>5 DEF TypingSteps

\* Every step keeps the types of the indicator.
LEMMA TypingStepTyped ==
    ASSUME IInv, TypingTyped, [Next]_vars
    PROVE  TypingTyped'
<1>1. CASE UNCHANGED typingVars
  BY <1>1, SignalTyped
<1>2. CASE EmitBlock \/ Signal \/ ToolStarts \/ ToolReports
  BY <1>2, SignalTyped DEF EmitBlock, Signal, ToolStarts, ToolReports, SignalTyping
<1>3. CASE AgentFails \/ RunReturns \/ Throws \/ QueuedInstead
  BY <1>1, <1>3, CleanupTyped, MarksTyped DEF AgentFails, RunReturns, Throws, QueuedInstead
<1>4. CASE Deliver \/ DispatchReturns
  BY <1>1, <1>4, MarksTyped DEF Deliver, DispatchReturns
<1>5. CASE TypingStep
  BY <1>5, ContinuationTyped DEF TypingStep
<1>6. CASE FallBack \/ IdleFlush \/ AgentEnds \/ SendBlock \/ BlockRouted \/ BlockTimesOut
  BY <1>1, <1>6 DEF FallBack, IdleFlush, AgentEnds, SendBlock, BlockRouted, BlockTimesOut
<1>7. CASE ToolTaskEnds \/ SendFinals \/ UNCHANGED vars
  BY <1>1, <1>7 DEF ToolTaskEnds, SendFinals, vars
<1> QED
  BY <1>2, <1>3, <1>4, <1>5, <1>6, <1>7 DEF Next, RunEnds, Settles, Ends

\* The initial states are well typed.
LEMMA TypedInit == Init => ReplyTyped /\ TypingTyped
<1> SUFFICES ASSUME Init PROVE ReplyTyped /\ TypingTyped
  OBVIOUS
<1>1. IsInjective(<<>>)
  BY DEF IsInjective
<1>2. PipeTyped(Pipe)
  BY <1>1, TextTypes DEF Init, PipeTyped, Pipe, Pipes
<1>3. PipelineTyped
  BY <1>1, <1>2, TextTypes DEF Init, PipelineTyped
<1>4. RunTyped
  <2>1. 1 \in 1..MaxAttempts /\ 0 \in 0..MaxBlocks
    BY BlocksAssumption, BoundsAssumption
  <2> QED
    BY <2>1 DEF Init, RunTyped
<1>5. SendTyped
  <2>1. /\ toolTasks = 0 /\ toolCalls = 0 /\ awaited = 0
        /\ queue = <<>> /\ tried = <<>> /\ finals = <<>>
    BY DEF Init
  <2>2. 0 \in 0..MaxTools /\ 0 \in 0..0
    BY BoundsAssumption
  <2>3. <<>> \in Seq(Payloads) /\ <<>> \in Seq(Text) /\ Len(<<>>) = 0
    OBVIOUS
  <2> QED
    BY <2>1, <2>2, <2>3 DEF SendTyped
<1>6. TypingTyped
  <2>1. TypingInit
    BY DEF Init
  <2>2. TypingBooleans
    BY <2>1 DEF TypingInit, TypingBooleans
  <2>3. TypingCounts
    BY <2>1, MaxIntervalsAssumption DEF TypingInit, TypingCounts, IntervalsOK
  <2> QED
    BY <2>2, <2>3 DEF TypingTyped
<1> QED
  BY <1>3, <1>4, <1>5, <1>6 DEF ReplyTyped

\* The reply keeps its types.
LEMMA Typed == Spec => []ReplyTyped
<1>1. ReplyTyped /\ [Next]_vars => ReplyTyped'
  BY RunStep, PipelineStep, SendStep DEF ReplyTyped
<1> QED
  BY <1>1, TypedInit, PTL DEF Spec

\* The state keeps its types; a text is marked as sent only after it was seen.
THEOREM TypeCorrect == Spec => []TypeOK
<1>1. IInv /\ TypingTyped /\ [Next]_vars => TypingTyped'
  BY TypingStepTyped
<1>2. ReplyTyped /\ TypingTyped => TypeOK
  BY PartsOfTypeOK, PartsOfTyping
<1> QED
  BY <1>1, <1>2, TypedInit, Typed, Invariance, PTL DEF Spec

--------------------------------------------------------------------------------
(* A line of texts and the blocks they carry *)

BlocksOf(c) == DOMAIN c.kinds
\* The blocks that are sent in turn; audio waits for the end.
InTurn(c) == {b \in BlocksOf(c) : c.kinds[b] # "audio"}
Repeats(c, a) == c.coalescing /\ a > 1

Has(text, b) == b \in ToSet(text)
OnLine(L, b) == \E p \in DOMAIN L : Has(L[p], b)
TextOnLine(L, text) == \E p \in DOMAIN L : L[p] = text

\* Whatever is carried, all blocks before it are carried there or before.
InOrder(c, L) ==
    \A p \in DOMAIN L, x, y \in InTurn(c) :
        x < y /\ Has(L[p], y) => \E q \in 1..p : Has(L[q], x)
\* No block is carried twice.
Once(c, L) ==
    \A p, q \in DOMAIN L, b \in BlocksOf(c) : Has(L[p], b) /\ Has(L[q], b) => p = q

One(b) == <<b>>

\* A text of one block has that block and no other.
LEMMA OneFacts ==
    /\ \A b, x : Has(One(b), x) <=> x = b
    /\ \A b \in 0..Error : One(b) \in Text
<1>1. \A b, x : Has(One(b), x) <=> x = b
  BY SetOfOne DEF Has, One
<1> QED
  BY <1>1, TextTypes DEF One

\* What a line carries when a text joins it, and when it stays in order and without repeats.
LEMMA AppendLine ==
    ASSUME NEW L \in Seq(Text), NEW t \in Text
    PROVE  /\ Append(L, t) \in Seq(Text)
           /\ \A b : OnLine(Append(L, t), b) <=> OnLine(L, b) \/ Has(t, b)
           /\ \A s : TextOnLine(Append(L, t), s) <=> TextOnLine(L, s) \/ s = t
           /\ \A c : /\ InOrder(c, L)
                     /\ \A x, y \in InTurn(c) : x < y /\ Has(t, y) => OnLine(L, x) \/ Has(t, x)
                     => InOrder(c, Append(L, t))
           /\ \A c : /\ Once(c, L)
                     /\ \A b \in BlocksOf(c) : Has(t, b) => ~OnLine(L, b)
                     => Once(c, Append(L, t))
<1> DEFINE M == Append(L, t)
<1>1. /\ M \in Seq(Text) /\ DOMAIN M = 1..(Len(L) + 1) /\ DOMAIN L = 1..Len(L) /\ Len(L) \in Nat
      /\ M[Len(L) + 1] = t /\ \A p \in 1..Len(L) : M[p] = L[p]
  BY AppendProperties, LenProperties
<1> HIDE DEF M
<1>2. \A p \in DOMAIN M : p \in DOMAIN L \/ p = Len(L) + 1
  BY <1>1
<1>3. Len(L) + 1 \in DOMAIN M /\ \A p \in DOMAIN L : p \in DOMAIN M /\ p # Len(L) + 1 /\ p \in 1..(Len(L) + 1)
  BY <1>1
<1>4. \A b : OnLine(M, b) <=> OnLine(L, b) \/ Has(t, b)
  BY <1>1, <1>2, <1>3 DEF OnLine
<1>5. \A s : TextOnLine(M, s) <=> TextOnLine(L, s) \/ s = t
  BY <1>1, <1>2, <1>3 DEF TextOnLine
<1>6. ASSUME NEW c, InOrder(c, L),
             \A x, y \in InTurn(c) : x < y /\ Has(t, y) => OnLine(L, x) \/ Has(t, x)
      PROVE  InOrder(c, M)
  <2> SUFFICES ASSUME NEW p \in DOMAIN M, NEW x \in InTurn(c), NEW y \in InTurn(c), x < y, Has(M[p], y)
               PROVE  \E q \in 1..p : Has(M[q], x)
    BY DEF InOrder
  <2>1. CASE p \in DOMAIN L
    <3>1. PICK q \in 1..p : Has(L[q], x)
      BY <1>1, <1>6, <2>1 DEF InOrder
    <3>2. q \in 1..Len(L)
      BY <1>1, <2>1
    <3> QED
      BY <1>1, <3>1, <3>2
  <2>2. CASE p = Len(L) + 1
    <3>1. OnLine(L, x) \/ Has(t, x)
      BY <1>1, <1>6, <2>2
    <3>2. CASE OnLine(L, x)
      <4>1. PICK q \in DOMAIN L : Has(L[q], x)
        BY <3>2 DEF OnLine
      <4> QED
        BY <1>1, <1>3, <2>2, <4>1
    <3>3. CASE Has(t, x)
      BY <1>1, <2>2, <3>3
    <3> QED
      BY <3>1, <3>2, <3>3
  <2> QED
    BY <1>2, <2>1, <2>2
<1>7. ASSUME NEW c, Once(c, L), \A b \in BlocksOf(c) : Has(t, b) => ~OnLine(L, b)
      PROVE  Once(c, M)
  <2> SUFFICES ASSUME NEW p \in DOMAIN M, NEW q \in DOMAIN M, NEW b \in BlocksOf(c),
                      Has(M[p], b), Has(M[q], b)
               PROVE  p = q
    BY DEF Once
  <2>1. CASE p \in DOMAIN L /\ q \in DOMAIN L
    BY <1>1, <1>7, <2>1 DEF Once
  <2>2. CASE p = Len(L) + 1 \/ q = Len(L) + 1
    <3>1. Has(t, b)
      BY <1>1, <2>2
    <3>2. \A r \in DOMAIN L : ~Has(M[r], b)
      BY <1>1, <1>7, <3>1 DEF OnLine
    <3> QED
      BY <1>2, <2>2, <3>2
  <2> QED
    BY <1>2, <2>1, <2>2
<1> QED
  BY <1>1, <1>4, <1>5, <1>6, <1>7 DEF M

--------------------------------------------------------------------------------
(***************************************************************************)
(* What the pipeline knows of the line while it may go on.  L: the texts   *)
(* that are on the line; S: those that were seen; B: the blocks that wait  *)
(* to be merged; A: the audio that waits; n: the blocks said so far.       *)
(* What was seen is on the line or waits; what was said is on the line or  *)
(* waits, and not both unless an attempt says it again; a merged text      *)
(* never overtakes what was said before it.                                *)
(***************************************************************************)

Track(c, a, L, S, B, A, n) ==
    /\ InOrder(c, L)
    /\ ~Repeats(c, a) => Once(c, L)
    /\ B \subseteq InTurn(c)
    /\ \A t \in S : TextOnLine(L, t) \/ t \in A
    /\ A \subseteq S /\ \A t \in A : \E b \in BlocksOf(c) \ InTurn(c) : t = One(b)
    /\ \A b \in 1..n : OnLine(L, b) \/ b \in B \/ One(b) \in A
    /\ \A y \in B, x \in InTurn(c) : x < y => OnLine(L, x) \/ x \in B
    /\ ~Repeats(c, a) => \A b \in BlocksOf(c) : OnLine(L, b) => b \notin B /\ One(b) \notin A
    /\ ~c.coalescing => B = {} /\ \A b \in BlocksOf(c) : OnLine(L, b) => One(b) \in S
    /\ a = 1 => \A b \in BlocksOf(c) : OnLine(L, b) \/ b \in B \/ One(b) \in A => b <= n

\* The text that waited is handed over.
LEMMA TrackFlush ==
    ASSUME NEW c, NEW a \in Nat \ {0}, NEW L \in Seq(Text), NEW S, NEW B, NEW A, NEW n \in Nat,
           Track(c, a, L, S, B, A, n), BlocksOf(c) \subseteq Nat \ {0},
           NEW t \in Text, ToSet(t) = B, t \notin S
    PROVE  Track(c, a, Append(L, t), S \cup {t}, {}, A, n)
<1> DEFINE M == Append(L, t)
<1>1. InTurn(c) \subseteq BlocksOf(c)
  BY DEF InTurn
<1>2. \A b : Has(t, b) <=> b \in B
  BY DEF Has
<1>3. /\ \A b : OnLine(M, b) <=> OnLine(L, b) \/ b \in B
      /\ \A s : TextOnLine(M, s) <=> TextOnLine(L, s) \/ s = t
  BY <1>2, AppendLine
<1>4. InOrder(c, M)
  BY <1>2, AppendLine DEF Track
<1>5. ~Repeats(c, a) => Once(c, M)
  BY <1>1, <1>2, AppendLine DEF Track
<1> HIDE DEF M
<1>6. ~Repeats(c, a) => \A b \in BlocksOf(c) : OnLine(M, b) => One(b) \notin A
  <2>1. \A b \in B : One(b) \notin A
    <3> SUFFICES ASSUME NEW b \in B, One(b) \in A PROVE FALSE
      OBVIOUS
    <3>1. PICK d \in BlocksOf(c) \ InTurn(c) : One(b) = One(d)
      BY DEF Track
    <3>2. b = d
      BY <3>1, OneFacts
    <3> QED
      BY <3>1, <3>2 DEF Track
  <2> QED
    BY <1>3, <2>1 DEF Track
<1>7. ~c.coalescing => \A b \in BlocksOf(c) : OnLine(M, b) => One(b) \in S
  BY <1>3 DEF Track
<1> QED
  BY <1>3, <1>4, <1>5, <1>6, <1>7 DEF Track, M

\* The text that waited was handed over before.
LEMMA TrackFlushSeen ==
    ASSUME NEW c, NEW a \in Nat \ {0}, NEW L \in Seq(Text), NEW S, NEW B, NEW A, NEW n \in Nat,
           Track(c, a, L, S, B, A, n), BlocksOf(c) \subseteq Nat \ {0},
           NEW t \in Text, ToSet(t) = B, B # {}, t \in S
    PROVE  Track(c, a, L, S, {}, A, n)
<1>1. TextOnLine(L, t)
  <2> SUFFICES ASSUME t \in A PROVE FALSE
    BY DEF Track
  <2>1. PICK b \in BlocksOf(c) \ InTurn(c) : t = One(b)
    BY DEF Track
  <2>2. b \in B
    BY <2>1, OneFacts DEF Has
  <2> QED
    BY <2>1, <2>2 DEF Track
<1>2. \A b \in B : OnLine(L, b)
  BY <1>1 DEF TextOnLine, OnLine, Has
<1> QED
  BY <1>2 DEF Track

\* A block that was seen, or that waits, is said again.
LEMMA TrackSeen ==
    ASSUME NEW c, NEW a \in Nat \ {0}, NEW L \in Seq(Text), NEW S, NEW B, NEW A, NEW n \in Nat,
           Track(c, a, L, S, B, A, n), BlocksOf(c) \subseteq Nat \ {0},
           One(n + 1) \in S \/ n + 1 \in B
    PROVE  Track(c, a, L, S, B, A, n + 1)
<1>1. OnLine(L, n + 1) \/ n + 1 \in B \/ One(n + 1) \in A
  BY OneFacts DEF Track, TextOnLine, OnLine
<1>2. \A b \in 1..(n + 1) : b \in 1..n \/ b = n + 1
  OBVIOUS
<1>3. \A b \in BlocksOf(c) : b <= n => b <= n + 1
  OBVIOUS
<1> QED
  BY <1>1, <1>2, <1>3 DEF Track

\* A new block is handed over at once, when nothing waits to be merged.
LEMMA TrackOne ==
    ASSUME NEW c, NEW a \in Nat \ {0}, NEW L \in Seq(Text), NEW S, NEW A, NEW n \in Nat,
           Track(c, a, L, S, {}, A, n), BlocksOf(c) \subseteq Nat \ {0},
           One(n + 1) \in Text, n + 1 \in InTurn(c), One(n + 1) \notin S
    PROVE  Track(c, a, Append(L, One(n + 1)), S \cup {One(n + 1)}, {}, A, n + 1)
<1> DEFINE t == One(n + 1)
           M == Append(L, t)
<1>1. InTurn(c) \subseteq BlocksOf(c)
  BY DEF InTurn
<1>2. \A b : Has(t, b) <=> b = n + 1
  BY OneFacts
<1>3. /\ \A b : OnLine(M, b) <=> OnLine(L, b) \/ b = n + 1
      /\ \A s : TextOnLine(M, s) <=> TextOnLine(L, s) \/ s = t
  BY <1>2, AppendLine
<1>4. ~Repeats(c, a) => ~OnLine(L, n + 1)
  BY <1>1 DEF Track, Repeats
<1>5. \A t1 \in A : \E b \in BlocksOf(c) \ InTurn(c) : t1 = One(b)
  BY DEF Track
<1>6. \A b \in InTurn(c) : One(b) \notin A
  BY <1>5, OneFacts
<1>7. \A x \in InTurn(c) : x < n + 1 => OnLine(L, x) \/ Has(t, x)
  <2> TAKE x \in InTurn(c)
  <2>1. x < n + 1 => x \in 1..n
    BY <1>1
  <2> QED
    BY <1>6, <2>1 DEF Track
<1>8. InOrder(c, M)
  <2>1. \A x, y \in InTurn(c) : x < y /\ Has(t, y) => OnLine(L, x) \/ Has(t, x)
    BY <1>2, <1>7
  <2> QED
    BY <2>1, AppendLine DEF Track
<1>9. ~Repeats(c, a) => Once(c, M)
  BY <1>2, <1>4, AppendLine DEF Track
<1> HIDE DEF M
<1>10. \A b \in 1..(n + 1) : OnLine(M, b) \/ One(b) \in A
  <2>1. \A b \in 1..(n + 1) : b \in 1..n \/ b = n + 1
    OBVIOUS
  <2> QED
    BY <1>3, <2>1 DEF Track
<1>11. ~Repeats(c, a) => \A b \in BlocksOf(c) : OnLine(M, b) => One(b) \notin A
  BY <1>3, <1>6 DEF Track
<1>12. ~c.coalescing => \A b \in BlocksOf(c) : OnLine(M, b) => One(b) \in S \cup {t}
  BY <1>3 DEF Track
<1>13. a = 1 => \A b \in BlocksOf(c) : OnLine(M, b) \/ One(b) \in A => b <= n + 1
  <2> SUFFICES ASSUME a = 1, NEW b \in BlocksOf(c), OnLine(M, b) \/ One(b) \in A PROVE b <= n + 1
    OBVIOUS
  <2>1. b = n + 1 \/ b <= n
    BY <1>3 DEF Track
  <2> QED
    BY <2>1
<1> QED
  BY <1>3, <1>8, <1>9, <1>10, <1>11, <1>12, <1>13 DEF Track, M

\* A new block joins what waits to be merged.
LEMMA TrackMerge ==
    ASSUME NEW c, NEW a \in Nat \ {0}, NEW L \in Seq(Text), NEW S, NEW B, NEW A, NEW n \in Nat,
           Track(c, a, L, S, B, A, n), BlocksOf(c) \subseteq Nat \ {0},
           c.coalescing, n + 1 \in InTurn(c)
    PROVE  Track(c, a, L, S, B \cup {n + 1}, A, n + 1)
<1>1. InTurn(c) \subseteq BlocksOf(c)
  BY DEF InTurn
<1>2. \A b \in InTurn(c) : One(b) \notin A
  BY OneFacts DEF Track
<1>3. ~Repeats(c, a) => ~OnLine(L, n + 1)
  BY <1>1 DEF Track, Repeats
<1>4. \A b \in 1..(n + 1) : b \in 1..n \/ b = n + 1
  OBVIOUS
<1>5. \A y \in B \cup {n + 1}, x \in InTurn(c) : x < y => OnLine(L, x) \/ x \in B
  <2> SUFFICES ASSUME NEW x \in InTurn(c), x < n + 1 PROVE OnLine(L, x) \/ x \in B
    BY DEF Track
  <2>1. x \in 1..n
    BY <1>1
  <2> QED
    BY <1>2, <2>1 DEF Track
<1>6. a = 1 => \A b \in BlocksOf(c) : OnLine(L, b) \/ b \in B \cup {n + 1} \/ One(b) \in A => b <= n + 1
  <2> SUFFICES ASSUME a = 1, NEW b \in BlocksOf(c), OnLine(L, b) \/ b \in B \cup {n + 1} \/ One(b) \in A
               PROVE  b <= n + 1
    OBVIOUS
  <2>1. b = n + 1 \/ b <= n
    BY DEF Track
  <2> QED
    BY <2>1
<1>7. ~Repeats(c, a) => \A b \in BlocksOf(c) : OnLine(L, b) => b \notin B \cup {n + 1} /\ One(b) \notin A
  BY <1>3 DEF Track
<1>8. \A b \in 1..(n + 1) : OnLine(L, b) \/ b \in B \cup {n + 1} \/ One(b) \in A
  BY <1>4 DEF Track
<1> QED
  BY <1>5, <1>6, <1>7, <1>8 DEF Track

\* New audio waits.
LEMMA TrackAudio ==
    ASSUME NEW c, NEW a \in Nat \ {0}, NEW L \in Seq(Text), NEW S, NEW B, NEW A, NEW n \in Nat,
           Track(c, a, L, S, B, A, n), BlocksOf(c) \subseteq Nat \ {0},
           n + 1 \in BlocksOf(c) \ InTurn(c), One(n + 1) \notin S
    PROVE  Track(c, a, L, S \cup {One(n + 1)}, B, A \cup {One(n + 1)}, n + 1)
<1> DEFINE t == One(n + 1)
<1>1. \A b : One(b) = t <=> b = n + 1
  BY OneFacts
<1>2. ~Repeats(c, a) => ~OnLine(L, n + 1)
  BY DEF Track, Repeats
<1>3. \A b \in 1..(n + 1) : OnLine(L, b) \/ b \in B \/ One(b) \in A \cup {t}
  <2>1. \A b \in 1..(n + 1) : b \in 1..n \/ b = n + 1
    OBVIOUS
  <2> QED
    BY <2>1 DEF Track
<1>4. ~Repeats(c, a) => \A b \in BlocksOf(c) : OnLine(L, b) => b \notin B /\ One(b) \notin A \cup {t}
  BY <1>1, <1>2 DEF Track
<1>5. a = 1 => \A b \in BlocksOf(c) : OnLine(L, b) \/ b \in B \/ One(b) \in A \cup {t} => b <= n + 1
  <2> SUFFICES ASSUME a = 1, NEW b \in BlocksOf(c), OnLine(L, b) \/ b \in B \/ One(b) \in A \cup {t}
               PROVE  b <= n + 1
    OBVIOUS
  <2>1. b = n + 1 \/ b <= n
    BY <1>1 DEF Track
  <2> QED
    BY <2>1
<1>6. \A t1 \in A \cup {t} : \E b \in BlocksOf(c) \ InTurn(c) : t1 = One(b)
  BY DEF Track
<1> HIDE DEF t
<1>7. Track(c, a, L, S \cup {t}, B, A \cup {t}, n + 1)
  BY <1>3, <1>4, <1>5, <1>6 DEF Track
<1> QED
  BY <1>7 DEF t

\* Audio that waited is handed over, or was handed over before.
LEMMA TrackAudioFlush ==
    ASSUME NEW c, NEW a \in Nat \ {0}, NEW L \in Seq(Text), NEW S, NEW A, NEW n \in Nat,
           Track(c, a, L, S, {}, A, n), BlocksOf(c) \subseteq Nat \ {0},
           NEW t \in A, t \in Text
    PROVE  /\ Track(c, a, Append(L, t), S, {}, A \ {t}, n)
           /\ TextOnLine(L, t) => Track(c, a, L, S, {}, A \ {t}, n)
<1> DEFINE M == Append(L, t)
<1>1. PICK d \in BlocksOf(c) \ InTurn(c) : t = One(d)
  BY DEF Track
<1>2. (\A b : Has(t, b) <=> b = d) /\ (\A b : One(b) = t <=> b = d)
  BY <1>1, OneFacts
<1>3. /\ \A b : OnLine(M, b) <=> OnLine(L, b) \/ b = d
      /\ \A s : TextOnLine(M, s) <=> TextOnLine(L, s) \/ s = t
  BY <1>2, AppendLine
<1>4. InOrder(c, M)
  BY <1>1, <1>2, AppendLine DEF Track
<1>5. ~Repeats(c, a) => Once(c, M)
  BY <1>1, <1>2, AppendLine DEF Track
<1> HIDE DEF M
<1>6. \A b \in 1..n : OnLine(M, b) \/ One(b) \in A \ {t}
  BY <1>2, <1>3 DEF Track
<1>7. ~Repeats(c, a) => \A b \in BlocksOf(c) : OnLine(M, b) => One(b) \notin A \ {t}
  BY <1>1, <1>3 DEF Track
<1>8. ~c.coalescing => \A b \in BlocksOf(c) : OnLine(M, b) => One(b) \in S
  BY <1>1, <1>3 DEF Track
<1>9. a = 1 => \A b \in BlocksOf(c) : OnLine(M, b) \/ One(b) \in A \ {t} => b <= n
  BY <1>1, <1>3 DEF Track
<1>10. Track(c, a, M, S, {}, A \ {t}, n)
  BY <1>3, <1>4, <1>5, <1>6, <1>7, <1>8, <1>9 DEF Track
<1>11. ASSUME TextOnLine(L, t) PROVE Track(c, a, L, S, {}, A \ {t}, n)
  <2>1. OnLine(L, d)
    BY <1>2, <1>11 DEF TextOnLine, OnLine
  <2>2. \A b \in 1..n : OnLine(L, b) \/ One(b) \in A \ {t}
    BY <1>2, <2>1 DEF Track
  <2> QED
    BY <1>11, <2>2 DEF Track
<1> QED
  BY <1>10, <1>11 DEF M

\* Another attempt begins to say its blocks.
LEMMA TrackAgain ==
    ASSUME NEW c, NEW a \in Nat \ {0}, NEW L, NEW S, NEW B, NEW A, NEW n,
           Track(c, a, L, S, B, A, n)
    PROVE  Track(c, a + 1, L, S, B, A, 0)
<1>1. Repeats(c, a) => Repeats(c, a + 1)
  BY DEF Repeats
<1>2. a + 1 # 1 /\ \A b \in 1..0 : FALSE
  OBVIOUS
<1> QED
  BY <1>1, <1>2 DEF Track

--------------------------------------------------------------------------------
(* The line of a reply: what was sent, what the dispatcher has, what is to follow *)

\* The texts of some payloads; a text without blocks.
Texts(S) == [i \in DOMAIN S |-> S[i].text]
Silent(c, text) == \A b \in BlocksOf(c) : ~Has(text, b)

\* The head of what follows moves to the end of what was: the line is the same.
LEMMA MoveHead ==
    ASSUME NEW T, NEW s \in Seq(T), NEW t \in Seq(T), t # <<>>
    PROVE  Append(s, Head(t)) \o Tail(t) = s \o t
<1>1. /\ Head(t) \in T /\ Tail(t) \in Seq(T) /\ Len(Tail(t)) = Len(t) - 1
      /\ Len(s) \in Nat /\ Len(t) \in Nat \ {0} /\ Head(t) = t[1]
      /\ \A i \in 1..(Len(t) - 1) : Tail(t)[i] = t[i + 1]
  BY HeadTailProperties, LenProperties, EmptySeq
<1> DEFINE A == Append(s, Head(t))
           U == Tail(t)
           L == s \o t
           M == A \o U
<1>2. /\ A \in Seq(T) /\ Len(A) = Len(s) + 1 /\ A[Len(s) + 1] = t[1]
      /\ \A i \in 1..Len(s) : A[i] = s[i]
  BY <1>1, AppendProperties
<1>3. /\ L \in Seq(T) /\ Len(L) = Len(s) + Len(t)
      /\ \A i \in 1..(Len(s) + Len(t)) : L[i] = IF i <= Len(s) THEN s[i] ELSE t[i - Len(s)]
  BY ConcatProperties
<1>5. U \in Seq(T) /\ Len(U) = Len(t) - 1 /\ \A i \in 1..(Len(t) - 1) : U[i] = t[i + 1]
  BY <1>1
<1> HIDE DEF A, U
<1>4. /\ M \in Seq(T) /\ Len(M) = Len(s) + Len(t)
      /\ \A i \in 1..(Len(s) + Len(t)) : M[i] = IF i <= Len(s) + 1 THEN A[i] ELSE U[i - (Len(s) + 1)]
  <2>1. /\ M \in Seq(T) /\ Len(M) = Len(A) + Len(U)
        /\ \A i \in 1..(Len(A) + Len(U)) : M[i] = IF i <= Len(A) THEN A[i] ELSE U[i - Len(A)]
    BY <1>2, <1>5, ConcatProperties
  <2>2. Len(A) + Len(U) = Len(s) + Len(t)
    BY <1>1, <1>2, <1>5
  <2> QED
    BY <1>2, <2>1, <2>2
<1> HIDE DEF L, M
<1>6. ASSUME NEW i \in 1..Len(L) PROVE M[i] = L[i]
  <2>1. CASE i <= Len(s)
    <3>1. i \in 1..(Len(s) + Len(t)) /\ i \in 1..Len(s) /\ i <= Len(s) + 1
      BY <1>1, <1>3, <2>1
    <3>2. M[i] = A[i] /\ L[i] = s[i]
      BY <1>3, <1>4, <2>1, <3>1
    <3> QED
      BY <1>2, <3>1, <3>2
  <2>2. CASE i = Len(s) + 1
    <3>1. i \in 1..(Len(s) + Len(t)) /\ ~(i <= Len(s)) /\ i <= Len(s) + 1 /\ i - Len(s) = 1
      BY <1>1, <1>3, <2>2
    <3>2. M[i] = A[i] /\ L[i] = t[i - Len(s)]
      BY <1>3, <1>4, <3>1
    <3> QED
      BY <1>2, <2>2, <3>1, <3>2
  <2>3. CASE i > Len(s) + 1
    <3>1. i - (Len(s) + 1) \in 1..(Len(t) - 1)
      BY <1>1, <1>3, <2>3
    <3>2. i \in 1..(Len(s) + Len(t)) /\ ~(i <= Len(s)) /\ ~(i <= Len(s) + 1)
      BY <1>1, <1>3, <2>3
    <3>3. M[i] = U[i - (Len(s) + 1)] /\ L[i] = t[i - Len(s)]
      BY <1>3, <1>4, <3>2
    <3>4. (i - (Len(s) + 1)) + 1 = i - Len(s)
      BY <1>1
    <3> QED
      BY <1>5, <3>1, <3>3, <3>4
  <2> QED
    BY <1>1, <1>3, <2>1, <2>2, <2>3
<1>7. M = L
  BY <1>3, <1>4, <1>6, SeqEqual
<1> QED
  BY <1>7 DEF L, M, A, U

\* A text that joins what follows joins the line.
LEMMA AppendRight ==
    ASSUME NEW T, NEW s \in Seq(T), NEW t \in Seq(T), NEW e \in T
    PROVE  s \o Append(t, e) = Append(s \o t, e)
<1>1. /\ Append(t, e) = t \o <<e>> /\ <<e>> \in Seq(T) /\ s \o t \in Seq(T)
  BY AppendIsConcat, ConcatProperties
<1>2. Append(s \o t, e) = (s \o t) \o <<e>>
  BY <1>1, AppendIsConcat
<1>3. (s \o t) \o <<e>> = s \o (t \o <<e>>)
  BY <1>1, ConcatAssociative
<1> QED
  BY <1>1, <1>2, <1>3

\* The texts of payloads, one for each ...
LEMMA TextsFacts ==
    ASSUME NEW S \in Seq(Payloads)
    PROVE  /\ Texts(S) \in Seq(Text) /\ Len(Texts(S)) = Len(S)
           /\ DOMAIN Texts(S) = 1..Len(S) /\ DOMAIN S = 1..Len(S) /\ Len(S) \in Nat
           /\ \A i \in 1..Len(S) : Texts(S)[i] = S[i].text /\ S[i] \in Payloads
<1>1. Len(S) \in Nat /\ DOMAIN S = 1..Len(S) /\ \A i \in 1..Len(S) : S[i] \in Payloads
  BY LenProperties, ElementOfSeq
<1>2. \A i \in 1..Len(S) : S[i].text \in Text
  BY <1>1 DEF Payloads
<1>3. Texts(S) \in [1..Len(S) -> Text]
  BY <1>1, <1>2 DEF Texts
<1>4. Texts(S) \in Seq(Text) /\ Len(Texts(S)) = Len(S)
  BY <1>1, <1>3, IsASeq, LenProperties
<1> QED
  BY <1>1, <1>3, <1>4 DEF Texts

\* ... of one payload more ...
LEMMA TextsAppend ==
    ASSUME NEW S \in Seq(Payloads), NEW p \in Payloads
    PROVE  Texts(Append(S, p)) = Append(Texts(S), p.text)
<1> DEFINE U == Append(S, p)
<1>1. /\ U \in Seq(Payloads) /\ Len(U) = Len(S) + 1 /\ U[Len(S) + 1] = p
      /\ \A i \in 1..Len(S) : U[i] = S[i]
  BY AppendProperties
<1> HIDE DEF U
<1>2. p.text \in Text
  BY DEF Payloads
<1>3. /\ Append(Texts(S), p.text) \in Seq(Text) /\ Len(Append(Texts(S), p.text)) = Len(S) + 1
      /\ Append(Texts(S), p.text)[Len(S) + 1] = p.text
      /\ \A i \in 1..Len(S) : Append(Texts(S), p.text)[i] = S[i].text
  BY <1>2, TextsFacts, AppendProperties
<1>4. Texts(U) \in Seq(Text) /\ Len(Texts(U)) = Len(S) + 1 /\ \A i \in 1..(Len(S) + 1) : Texts(U)[i] = U[i].text
  BY <1>1, TextsFacts
<1>5. ASSUME NEW i \in 1..(Len(S) + 1) PROVE Texts(U)[i] = Append(Texts(S), p.text)[i]
  <2>1. i \in 1..Len(S) \/ i = Len(S) + 1
    BY TextsFacts
  <2> QED
    BY <1>1, <1>3, <1>4, <2>1
<1>6. Texts(U) = Append(Texts(S), p.text)
  BY <1>3, <1>4, <1>5, SeqEqual
<1> QED
  BY <1>6 DEF U

\* ... and of several more.
LEMMA TextsConcat ==
    ASSUME NEW S \in Seq(Payloads), NEW P \in Seq(Payloads), NEW F \in Seq(Text),
           Len(P) = Len(F), \A i \in 1..Len(F) : P[i].text = F[i]
    PROVE  Texts(S \o P) = Texts(S) \o F
<1> DEFINE U == S \o P
           V == Texts(S) \o F
<1>1. /\ Len(S) \in Nat /\ Len(F) \in Nat /\ U \in Seq(Payloads) /\ Len(U) = Len(S) + Len(F)
      /\ \A i \in 1..(Len(S) + Len(F)) : U[i] = IF i <= Len(S) THEN S[i] ELSE P[i - Len(S)]
  <2>1. /\ U \in Seq(Payloads) /\ Len(U) = Len(S) + Len(P)
        /\ \A i \in 1..(Len(S) + Len(P)) : U[i] = IF i <= Len(S) THEN S[i] ELSE P[i - Len(S)]
    BY ConcatProperties, ZenonT(60)
  <2>2. Len(S) \in Nat /\ Len(F) \in Nat
    BY LenProperties
  <2> HIDE DEF U
  <2> QED
    BY <2>1, <2>2
<1>2. /\ V \in Seq(Text) /\ Len(V) = Len(S) + Len(F)
      /\ \A i \in 1..(Len(S) + Len(F)) : V[i] = IF i <= Len(S) THEN Texts(S)[i] ELSE F[i - Len(S)]
  <2>1. Texts(S) \in Seq(Text) /\ Len(Texts(S)) = Len(S)
    BY TextsFacts
  <2>2. /\ V \in Seq(Text) /\ Len(V) = Len(Texts(S)) + Len(F)
        /\ \A i \in 1..(Len(Texts(S)) + Len(F)) :
              V[i] = IF i <= Len(Texts(S)) THEN Texts(S)[i] ELSE F[i - Len(Texts(S))]
    BY <2>1, ConcatProperties
  <2> HIDE DEF V
  <2> QED
    BY <2>1, <2>2
<1> HIDE DEF U, V
<1>3. /\ Texts(U) \in Seq(Text) /\ Len(Texts(U)) = Len(S) + Len(F)
      /\ \A i \in 1..(Len(S) + Len(F)) : Texts(U)[i] = U[i].text
  BY <1>1, TextsFacts
<1>4. ASSUME NEW i \in 1..(Len(S) + Len(F)) PROVE Texts(U)[i] = V[i]
  <2>1. CASE i <= Len(S)
    <3>1. i \in 1..Len(S) /\ U[i] = S[i] /\ V[i] = Texts(S)[i]
      BY <1>1, <1>2, <2>1
    <3> QED
      BY <1>3, <3>1, TextsFacts
  <2>2. CASE i > Len(S)
    <3>1. i - Len(S) \in 1..Len(F) /\ ~(i <= Len(S))
      BY <1>1, <2>2
    <3>2. U[i] = P[i - Len(S)] /\ V[i] = F[i - Len(S)]
      BY <1>1, <1>2, <3>1
    <3> QED
      BY <1>3, <3>1, <3>2
  <2> QED
    BY <1>1, <2>1, <2>2
<1>5. Texts(U) = V
  BY <1>2, <1>3, <1>4, SeqEqual
<1> QED
  BY <1>5 DEF U, V

\* A text without blocks is put in the middle of a line.
LEMMA InsertLine ==
    ASSUME NEW s \in Seq(Text), NEW r \in Seq(Text), NEW t \in Text, NEW c, Silent(c, t)
    PROVE  /\ \A b \in BlocksOf(c) : OnLine(Append(s, t) \o r, b) <=> OnLine(s \o r, b)
           /\ \A x : TextOnLine(s \o r, x) => TextOnLine(Append(s, t) \o r, x)
           /\ InOrder(c, s \o r) => InOrder(c, Append(s, t) \o r)
           /\ Once(c, s \o r) => Once(c, Append(s, t) \o r)
<1> DEFINE m == Len(s)
           A == Append(s, t)
           L == s \o r
           M == A \o r
           N == m + Len(r)
<1>1. /\ m \in Nat /\ Len(r) \in Nat /\ A \in Seq(Text) /\ Len(A) = m + 1
      /\ A[m + 1] = t /\ \A i \in 1..m : A[i] = s[i]
  BY AppendProperties, LenProperties
<1>2. DOMAIN L = 1..N /\ \A i \in 1..N : L[i] = IF i <= m THEN s[i] ELSE r[i - m]
  BY <1>1, ConcatProperties, LenProperties
<1> HIDE DEF A
<1>3. /\ DOMAIN M = 1..(N + 1)
      /\ \A i \in 1..(N + 1) : M[i] = IF i <= m + 1 THEN A[i] ELSE r[i - (m + 1)]
  <2>1. DOMAIN M = 1..(Len(A) + Len(r))
    BY <1>1, ConcatProperties, LenProperties
  <2>3. Len(A) + Len(r) = N + 1
    BY <1>1
  <2>2. \A i \in 1..(Len(A) + Len(r)) : M[i] = IF i <= Len(A) THEN A[i] ELSE r[i - Len(A)]
    BY <1>1, ConcatProperties
  <2> QED
    BY <1>1, <2>1, <2>2, <2>3
<1> HIDE DEF L, M
<1> DEFINE Up(i) == IF i <= m THEN i ELSE i + 1
           Down(i) == IF i <= m THEN i ELSE i - 1
<1>4. ASSUME NEW i \in 1..N PROVE Up(i) \in 1..(N + 1) /\ M[Up(i)] = L[i] /\ Up(i) # m + 1
  <2>1. CASE i <= m
    BY <1>1, <1>2, <1>3, <2>1
  <2>2. CASE i > m
    <3>1. Up(i) = i + 1 /\ i + 1 \in 1..(N + 1) /\ ~(i + 1 <= m + 1) /\ (i + 1) - (m + 1) = i - m
      BY <1>1, <2>2
    <3>2. M[i + 1] = r[i - m] /\ L[i] = r[i - m]
      BY <1>1, <1>2, <1>3, <2>2, <3>1
    <3> QED
      BY <1>1, <2>2, <3>1, <3>2
  <2> QED
    BY <1>1, <2>1, <2>2
<1>5. ASSUME NEW i \in 1..(N + 1), i # m + 1
      PROVE  Down(i) \in 1..N /\ M[i] = L[Down(i)] /\ Up(Down(i)) = i
  <2>1. CASE i <= m
    BY <1>1, <1>2, <1>3, <2>1
  <2>2. CASE i > m + 1
    <3>1. Down(i) = i - 1 /\ i - 1 \in 1..N /\ ~(i - 1 <= m) /\ (i - 1) - m = i - (m + 1)
      BY <1>1, <2>2
    <3> QED
      BY <1>1, <1>2, <1>3, <2>2, <3>1
  <2> QED
    BY <1>1, <1>5, <2>1, <2>2
<1>6. M[m + 1] = t /\ m + 1 \in 1..(N + 1)
  BY <1>1, <1>3
<1>7. \A b \in BlocksOf(c), i \in 1..(N + 1) : Has(M[i], b) => i # m + 1
  BY <1>6 DEF Silent
<1>8. \A i, j \in 1..N : i <= j => Up(i) <= Up(j)
  BY <1>1
<1> HIDE DEF Up, Down, N
<1>9. \A b \in BlocksOf(c) : OnLine(M, b) <=> OnLine(L, b)
  <2> TAKE b \in BlocksOf(c)
  <2>1. ASSUME OnLine(M, b) PROVE OnLine(L, b)
    <3>1. PICK i \in 1..(N + 1) : Has(M[i], b)
      BY <1>3, <2>1 DEF OnLine
    <3>2. Down(i) \in 1..N /\ M[i] = L[Down(i)]
      BY <1>5, <1>7, <3>1
    <3> QED
      BY <1>2, <3>1, <3>2 DEF OnLine
  <2>2. ASSUME OnLine(L, b) PROVE OnLine(M, b)
    BY <1>2, <1>3, <1>4, <2>2 DEF OnLine
  <2> QED
    BY <2>1, <2>2
<1>10. \A x : TextOnLine(L, x) => TextOnLine(M, x)
  BY <1>2, <1>3, <1>4 DEF TextOnLine
<1>11. ASSUME InOrder(c, L) PROVE InOrder(c, M)
  <2> SUFFICES ASSUME NEW p \in 1..(N + 1), NEW x \in InTurn(c), NEW y \in InTurn(c), x < y, Has(M[p], y)
               PROVE  \E q \in 1..p : Has(M[q], x)
    BY <1>3 DEF InOrder
  <2>1. y \in BlocksOf(c)
    BY DEF InTurn
  <2>2. Down(p) \in 1..N /\ M[p] = L[Down(p)] /\ Up(Down(p)) = p
    BY <1>5, <1>7, <2>1
  <2>3. PICK q \in 1..Down(p) : Has(L[q], x)
    BY <1>2, <1>11, <2>2 DEF InOrder
  <2>4. q \in 1..N /\ q <= Down(p)
    BY <1>1, <2>2 DEF N
  <2>5. Up(q) \in 1..(N + 1) /\ Has(M[Up(q)], x) /\ Up(q) <= p
    BY <1>4, <1>8, <2>2, <2>3, <2>4
  <2>6. Up(q) \in 1..p
    BY <1>1, <2>5 DEF N
  <2> QED
    BY <2>5, <2>6
<1>12. ASSUME Once(c, L) PROVE Once(c, M)
  <2> SUFFICES ASSUME NEW p \in 1..(N + 1), NEW q \in 1..(N + 1), NEW b \in BlocksOf(c),
                      Has(M[p], b), Has(M[q], b)
               PROVE  p = q
    BY <1>3 DEF Once
  <2>1. /\ Down(p) \in 1..N /\ M[p] = L[Down(p)] /\ Up(Down(p)) = p
        /\ Down(q) \in 1..N /\ M[q] = L[Down(q)] /\ Up(Down(q)) = q
    BY <1>5, <1>7
  <2>2. Down(p) = Down(q)
    BY <1>2, <1>12, <2>1 DEF Once
  <2> QED
    BY <2>1, <2>2
<1> QED
  BY <1>9, <1>10, <1>11, <1>12 DEF L, M, A

\* A text without blocks gets between what was sent and what follows.
LEMMA TrackInsert ==
    ASSUME NEW s \in Seq(Text), NEW r \in Seq(Text), NEW t \in Text, NEW c, Silent(c, t),
           NEW a, NEW S, NEW B, NEW A, NEW n \in Nat, Track(c, a, s \o r, S, B, A, n),
           1..n \subseteq BlocksOf(c)
    PROVE  Track(c, a, Append(s, t) \o r, S, B, A, n)
<1> DEFINE L == s \o r
           M == Append(s, t) \o r
<1>1. /\ \A b \in BlocksOf(c) : OnLine(M, b) <=> OnLine(L, b)
      /\ \A x : TextOnLine(L, x) => TextOnLine(M, x)
      /\ InOrder(c, L) => InOrder(c, M)
      /\ Once(c, L) => Once(c, M)
  BY InsertLine
<1>2. Track(c, a, L, S, B, A, n)
  OBVIOUS
<1> HIDE DEF L, M
<1>3. InTurn(c) \subseteq BlocksOf(c)
  BY DEF InTurn
<1>4. Track(c, a, M, S, B, A, n)
  BY <1>1, <1>2, <1>3 DEF Track
<1> QED
  BY <1>4 DEF M

\* What was sent or handed to the dispatcher; what the pipeline still sends; what is to follow.
Sent == tried \o queue
Pending == IF aborted THEN <<>> ELSE IF inFlight THEN Tail(chain) ELSE chain
AfterRun == phase \in {"sending", "waiting", "done"} /\ outcome = "success"
Rest == IF AfterRun THEN finals ELSE Pending
\* Every text that was sent or is to be, in the order in which the chat gets them.
Line == Texts(Sent) \o Rest

\* Where the reply is says what there may be.
PhaseOK ==
    /\ phase = "running" => outcome = "none"
    /\ phase = "flushing" => outcome = "success" /\ buffer = <<>> /\ audio = <<>>
    /\ phase = "threw" => outcome \in {"none", "success"}
    /\ phase \in {"sending", "waiting", "done"} => outcome # "none"
    /\ finals # <<>> => phase = "sending"
    /\ outcome = "failed" => finals \in {<<>>, <<<<Error>>>>}
    /\ outcome = "queued" => finals = <<>>
    /\ AfterRun => chain = <<>> /\ toolTasks = 0
    /\ AfterRun /\ phase # "sending" => awaited = Len(queue)
    /\ phase = "done" => awaited = 0
    /\ config.routed => queue = <<>>
    /\ inFlight => ~aborted
    /\ said <= Len(config.kinds)

\* Every step keeps what the phases allow.
LEMMA PhaseStep ==
    ASSUME ReplyTyped, PhaseOK, [Next]_vars
    PROVE  PhaseOK'
<1> USE DEF PhaseOK, AfterRun
<1>0. /\ Len(config.kinds) \in Nat /\ said \in Nat
      /\ chain \in Seq(Text) /\ queue \in Seq(Payloads) /\ finals \in Seq(Text)
  BY ConfigsAssumption, LenProperties, BlocksAssumption
  DEF ReplyTyped, RunTyped, IsConfig, PipelineTyped, PipeTyped, Pipe, Pipes, SendTyped
<1>1. CASE EmitBlock \/ ToolStarts \/ IdleFlush
  <2>1. phase = "running" /\ UNCHANGED <<config, phase, outcome, queue, awaited, finals, inFlight, aborted>>
    BY <1>1 DEF EmitBlock, Enqueue, ToolStarts, FlushAll, IdleFlush, sendVars, runVars
  <2>2. said' \in {said, said + 1} /\ said' <= Len(config.kinds)
    BY <1>0, <1>1 DEF EmitBlock, ToolStarts, IdleFlush, runVars
  <2> QED
    BY <1>0, <2>1, <2>2
<1>2. CASE Signal \/ TypingStep \/ UNCHANGED vars
  BY <1>2 DEF Signal, TypingStep, vars, runVars, pipelineVars, toolVars, sendVars
<1>3. CASE ToolReports
  BY <1>3 DEF ToolReports, runVars, pipelineVars, sendVars
<1>4. CASE FallBack
  BY <1>0, <1>4 DEF FallBack, pipelineVars, toolVars, sendVars
<1>5. CASE AgentEnds
  BY <1>5 DEF AgentEnds, FlushAll, toolVars, sendVars
<1>6. CASE AgentFails
  BY <1>6 DEF AgentFails, pipelineVars, toolVars
<1>7. CASE QueuedInstead
  BY <1>7 DEF QueuedInstead, pipelineVars, toolVars, sendVars
<1>8. CASE Throws
  BY <1>8 DEF Throws, runVars, pipelineVars, toolVars, sendVars
<1>9. CASE SendBlock
  BY <1>9 DEF SendBlock, runVars, toolVars
<1>10. CASE BlockRouted \/ BlockTimesOut
  <2>1. chain # <<>>
    BY <1>10 DEF BlockRouted, BlockTimesOut, ReplyTyped, PipelineTyped, PipeTyped, Pipe
  <2> QED
    BY <1>10, <2>1 DEF BlockRouted, BlockTimesOut, runVars, toolVars, sendVars
<1>11. CASE ToolTaskEnds
  BY <1>11 DEF ToolTaskEnds, runVars, pipelineVars
<1>12. CASE Deliver
  <2>1. Len(queue') = Len(queue) - 1 /\ Len(queue) \in Nat \ {0} /\ queue # <<>>
    BY <1>0, <1>12, HeadTailProperties, LenProperties, EmptySeq DEF Deliver
  <2>2. awaited' = (IF awaited = 0 THEN 0 ELSE awaited - 1)
    BY <1>12 DEF Deliver
  <2>3. UNCHANGED <<config, phase, runVars, pipelineVars, toolVars, finals>>
    BY <1>12 DEF Deliver
  <2> QED
    BY <2>1, <2>2, <2>3 DEF runVars, pipelineVars, toolVars
<1>13. CASE RunReturns
  BY <1>13 DEF RunReturns, runVars, pipelineVars, toolVars
<1>14. CASE SendFinals
  <2> DEFINE P == [i \in DOMAIN finals |-> Payload("final", finals[i])]
  <2>1. UNCHANGED <<config, runVars, pipelineVars, toolVars>> /\ phase = "sending"
    BY <1>14 DEF SendFinals
  <2>2. CASE /\ config.routed /\ finals # <<>> /\ finals' = Tail(finals)
             /\ UNCHANGED <<phase, queue, awaited>>
    <3>1. finals = <<<<Error>>>> => finals' = <<>>
      BY <2>2
    <3> QED
      BY <2>1, <2>2, <3>1 DEF runVars, pipelineVars, toolVars
  <2>3. CASE /\ ~config.routed \/ finals = <<>>
             /\ queue' = queue \o P /\ awaited' = Len(queue') /\ finals' = <<>> /\ phase' = "waiting"
    <3>1. config.routed => queue' = <<>>
      <4> SUFFICES ASSUME config.routed PROVE queue' = <<>>
        OBVIOUS
      <4>1. queue = <<>> /\ finals = <<>>
        BY <2>3
      <4>2. P \in Seq(Payloads) /\ Len(P) = 0
        BY <1>0, <4>1, FinalPayloads
      <4> HIDE DEF P
      <4>3. P = <<>>
        BY <4>2, EmptySeq
      <4> QED
        BY <2>3, <4>1, <4>3
    <3> HIDE DEF P
    <3> QED
      BY <2>1, <2>3, <3>1 DEF runVars, pipelineVars, toolVars
  <2> QED
    BY <1>14, <2>2, <2>3 DEF SendFinals
<1>15. CASE DispatchReturns
  BY <1>15 DEF DispatchReturns, runVars, pipelineVars, toolVars, sendVars
<1> QED
  BY <1>1, <1>2, <1>3, <1>4, <1>5, <1>6, <1>7, <1>8, <1>9, <1>10, <1>11, <1>12, <1>13, <1>14, <1>15
  DEF Next, RunEnds, Settles, Ends

\* The line is a sequence of texts.
LEMMA LineTypes ==
    ASSUME ReplyTyped
    PROVE  /\ Sent \in Seq(Payloads) /\ Texts(Sent) \in Seq(Text)
           /\ Pending \in Seq(Text) /\ Rest \in Seq(Text) /\ Line \in Seq(Text)
<1>1. tried \in Seq(Payloads) /\ queue \in Seq(Payloads) /\ finals \in Seq(Text)
  BY DEF ReplyTyped, SendTyped
<1>2. chain \in Seq(Text) /\ (inFlight => chain # <<>>)
  BY DEF ReplyTyped, PipelineTyped, PipeTyped, Pipe, Pipes
<1>3. Sent \in Seq(Payloads)
  BY <1>1, ConcatProperties DEF Sent
<1>4. Texts(Sent) \in Seq(Text)
  BY <1>3, TextsFacts
<1>5. Pending \in Seq(Text)
  BY <1>2, HeadTailProperties, TextTypes DEF Pending
<1>6. Rest \in Seq(Text)
  BY <1>1, <1>5 DEF Rest
<1> QED
  BY <1>3, <1>4, <1>5, <1>6, ConcatProperties DEF Line

--------------------------------------------------------------------------------
(* What each step does to the line *)

\* What each send does to the line: a block moves from the chain to the chat ...
LEMMA SendBlockLine ==
    ASSUME ReplyTyped, PhaseOK, SendBlock
    PROVE  /\ Line' = Line
           /\ \/ aborted /\ Sent' = Sent
              \/ ~aborted /\ Sent' = Append(Sent, Payload("block", Head(chain)))
<1>1. /\ chain # <<>> /\ ~inFlight /\ UNCHANGED <<phase, outcome, aborted, finals>>
      /\ chain \in Seq(Text) /\ tried \in Seq(Payloads) /\ queue \in Seq(Payloads)
  BY DEF SendBlock, runVars, ReplyTyped, SendTyped, PipelineTyped, PipeTyped, Pipe, Pipes
<1>2. ~AfterRun /\ ~AfterRun'
  BY <1>1 DEF AfterRun, PhaseOK
<1>3. CASE aborted
  BY <1>1, <1>2, <1>3 DEF SendBlock, Line, Sent, Rest, Pending
<1>4. CASE ~aborted
  <2> DEFINE p == Payload("block", Head(chain))
  <2>1. Head(chain) \in Text /\ p \in Payloads /\ p.text = Head(chain)
    BY <1>1, HeadTailProperties, PayloadTypes
  <2> HIDE DEF p
  <2>2. Sent' = Append(Sent, p)
    <3>1. CASE config.routed
      <4>1. tried' = Append(tried, p) /\ queue' = queue /\ queue = <<>>
        BY <1>4, <3>1 DEF SendBlock, PhaseOK, p
      <4>2. Append(tried, p) \in Seq(Payloads)
        BY <1>1, <2>1, AppendProperties
      <4> QED
        BY <1>1, <4>1, <4>2, ConcatEmptySeq DEF Sent
    <3>2. CASE ~config.routed
      <4>1. tried' = tried /\ queue' = Append(queue, p)
        BY <1>4, <3>2 DEF SendBlock, p
      <4> QED
        BY <1>1, <2>1, <4>1, AppendRight DEF Sent
    <3> QED
      BY <3>1, <3>2
  <2>3. Rest = chain /\ Rest' = Tail(chain)
    BY <1>1, <1>2, <1>4 DEF SendBlock, LeaveChain, Rest, Pending
  <2>4. Texts(Sent)' = Append(Texts(Sent), Head(chain))
    BY <2>1, <2>2, LineTypes, TextsAppend
  <2>5. Append(Texts(Sent), Head(chain)) \o Tail(chain) = Texts(Sent) \o chain
    BY <1>1, LineTypes, MoveHead
  <2> QED
    BY <1>4, <2>2, <2>3, <2>4, <2>5 DEF Line, p
<1> QED
  BY <1>3, <1>4

\* ... its send to another provider ends ...
LEMMA RoutedLine ==
    ASSUME ReplyTyped, PhaseOK, BlockRouted
    PROVE  Line' = Line /\ Sent' = Sent
<1>1. /\ inFlight /\ ~aborted /\ ~inFlight' /\ chain' = Tail(chain) /\ chain # <<>>
      /\ UNCHANGED <<phase, outcome, aborted, tried, queue>>
  BY DEF BlockRouted, LeaveChain, runVars, sendVars, PhaseOK, ReplyTyped, PipelineTyped, PipeTyped, Pipe
<1>2. ~AfterRun /\ ~AfterRun'
  BY <1>1 DEF AfterRun, PhaseOK
<1> QED
  BY <1>1, <1>2 DEF Line, Sent, Rest, Pending

\* ... a send that times out takes the chain off the line ...
LEMMA TimesOutLine ==
    ASSUME ReplyTyped, PhaseOK, BlockTimesOut
    PROVE  Line' = Texts(Sent) /\ Sent' = Sent
<1>1. /\ chain # <<>> /\ aborted' /\ UNCHANGED <<phase, outcome, tried, queue>>
  BY DEF BlockTimesOut, runVars, sendVars, ReplyTyped, PipelineTyped, PipeTyped, Pipe
<1>2. ~AfterRun'
  BY <1>1 DEF AfterRun, PhaseOK
<1>3. Sent' = Sent /\ Rest' = <<>>
  BY <1>1, <1>2 DEF Sent, Rest, Pending
<1> QED
  BY <1>3, LineTypes, ConcatEmptySeq DEF Line

\* ... a tool result gets before what follows ...
LEMMA ToolLine ==
    ASSUME ReplyTyped, PhaseOK, ToolTaskEnds
    PROVE  \/ Line' = Line /\ Sent' = Sent
           \/ /\ Sent' = Append(Sent, Payload("tool", <<ToolResult>>))
              /\ Line' = Append(Texts(Sent), <<ToolResult>>) \o Rest
<1> DEFINE p == Payload("tool", <<ToolResult>>)
<1>1. p \in Payloads /\ p.text = <<ToolResult>>
  BY PayloadTypes
<1>2. Rest' = Rest /\ tried \in Seq(Payloads) /\ queue \in Seq(Payloads)
  BY DEF ToolTaskEnds, Rest, Pending, AfterRun, runVars, pipelineVars, ReplyTyped, SendTyped
<1>3. CASE UNCHANGED <<queue, tried>>
  BY <1>2, <1>3 DEF Line, Sent
<1>4. CASE ~UNCHANGED <<queue, tried>>
  <2>1. Sent' = Append(Sent, p)
    <3>1. CASE config.routed
      <4>1. tried' = Append(tried, p) /\ queue' = queue /\ queue = <<>>
        BY <1>4, <3>1 DEF ToolTaskEnds, PhaseOK
      <4> HIDE DEF p
      <4>2. Append(tried, p) \in Seq(Payloads)
        BY <1>1, <1>2, AppendProperties
      <4> QED
        BY <1>2, <4>1, <4>2, ConcatEmptySeq DEF Sent
    <3>2. CASE ~config.routed
      <4>1. tried' = tried /\ queue' = Append(queue, p)
        BY <1>4, <3>2 DEF ToolTaskEnds
      <4> HIDE DEF p
      <4> QED
        BY <1>1, <1>2, <4>1, AppendRight DEF Sent
    <3> QED
      BY <3>1, <3>2
  <2> HIDE DEF p
  <2>2. Texts(Sent)' = Append(Texts(Sent), <<ToolResult>>)
    BY <1>1, <2>1, LineTypes, TextsAppend
  <2> QED
    BY <1>2, <2>1, <2>2 DEF Line, p
<1> QED
  BY <1>3, <1>4

\* ... and the dispatcher delivers what is on the line.
LEMMA DeliverLine ==
    ASSUME ReplyTyped, Deliver
    PROVE  Line' = Line /\ Sent' = Sent
<1>1. /\ queue # <<>> /\ queue' = Tail(queue) /\ tried' = Append(tried, Head(queue))
      /\ tried \in Seq(Payloads) /\ queue \in Seq(Payloads)
  BY DEF Deliver, ReplyTyped, SendTyped
<1>2. Sent' = Sent
  BY <1>1, MoveHead DEF Sent
<1>3. Rest' = Rest
  BY DEF Deliver, Rest, Pending, AfterRun, runVars, pipelineVars
<1> QED
  BY <1>2, <1>3 DEF Line

\* After a run that succeeded the final payloads follow; after one that failed there is at
\* most the error, which carries no block.
LEMMA FinalsLine ==
    ASSUME ReplyTyped, PhaseOK, SendFinals
    PROVE  /\ outcome = "success" => Line' = Line
           /\ outcome # "success" =>
                 \/ Line' = Line
                 \/ Line' = Append(Texts(Sent), <<Error>>) \o Rest
           /\ \E P \in Seq(Payloads) : /\ Sent' = Sent \o P
                                       /\ \A i \in 1..Len(P) : P[i].kind = "final"
<1>1. /\ phase = "sending" /\ phase' \in {"sending", "waiting"}
      /\ UNCHANGED <<config, outcome, chain, aborted, inFlight>>
      /\ tried \in Seq(Payloads) /\ queue \in Seq(Payloads) /\ finals \in Seq(Text)
  BY DEF SendFinals, runVars, pipelineVars, ReplyTyped, SendTyped
<1>2. AfterRun' = AfterRun /\ Pending' = Pending
  BY <1>1 DEF AfterRun, Pending
<1>3. CASE /\ config.routed /\ finals # <<>> /\ finals' = Tail(finals) /\ queue' = queue
           /\ tried' = Append(tried, Payload("final", Head(finals)))
  <2> DEFINE p == Payload("final", Head(finals))
  <2>1. Head(finals) \in Text /\ p \in Payloads /\ p.text = Head(finals) /\ p.kind = "final"
    BY <1>1, <1>3, HeadTailProperties, PayloadTypes
  <2>2. tried' = Append(tried, p) /\ queue = <<>> /\ queue' = <<>>
    BY <1>3 DEF PhaseOK
  <2> HIDE DEF p
  <2>3. Sent' = Append(Sent, p)
    <3>1. Append(tried, p) \in Seq(Payloads)
      BY <1>1, <2>1, AppendProperties
    <3> QED
      BY <1>1, <2>2, <3>1, ConcatEmptySeq DEF Sent
  <2>4. Texts(Sent)' = Append(Texts(Sent), Head(finals))
    BY <2>1, <2>3, LineTypes, TextsAppend
  <2>5. outcome = "success" => Line' = Line
    <3> SUFFICES ASSUME outcome = "success" PROVE Line' = Line
      OBVIOUS
    <3>1. Rest = finals /\ Rest' = Tail(finals)
      BY <1>1, <1>2, <1>3 DEF AfterRun, Rest
    <3>2. Append(Texts(Sent), Head(finals)) \o Tail(finals) = Texts(Sent) \o finals
      BY <1>1, <1>3, LineTypes, MoveHead
    <3> QED
      BY <2>4, <3>1, <3>2 DEF Line
  <2>6. outcome # "success" => Line' = Append(Texts(Sent), <<Error>>) \o Rest
    <3> SUFFICES ASSUME outcome # "success" PROVE Line' = Append(Texts(Sent), <<Error>>) \o Rest
      OBVIOUS
    <3>1. finals = <<<<Error>>>>
      BY <1>1, <1>3 DEF PhaseOK, ReplyTyped, RunTyped
    <3>2. Head(finals) = <<Error>>
      BY <3>1
    <3>3. Rest' = Rest
      BY <1>2 DEF AfterRun, Rest
    <3> QED
      BY <2>4, <3>2, <3>3 DEF Line
  <2>7. /\ <<p>> \in Seq(Payloads) /\ Sent' = Sent \o <<p>>
        /\ \A i \in 1..Len(<<p>>) : <<p>>[i].kind = "final"
    <3>1. <<p>> \in Seq(Payloads) /\ Sent' = Sent \o <<p>>
      BY <2>1, <2>3, LineTypes, AppendIsConcat
    <3>2. Len(<<p>>) = 1 /\ <<p>>[1] = p
      OBVIOUS
    <3> QED
      BY <2>1, <3>1, <3>2
  <2> QED
    BY <2>5, <2>6, <2>7
<1>4. CASE /\ finals' = <<>> /\ tried' = tried
           /\ queue' = queue \o [i \in DOMAIN finals |-> Payload("final", finals[i])]
  <2> DEFINE P == [i \in DOMAIN finals |-> Payload("final", finals[i])]
  <2>1. /\ P \in Seq(Payloads) /\ Len(P) = Len(finals)
        /\ \A i \in 1..Len(finals) : P[i].text = finals[i] /\ P[i].kind = "final"
    BY <1>1, FinalPayloads
  <2>2. queue' = queue \o P
    BY <1>4
  <2> HIDE DEF P
  <2>3. Sent' = Sent \o P
    <3>1. (tried \o queue) \o P = tried \o (queue \o P)
      <4>1. tried \in Seq(Payloads) /\ queue \in Seq(Payloads) /\ P \in Seq(Payloads)
        BY <1>1, <2>1 DEF ReplyTyped, SendTyped
      <4> QED
        BY <4>1, ConcatAssociative
    <3> QED
      BY <1>4, <2>2, <3>1 DEF Sent
  <2>4. outcome = "success" => Line' = Line
    <3> SUFFICES ASSUME outcome = "success" PROVE Line' = Line
      OBVIOUS
    <3>1. Rest = finals /\ Rest' = <<>>
      BY <1>1, <1>2, <1>4 DEF AfterRun, Rest
    <3>2. Texts(Sent \o P) = Texts(Sent) \o finals
      BY <2>1, <1>1, LineTypes, TextsConcat, ZenonT(60)
    <3>3. Texts(Sent) \o finals \in Seq(Text)
      BY <1>1, LineTypes, ConcatProperties
    <3> QED
      BY <2>3, <3>1, <3>2, <3>3, ConcatEmptySeq DEF Line
  <2>5. outcome # "success" => Line' = Line \/ Line' = Append(Texts(Sent), <<Error>>) \o Rest
    <3> SUFFICES ASSUME outcome # "success"
                 PROVE  Line' = Line \/ Line' = Append(Texts(Sent), <<Error>>) \o Rest
      OBVIOUS
    <3>1. finals = <<>> \/ finals = <<<<Error>>>>
      BY <1>1 DEF PhaseOK, ReplyTyped, RunTyped
    <3>2. Rest' = Rest
      BY <1>2 DEF AfterRun, Rest
    <3>3. Texts(Sent)' = Texts(Sent) \o finals
      BY <1>1, <2>1, <2>3, LineTypes, TextsConcat, ZenonT(60)
    <3>4. CASE finals = <<>>
      BY <3>2, <3>3, <3>4, LineTypes, ConcatEmptySeq DEF Line
    <3>5. CASE finals = <<<<Error>>>>
      <4>1. <<Error>> \in Text
        BY TextTypes, BlocksAssumption DEF Error
      <4>2. Texts(Sent) \o finals = Append(Texts(Sent), <<Error>>)
        BY <3>5, <4>1, LineTypes, AppendIsConcat
      <4> QED
        BY <3>2, <3>3, <4>2 DEF Line
    <3> QED
      BY <3>1, <3>4, <3>5
  <2> QED
    BY <2>1, <2>3, <2>4, <2>5
<1> QED
  BY <1>3, <1>4 DEF SendFinals

--------------------------------------------------------------------------------
(* What the pipeline does to the line *)

\* The line with another chain; what was sent once is on it; what is known of it with another
\* pipeline.
LineWith(ch) == Texts(Sent) \o (IF inFlight THEN Tail(ch) ELSE ch)
SentKeysOnLine(ch) ==
    /\ \A k \in sentKeys : TextOnLine(Texts(Sent), k)
    /\ inFlight => TextOnLine(Texts(Sent), Head(ch))
Tracked(p, B, A, n) ==
    /\ PipeTyped(p) /\ SentKeysOnLine(p.chain)
    /\ Track(config, attempts, LineWith(p.chain), p.seen, B, A, n)

\* The blocks of a configuration.
LEMMA ConfigFacts ==
    ASSUME RunTyped
    PROVE  /\ BlocksOf(config) = 1..Len(config.kinds) /\ Len(config.kinds) \in 0..MaxBlocks
           /\ BlocksOf(config) \subseteq Nat \ {0} /\ InTurn(config) \subseteq BlocksOf(config)
           /\ \A b \in BlocksOf(config) : b \in 0..Error /\ One(b) \in Text
           /\ \A b \in BlocksOf(config) :
                 config.kinds[b] \in {"text", "media", "audio"} /\ (b \in InTurn(config) <=> config.kinds[b] # "audio")
           /\ attempts \in Nat \ {0} /\ said \in Nat
           /\ Silent(config, <<ToolResult>>) /\ Silent(config, <<Error>>)
<1>1. config.kinds \in Seq({"text", "media", "audio"}) /\ Len(config.kinds) <= MaxBlocks
  BY ConfigsAssumption DEF RunTyped, IsConfig
<1>2. BlocksOf(config) = 1..Len(config.kinds) /\ Len(config.kinds) \in 0..MaxBlocks
  BY <1>1, LenProperties, BlocksAssumption DEF BlocksOf
<1>3. BlocksOf(config) \subseteq Nat \ {0}
  BY <1>2
<1>4. InTurn(config) \subseteq BlocksOf(config)
  BY DEF InTurn
<1>5. \A b \in BlocksOf(config) : b \in 0..Error /\ b # ToolResult /\ b # Error
  BY <1>2, BlocksAssumption DEF Error, ToolResult
<1>6. \A b \in BlocksOf(config) : One(b) \in Text
  BY <1>5, OneFacts
<1>7. \A b \in BlocksOf(config) : config.kinds[b] \in {"text", "media", "audio"}
  BY <1>1, <1>2, ElementOfSeq
<1>8. Silent(config, <<ToolResult>>) /\ Silent(config, <<Error>>)
  BY <1>5, SetOfOne DEF Silent, Has
<1>9. attempts \in Nat \ {0} /\ said \in Nat
  BY BoundsAssumption, BlocksAssumption DEF RunTyped
<1>10. \A b \in BlocksOf(config) : b \in InTurn(config) <=> config.kinds[b] # "audio"
  BY DEF InTurn
<1> QED
  BY <1>2, <1>3, <1>4, <1>5, <1>6, <1>7, <1>8, <1>9, <1>10

\* The line with another chain.
LEMMA LineWithTypes ==
    ASSUME ReplyTyped, NEW ch \in Seq(Text), inFlight => ch # <<>>
    PROVE  /\ LineWith(ch) \in Seq(Text)
           /\ \A k \in Text : LineWith(Append(ch, k)) = Append(LineWith(ch), k)
           /\ \A k \in ToSet(ch) : TextOnLine(LineWith(ch), k) \/ (inFlight /\ k = Head(ch))
           /\ \A k : TextOnLine(Texts(Sent), k) => TextOnLine(LineWith(ch), k)
<1> DEFINE s == Texts(Sent)
           r == IF inFlight THEN Tail(ch) ELSE ch
<1>1. s \in Seq(Text) /\ r \in Seq(Text)
  BY LineTypes, HeadTailProperties
<1>2. LineWith(ch) = s \o r
  BY DEF LineWith
<1>3. ASSUME NEW k \in Text PROVE LineWith(Append(ch, k)) = Append(LineWith(ch), k)
  <2>1. s \o Append(r, k) = Append(s \o r, k)
    BY <1>1, AppendRight
  <2>2. inFlight => Tail(Append(ch, k)) = Append(Tail(ch), k)
    BY HeadTailAppend
  <2> QED
    BY <1>2, <2>1, <2>2 DEF LineWith
<1>4. ASSUME NEW k \in ToSet(ch) PROVE k \in ToSet(r) \/ (inFlight /\ k = Head(ch))
  BY <1>4, SetOfTail
<1> HIDE DEF r, s
<1>5. \A k : TextOnLine(LineWith(ch), k) <=> k \in ToSet(s) \cup ToSet(r)
  <2>1. \A k : TextOnLine(LineWith(ch), k) <=> k \in ToSet(s \o r)
    BY <1>2 DEF TextOnLine, ToSet
  <2> QED
    BY <1>1, <2>1, SetOfConcat
<1>6. \A k : TextOnLine(s, k) <=> k \in ToSet(s)
  BY DEF TextOnLine, ToSet
<1>7. \A k : TextOnLine(s, k) => TextOnLine(LineWith(ch), k)
  BY <1>5, <1>6
<1>8. LineWith(ch) \in Seq(Text)
  BY <1>1, <1>2, ConcatProperties
<1>9. \A k \in ToSet(ch) : TextOnLine(LineWith(ch), k) \/ (inFlight /\ k = Head(ch))
  BY <1>4, <1>5
<1> QED
  BY <1>3, <1>7, <1>8, <1>9 DEF s

\* What was sent or waits on the chain is on the line.
LEMMA KnownOnLine ==
    ASSUME ReplyTyped, NEW p, PipeTyped(p), SentKeysOnLine(p.chain),
           NEW key \in sentKeys \cup ToSet(p.chain)
    PROVE  TextOnLine(LineWith(p.chain), key)
<1>1. p.chain \in Seq(Text) /\ (inFlight => p.chain # <<>>)
  BY DEF PipeTyped, Pipes
<1> QED
  BY <1>1, LineWithTypes DEF SentKeysOnLine

\* A key that joins the chain does not change which is under way.
LEMMA SameHead ==
    ASSUME NEW p, PipeTyped(p), SentKeysOnLine(p.chain), NEW key \in Text
    PROVE  SentKeysOnLine(Append(p.chain, key))
<1>1. p.chain \in Seq(Text) /\ (inFlight => p.chain # <<>>)
  BY DEF PipeTyped, Pipes
<1>2. inFlight => Head(Append(p.chain, key)) = Head(p.chain)
  BY <1>1, HeadTailAppend
<1> QED
  BY <1>2 DEF SentKeysOnLine

\* The text that waited is flushed into the pipeline.
LEMMA TrackedFlush ==
    ASSUME ReplyTyped, ~aborted, NEW p, NEW B, NEW A, NEW n \in Nat, Tracked(p, B, A, n),
           NEW text \in Text, ToSet(text) = B
    PROVE  Tracked(Flushed(p, text), {}, A, n)
<1>1. /\ PipeTyped(p) /\ SentKeysOnLine(p.chain) /\ p.chain \in Seq(Text) /\ (inFlight => p.chain # <<>>)
      /\ Track(config, attempts, LineWith(p.chain), p.seen, B, A, n)
  BY DEF Tracked, PipeTyped, Pipes
<1>2. BlocksOf(config) \subseteq Nat \ {0} /\ attempts \in Nat \ {0}
  BY ConfigFacts DEF ReplyTyped
<1>3. LineWith(p.chain) \in Seq(Text) /\ LineWith(Append(p.chain, text)) = Append(LineWith(p.chain), text)
  BY <1>1, LineWithTypes
<1>4. CASE text = <<>>
  BY <1>4, SetOfEmpty DEF Flushed
<1>5. CASE text # <<>>
  <2>1. Flushed(p, text) = SendPayload(p, text)
    BY <1>5 DEF Flushed
  <2>2. B # {}
    <3>1. DOMAIN text = 1..Len(text) /\ Len(text) \in Nat \ {0}
      BY <1>5, LenProperties, EmptySeq DEF Text
    <3>2. text[1] \in ToSet(text)
      BY <3>1 DEF ToSet
    <3> QED
      BY <3>2
  <2>3. CASE text \in p.seen
    <3>1. Track(config, attempts, LineWith(p.chain), p.seen, {}, A, n)
      BY <1>1, <1>2, <1>3, <2>2, <2>3, TrackFlushSeen
    <3> QED
      BY <1>1, <2>1, <2>3, <3>1, SendFacts DEF Tracked
  <2>4. CASE text \notin p.seen
    <3>1. Track(config, attempts, Append(LineWith(p.chain), text), p.seen \cup {text}, {}, A, n)
      BY <1>1, <1>2, <1>3, <2>4, TrackFlush
    <3>2. /\ PipeTyped(SendPayload(p, text))
          /\ SendPayload(p, text).seen = p.seen \cup {text}
          /\ SendPayload(p, text).chain = Append(p.chain, text)
      BY <1>1, <2>4, SendFacts
    <3>3. SentKeysOnLine(Append(p.chain, text))
      BY <1>1, SameHead
    <3> QED
      BY <1>3, <2>1, <3>1, <3>2, <3>3 DEF Tracked
  <2> QED
    BY <2>3, <2>4
<1> QED
  BY <1>4, <1>5

\* The next block goes into the pipeline.
LEMMA TrackedSend ==
    ASSUME ReplyTyped, ~aborted, NEW p, NEW A, NEW n \in Nat, Tracked(p, {}, A, n),
           n + 1 \in InTurn(config)
    PROVE  Tracked(SendPayload(p, <<n + 1>>), {}, A, n + 1)
<1> DEFINE t == One(n + 1)
<1>1. /\ PipeTyped(p) /\ SentKeysOnLine(p.chain) /\ p.chain \in Seq(Text) /\ (inFlight => p.chain # <<>>)
      /\ Track(config, attempts, LineWith(p.chain), p.seen, {}, A, n)
  BY DEF Tracked, PipeTyped, Pipes
<1>2. BlocksOf(config) \subseteq Nat \ {0} /\ attempts \in Nat \ {0} /\ t \in Text
  BY ConfigFacts DEF ReplyTyped
<1>3. LineWith(p.chain) \in Seq(Text) /\ LineWith(Append(p.chain, t)) = Append(LineWith(p.chain), t)
  BY <1>1, <1>2, LineWithTypes
<1>4. CASE t \in p.seen
  <2>1. Track(config, attempts, LineWith(p.chain), p.seen, {}, A, n + 1)
    BY <1>1, <1>2, <1>3, <1>4, TrackSeen
  <2> QED
    BY <1>1, <1>2, <1>4, <2>1, SendFacts DEF Tracked, One
<1>5. CASE t \notin p.seen
  <2>1. Track(config, attempts, Append(LineWith(p.chain), t), p.seen \cup {t}, {}, A, n + 1)
    BY <1>1, <1>2, <1>3, <1>5, TrackOne
  <2>2. /\ PipeTyped(SendPayload(p, t))
        /\ SendPayload(p, t).seen = p.seen \cup {t} /\ SendPayload(p, t).chain = Append(p.chain, t)
    BY <1>1, <1>2, <1>5, SendFacts
  <2>3. SentKeysOnLine(Append(p.chain, t))
    BY <1>1, <1>2, SameHead
  <2>4. Tracked(SendPayload(p, t), {}, A, n + 1)
    BY <1>3, <2>1, <2>2, <2>3 DEF Tracked
  <2> QED
    BY <2>4 DEF One
<1> QED
  BY <1>4, <1>5

\* All the audio that waits is handed over, each once.
LEMMA TrackedAudio ==
    ASSUME ReplyTyped, ~aborted, NEW p, NEW n \in Nat, Tracked(p, {}, ToSet(audio), n)
    PROVE  Tracked(AudioFlushed(p), {}, {}, n)
<1> DEFINE N == Len(audio)
           Left(i) == {audio[j] : j \in (i + 1)..N}
           G == [i \in 0..N |-> {q \in Pipes : Tracked(q, {}, Left(i), n)}]
<1>1. /\ audio \in Seq(Text) /\ N \in Nat /\ DOMAIN audio = 1..N
      /\ \A i, j \in 1..N : audio[i] = audio[j] => i = j
      /\ \A i \in 1..N : audio[i] \in Text
  BY LenProperties, ElementOfSeq DEF ReplyTyped, PipelineTyped, IsInjective
<1>2. Left(0) = ToSet(audio) /\ Left(N) = {}
  <2>1. \A j \in (N + 1)..N : FALSE
    BY <1>1
  <2>2. (0 + 1)..N = 1..N
    OBVIOUS
  <2> QED
    BY <1>1, <2>1, <2>2 DEF ToSet
<1>3. ASSUME NEW i \in 1..N PROVE audio[i] \in Left(i - 1) /\ Left(i) = Left(i - 1) \ {audio[i]}
  <2>1. \A j : j \in ((i - 1) + 1)..N <=> j = i \/ j \in (i + 1)..N
    BY <1>1
  <2>2. \A j \in (i + 1)..N : j \in 1..N /\ j # i
    BY <1>1
  <2> HIDE DEF N
  <2>3. audio[i] \in Left(i - 1)
    BY <2>1
  <2>4. \A x : x \in Left(i - 1) <=> x = audio[i] \/ x \in Left(i)
    BY <2>1
  <2>5. audio[i] \notin Left(i)
    BY <1>1, <2>2
  <2> QED
    BY <2>3, <2>4, <2>5
<1>4. p \in Pipes /\ p \in G[0]
  <2>1. p \in Pipes /\ 0 \in 0..N
    BY <1>1 DEF Tracked, PipeTyped
  <2>2. Tracked(p, {}, Left(0), n)
    BY <1>2
  <2> HIDE DEF N, Left
  <2> QED
    BY <2>1, <2>2
<1>5. ASSUME NEW i \in 1..N, NEW q \in Pipes, q \in G[i - 1]
      PROVE  Chained(q, audio[i]) \in G[i]
  <2> DEFINE t == audio[i]
             A == Left(i - 1)
  <2>1. i \in 0..N /\ i - 1 \in 0..N
    BY <1>1
  <2>2. Tracked(q, {}, A, n) /\ t \in A /\ Left(i) = A \ {t} /\ t \in Text
    BY <1>1, <1>3, <1>5, <2>1
  <2> HIDE DEF A, Left
  <2>3. /\ PipeTyped(q) /\ SentKeysOnLine(q.chain) /\ q.chain \in Seq(Text) /\ (inFlight => q.chain # <<>>)
        /\ Track(config, attempts, LineWith(q.chain), q.seen, {}, A, n)
    BY <2>2 DEF Tracked, PipeTyped, Pipes
  <2>4. BlocksOf(config) \subseteq Nat \ {0} /\ attempts \in Nat \ {0}
    BY ConfigFacts DEF ReplyTyped
  <2>5. LineWith(q.chain) \in Seq(Text) /\ LineWith(Append(q.chain, t)) = Append(LineWith(q.chain), t)
    BY <2>2, <2>3, LineWithTypes
  <2>6. /\ Track(config, attempts, Append(LineWith(q.chain), t), q.seen, {}, A \ {t}, n)
        /\ TextOnLine(LineWith(q.chain), t) => Track(config, attempts, LineWith(q.chain), q.seen, {}, A \ {t}, n)
    BY <2>2, <2>3, <2>4, <2>5, TrackAudioFlush
  <2>7. t \in q.seen
    BY <2>2, <2>3 DEF Track
  <2>8. PipeTyped(Chained(q, t))
    BY <2>3, <2>7, ChainedFacts
  <2>9. Tracked(Chained(q, t), {}, A \ {t}, n)
    <3>1. CASE t \in sentKeys \cup ToSet(q.chain)
      BY <2>3, <2>6, <3>1, KnownOnLine DEF Tracked, Chained
    <3>2. CASE t \notin sentKeys \cup ToSet(q.chain)
      <4>1. Chained(q, t).chain = Append(q.chain, t) /\ Chained(q, t).seen = q.seen
        BY <3>2 DEF Chained, Pipes
      <4>2. SentKeysOnLine(Append(q.chain, t))
        BY <2>2, <2>3, SameHead
      <4> QED
        BY <2>5, <2>6, <2>8, <4>1, <4>2 DEF Tracked
    <3> QED
      BY <3>1, <3>2
  <2> QED
    BY <2>1, <2>2, <2>8, <2>9 DEF PipeTyped
<1> HIDE DEF G, Left
<1>6. AudioFlushed(p) \in G[N]
  BY <1>1, <1>4, <1>5, AudioLoop
<1>7. N \in 0..N
  BY <1>1
<1> HIDE DEF N
<1>8. Tracked(AudioFlushed(p), {}, Left(N), n)
  BY <1>6, <1>7 DEF G
<1> QED
  BY <1>2, <1>8

TrackedNow == Tracked(Pipe, ToSet(buffer), ToSet(audio), said)

\* What is known of the pipeline a step computes is known after the step.
LEMMA BecomesTracked ==
    ASSUME NEW q, NEW B, NEW A, NEW n, Tracked(q, B, A, n), PipeBecomes(q),
           UNCHANGED <<sentKeys, inFlight, tried, queue, config, attempts>>,
           ToSet(buffer') = B, ToSet(audio') = A, said' = n
    PROVE  TrackedNow'
<1>1. PipeTyped(Pipe)'
  BY BecomesTyped DEF Tracked
<1>2. q.seen = seenKeys' /\ q.chain = chain' /\ (Pipe.seen)' = seenKeys' /\ (Pipe.chain)' = chain'
  BY DEF PipeBecomes, Pipe
<1>3. Texts(Sent)' = Texts(Sent)
  BY DEF Sent
<1>4. LineWith(Pipe.chain)' = LineWith(q.chain)
  BY <1>2, <1>3 DEF LineWith
<1>5. SentKeysOnLine(Pipe.chain)'
  BY <1>2, <1>3 DEF Tracked, SentKeysOnLine
<1>6. Track(config, attempts, LineWith(Pipe.chain), Pipe.seen, ToSet(buffer), ToSet(audio), said)'
  BY <1>2, <1>4 DEF Tracked
<1> QED
  BY <1>1, <1>5, <1>6 DEF TrackedNow, Tracked

\* A step that leaves the pipeline and the line alone keeps what is known.
LEMMA SameTracked ==
    ASSUME TrackedNow, UNCHANGED <<pipelineVars, tried, queue, config, attempts, said>>
    PROVE  TrackedNow'
<1>1. PipeBecomes(Pipe)
  BY DEF PipeBecomes, Pipe, pipelineVars
<1> QED
  BY <1>1, BecomesTracked DEF TrackedNow, pipelineVars

\* The flush at the end of the run keeps it ...
LEMMA FlushAllTracked ==
    ASSUME ReplyTyped, ~aborted, TrackedNow, FlushAll, UNCHANGED <<tried, queue, config, attempts, said>>
    PROVE  TrackedNow'
<1> DEFINE q == Flushed(Pipe, buffer)
           r == AudioFlushed(q)
<1>1. buffer \in Text /\ said \in Nat
  BY ConfigFacts DEF ReplyTyped, PipelineTyped
<1>2. Tracked(q, {}, ToSet(audio), said)
  BY <1>1, TrackedFlush DEF TrackedNow
<1> HIDE DEF q
<1>3. Tracked(r, {}, {}, said)
  BY <1>1, <1>2, TrackedAudio
<1>4. PipeBecomes(r) /\ buffer' = <<>> /\ audio' = <<>> /\ UNCHANGED <<sentKeys, inFlight>>
  BY DEF FlushAll, q
<1> HIDE DEF r
<1> QED
  BY <1>3, <1>4, SetOfEmpty, BecomesTracked

\* ... and that of the idle timer.
LEMMA IdleFlushTracked ==
    ASSUME ReplyTyped, ~aborted, TrackedNow, IdleFlush
    PROVE  TrackedNow'
<1> DEFINE q == Flushed(Pipe, buffer)
<1>1. buffer \in Text /\ said \in Nat
  BY ConfigFacts DEF ReplyTyped, PipelineTyped
<1>2. Tracked(q, {}, ToSet(audio), said)
  BY <1>1, TrackedFlush DEF TrackedNow
<1>3. /\ PipeBecomes(q) /\ buffer' = <<>> /\ audio' = audio
      /\ UNCHANGED <<sentKeys, inFlight, tried, queue, config, attempts, said>>
  BY DEF IdleFlush, runVars, sendVars
<1> HIDE DEF q
<1> QED
  BY <1>2, <1>3, SetOfEmpty, BecomesTracked

\* A block that is said next is tracked, whatever its kind.
LEMMA EnqueueTracked ==
    ASSUME ReplyTyped, ~aborted, TrackedNow, said < Len(config.kinds), said' = said + 1,
           Enqueue(said + 1), UNCHANGED <<tried, queue, config, attempts>>
    PROVE  TrackedNow'
<1> DEFINE b == said + 1
           key == <<b>>
           L == LineWith(chain)
<1>1. /\ BlocksOf(config) \subseteq Nat \ {0} /\ attempts \in Nat \ {0} /\ said \in Nat
      /\ b \in BlocksOf(config) /\ key \in Text /\ key = One(b)
      /\ config.kinds[b] \in {"text", "media", "audio"} /\ (b \in InTurn(config) <=> config.kinds[b] # "audio")
  <2>1. RunTyped /\ said \in Nat /\ Len(config.kinds) \in Nat /\ BlocksOf(config) = 1..Len(config.kinds)
    BY ConfigFacts DEF ReplyTyped
  <2>2. b \in BlocksOf(config)
    BY <2>1
  <2> QED
    BY <2>1, <2>2, ConfigFacts DEF One
<1>2. /\ Pipe.seen = seenKeys /\ Pipe.chain = chain /\ PipeTyped(Pipe) /\ SentKeysOnLine(chain)
      /\ Track(config, attempts, L, seenKeys, ToSet(buffer), ToSet(audio), said)
      /\ chain \in Seq(Text) /\ ToSet(chain) \subseteq seenKeys /\ L \in Seq(Text)
  <2>1. Pipe.seen = seenKeys /\ Pipe.chain = chain
    BY DEF Pipe
  <2>2. PipeTyped(Pipe) /\ SentKeysOnLine(chain)
        /\ Track(config, attempts, L, seenKeys, ToSet(buffer), ToSet(audio), said)
    BY <2>1 DEF TrackedNow, Tracked
  <2>3. chain \in Seq(Text) /\ ToSet(chain) \subseteq seenKeys /\ (inFlight => chain # <<>>)
    BY <2>1, <2>2 DEF PipeTyped, Pipes
  <2> QED
    BY <2>1, <2>2, <2>3, LineWithTypes
<1>3. UNCHANGED <<sentKeys, inFlight>> /\ buffer \in Text /\ audio \in Seq(Text)
  BY DEF Enqueue, ReplyTyped, PipelineTyped
<1> HIDE DEF b, L
<1>4. ASSUME NEW S, NEW B, NEW A, Track(config, attempts, L, S, B, A, b),
             S = seenKeys', chain' = chain, ToSet(buffer') = B, ToSet(audio') = A,
             S \subseteq Text, seenKeys \subseteq S
      PROVE  TrackedNow'
  <2> DEFINE q == [seen |-> S, chain |-> chain]
  <2>1. q.seen = S /\ q.chain = chain /\ q \in Pipes
    BY <1>2, <1>4 DEF Pipes
  <2>2. PipeTyped(q)
    BY <1>2, <1>4, <2>1 DEF PipeTyped
  <2>3. PipeBecomes(q)
    BY <1>4, <2>1 DEF PipeBecomes
  <2> HIDE DEF q
  <2>4. Tracked(q, B, A, b)
    BY <1>2, <1>4, <2>1, <2>2 DEF Tracked, L
  <2> QED
    BY <1>3, <1>4, <2>3, <2>4, BecomesTracked DEF b
<1>5. CASE config.kinds[b] = "audio"
  <2>1. EnqueueAudio(key)
    BY <1>5 DEF Enqueue, b
  <2>2. UNCHANGED <<buffer, chain>>
    BY <2>1 DEF EnqueueAudio
  <2>3. CASE IsNew(key)
    <3>1. seenKeys' = seenKeys \cup {key} /\ audio' = Append(audio, key) /\ key \notin seenKeys
      BY <2>1, <2>3 DEF EnqueueAudio, IsNew
    <3>2. Track(config, attempts, L, seenKeys \cup {key}, ToSet(buffer), ToSet(audio) \cup {key}, b)
      BY <1>1, <1>2, <1>5, <3>1, TrackAudio DEF b
    <3>3. ToSet(audio') = ToSet(audio) \cup {key}
      BY <1>1, <1>3, <3>1, SetOfAppend
    <3>4. seenKeys \subseteq Text
      BY <1>2 DEF PipeTyped, Pipes
    <3> HIDE DEF key
    <3> QED
      BY <1>1, <1>4, <2>2, <3>1, <3>2, <3>3, <3>4
  <2>4. CASE ~IsNew(key)
    <3>1. UNCHANGED <<seenKeys, audio>> /\ key \in seenKeys
      BY <1>2, <2>1, <2>4 DEF EnqueueAudio, IsNew
    <3>2. Track(config, attempts, L, seenKeys, ToSet(buffer), ToSet(audio), b)
      BY <1>1, <1>2, <3>1, TrackSeen DEF b
    <3>3. seenKeys \subseteq Text
      BY <1>2 DEF PipeTyped, Pipes
    <3> QED
      BY <1>4, <2>2, <3>1, <3>2, <3>3
  <2> QED
    BY <2>3, <2>4
<1>6. CASE config.kinds[b] = "media"
  <2> DEFINE q == Flushed(Pipe, buffer)
             r == SendPayload(q, key)
  <2>1. EnqueueMedia(key) /\ b \in InTurn(config)
    BY <1>1, <1>6 DEF Enqueue, b
  <2>2. PipeBecomes(r) /\ buffer' = <<>> /\ audio' = audio
    BY <2>1 DEF EnqueueMedia
  <2>3. Tracked(q, {}, ToSet(audio), said)
    BY <1>1, <1>3, TrackedFlush DEF TrackedNow
  <2> HIDE DEF q
  <2>4. Tracked(r, {}, ToSet(audio), b)
    BY <1>1, <2>1, <2>3, TrackedSend DEF b
  <2> HIDE DEF r
  <2> QED
    BY <1>3, <2>2, <2>4, SetOfEmpty, BecomesTracked DEF b
<1>7. CASE config.kinds[b] = "text"
  <2>1. EnqueueText(key) /\ b \in InTurn(config) /\ audio' = audio
    BY <1>1, <1>7 DEF Enqueue, EnqueueText, b
  <2>2. CASE ~config.coalescing
    <3> DEFINE r == SendPayload(Pipe, key)
    <3>1. PipeBecomes(r) /\ buffer' = buffer
      BY <2>1, <2>2 DEF EnqueueText
    <3>2. ToSet(buffer) = {}
      BY <1>2, <2>2 DEF Track
    <3>3. Tracked(r, {}, ToSet(audio), b)
      BY <1>1, <2>1, <3>2, TrackedSend DEF b, TrackedNow
    <3> HIDE DEF r
    <3> QED
      BY <1>3, <2>1, <3>1, <3>2, <3>3, BecomesTracked DEF b
  <2>3. CASE config.coalescing
    <3> DEFINE merged == buffer \o key
    <3>1. merged \in Text /\ ToSet(merged) = ToSet(buffer) \cup {b}
      <4>1. merged \in Text
        BY <1>1, <1>3, ConcatProperties DEF Text
      <4>2. ToSet(merged) = ToSet(buffer) \cup ToSet(key)
        <5>1. buffer \in Seq(0..Error) /\ key \in Seq(0..Error)
          BY <1>1, <1>3 DEF Text
        <5> HIDE DEF key
        <5> QED
          BY <5>1, SetOfConcat
      <4>3. ToSet(key) = {b}
        BY SetOfOne
      <4> HIDE DEF merged, key
      <4> QED
        BY <4>1, <4>2, <4>3
    <3>2. CASE ~IsNew(key) \/ ToSet(key) \subseteq ToSet(buffer)
      <4>1. UNCHANGED <<buffer, seenKeys, chain>>
        BY <2>1, <2>3, <3>2 DEF EnqueueText
      <4>2. key \in seenKeys \/ b \in ToSet(buffer)
        BY <1>2, <3>2, SetOfOne DEF IsNew
      <4>3. Track(config, attempts, L, seenKeys, ToSet(buffer), ToSet(audio), b)
        BY <1>1, <1>2, <4>2, TrackSeen DEF b
      <4>4. seenKeys \subseteq Text
        BY <1>2 DEF PipeTyped, Pipes
      <4> QED
        BY <1>4, <2>1, <4>1, <4>3, <4>4
    <3>3. CASE ~(~IsNew(key) \/ ToSet(key) \subseteq ToSet(buffer))
      <4>1. Track(config, attempts, L, seenKeys, ToSet(merged), ToSet(audio), b)
        <5>1. Track(config, attempts, L, seenKeys, ToSet(buffer) \cup {b}, ToSet(audio), b)
          BY <1>1, <1>2, <2>1, <2>3, TrackMerge DEF b
        <5> QED
          BY <3>1, <5>1
      <4> HIDE DEF merged
      <4>2. CASE Len(merged) >= MaxChars
        <5> DEFINE r == Flushed(Pipe, merged)
        <5>1. PipeBecomes(r) /\ buffer' = <<>>
          BY <2>1, <2>3, <3>3, <4>2 DEF EnqueueText, merged
        <5>2. Tracked(Pipe, ToSet(merged), ToSet(audio), b)
          BY <1>2, <4>1 DEF Tracked, L
        <5>3. Tracked(r, {}, ToSet(audio), b)
          BY <1>1, <3>1, <5>2, TrackedFlush
        <5> HIDE DEF r
        <5> QED
          BY <1>3, <2>1, <5>1, <5>3, SetOfEmpty, BecomesTracked DEF b
      <4>3. CASE ~(Len(merged) >= MaxChars)
        <5>1. buffer' = merged /\ UNCHANGED <<seenKeys, chain>>
          BY <2>1, <2>3, <3>3, <4>3 DEF EnqueueText, merged
        <5>2. seenKeys \subseteq Text
          BY <1>2 DEF PipeTyped, Pipes
        <5> QED
          BY <1>4, <2>1, <4>1, <5>1, <5>2
      <4> QED
        BY <4>2, <4>3
    <3> QED
      BY <3>2, <3>3
  <2> QED
    BY <2>2, <2>3
<1> QED
  BY <1>1, <1>5, <1>6, <1>7

--------------------------------------------------------------------------------
(* The line keeps its order through every step *)

\* Blocks are in order on the line, none is twice on it, and the pipeline knows it.
OrderOK == InOrder(config, Line)
OnceOK == aborted \/ Repeats(config, attempts) \/ Once(config, Line)
TrackOK == phase \in {"running", "flushing"} /\ ~aborted => TrackedNow
\* What counts as sent was sent; while nothing does, no block was.
KeysOK ==
    /\ SentKeysOnLine(chain)
    /\ phase \in {"running", "flushing"} /\ ~aborted /\ ~inFlight /\ sentKeys = {} =>
          \A b \in BlocksOf(config) : ~OnLine(Texts(Sent), b)
LineOK == OrderOK /\ OnceOK /\ TrackOK /\ KeysOK

\* While the pipeline may go on, what is known of it tells what the line is.
LEMMA TrackedLine ==
    ASSUME TrackedNow', phase' \in {"running", "flushing"}, ~aborted'
    PROVE  OrderOK' /\ OnceOK' /\ SentKeysOnLine(chain)'
<1>1. Line' = LineWith(chain)'
  BY DEF Line, LineWith, Rest, Pending, AfterRun
<1>2. (Pipe.chain)' = chain' /\ (Pipe.seen)' = seenKeys'
  BY DEF Pipe
<1>3. /\ SentKeysOnLine(chain)'
      /\ Track(config', attempts', LineWith(chain)', seenKeys', ToSet(buffer'), ToSet(audio'), said')
  BY <1>2 DEF TrackedNow, Tracked
<1> QED
  BY <1>1, <1>3 DEF Track, OrderOK, OnceOK

\* The line and what is known of it stay as they are.
LEMMA SameLine ==
    ASSUME LineOK, UNCHANGED <<config, attempts, said, pipelineVars>>,
           Line' = Line, Texts(Sent)' = Texts(Sent),
           phase' \in {"running", "flushing"} => phase \in {"running", "flushing"}
    PROVE  LineOK'
<1>1. TrackOK'
  <2> SUFFICES ASSUME phase' \in {"running", "flushing"}, ~aborted' PROVE TrackedNow'
    BY DEF TrackOK
  <2>1. TrackedNow
    BY DEF LineOK, TrackOK, pipelineVars
  <2>2. PipeTyped(Pipe)'
    BY <2>1, SamePipe DEF TrackedNow, Tracked, pipelineVars
  <2>3. LineWith(Pipe.chain)' = LineWith(Pipe.chain) /\ Pipe' = Pipe
    BY DEF LineWith, Pipe, pipelineVars
  <2>4. SentKeysOnLine(Pipe.chain)'
    BY <2>1, <2>3 DEF TrackedNow, Tracked, SentKeysOnLine, pipelineVars
  <2>5. Track(config, attempts, LineWith(Pipe.chain), Pipe.seen, ToSet(buffer), ToSet(audio), said)'
    BY <2>1, <2>3 DEF TrackedNow, Tracked, pipelineVars
  <2> QED
    BY <2>2, <2>4, <2>5 DEF TrackedNow, Tracked
<1>2. OrderOK' /\ OnceOK'
  BY DEF LineOK, OrderOK, OnceOK, pipelineVars
<1>3. KeysOK'
  BY DEF LineOK, KeysOK, SentKeysOnLine, pipelineVars
<1> QED
  BY <1>1, <1>2, <1>3 DEF LineOK

\* The pipeline takes in what the agent says, or flushes.
LEMMA PipelineLine ==
    ASSUME ReplyTyped, ReplyTyped', PhaseOK, LineOK,
           EmitBlock \/ ToolStarts \/ IdleFlush \/ AgentEnds
    PROVE  LineOK'
<1>1. /\ phase = "running" /\ phase' \in {"running", "flushing"}
      /\ UNCHANGED <<config, attempts, tried, queue, sentKeys, inFlight, aborted>>
  BY DEF EmitBlock, Enqueue, ToolStarts, FlushAll, IdleFlush, AgentEnds, runVars, sendVars
<1>2. Sent' = Sent /\ Texts(Sent)' = Texts(Sent)
  BY <1>1 DEF Sent
<1>3. CASE ~aborted
  <2>1. TrackedNow
    BY <1>1, <1>3 DEF LineOK, TrackOK
  <2>2. TrackedNow'
    <3>1. CASE EmitBlock
      BY <1>1, <1>3, <2>1, <3>1, EnqueueTracked DEF EmitBlock
    <3>2. CASE ToolStarts \/ AgentEnds
      BY <1>1, <1>3, <2>1, <3>2, FlushAllTracked DEF ToolStarts, AgentEnds, runVars
    <3>3. CASE IdleFlush
      BY <1>3, <2>1, <3>3, IdleFlushTracked
    <3> QED
      BY <3>1, <3>2, <3>3
  <2>3. OrderOK' /\ OnceOK' /\ SentKeysOnLine(chain)'
    BY <1>1, <1>3, <2>2, TrackedLine
  <2>4. KeysOK'
    BY <1>1, <1>2, <1>3, <2>3 DEF LineOK, KeysOK
  <2> QED
    BY <2>2, <2>3, <2>4 DEF LineOK, TrackOK
<1>4. CASE aborted
  <2>1. Rest = <<>> /\ Rest' = <<>>
    BY <1>1, <1>4 DEF Rest, Pending, AfterRun
  <2>2. Line' = Line
    BY <1>2, <2>1 DEF Line
  <2>3. ~inFlight
    BY <1>4 DEF PhaseOK
  <2> QED
    BY <1>1, <1>2, <1>4, <2>2, <2>3 DEF LineOK, OrderOK, OnceOK, TrackOK, KeysOK, SentKeysOnLine
<1> QED
  BY <1>3, <1>4

\* Another attempt says its blocks on the same line.
LEMMA FallBackLine ==
    ASSUME ReplyTyped, LineOK, FallBack
    PROVE  LineOK'
<1>1. /\ attempts' = attempts + 1 /\ said' = 0
      /\ UNCHANGED <<config, phase, outcome, pipelineVars, tried, queue, finals>>
  BY DEF FallBack, sendVars
<1>2. Sent' = Sent /\ Line' = Line
  BY <1>1 DEF Sent, Line, Rest, Pending, AfterRun, pipelineVars
<1>3. attempts \in Nat \ {0}
  BY ConfigFacts DEF ReplyTyped
<1>4. TrackOK'
  <2> SUFFICES ASSUME phase \in {"running", "flushing"}, ~aborted PROVE TrackedNow'
    BY <1>1 DEF TrackOK, pipelineVars
  <2>1. PipeTyped(Pipe) /\ SentKeysOnLine(chain)
        /\ Track(config, attempts, LineWith(chain), seenKeys, ToSet(buffer), ToSet(audio), said)
    BY DEF LineOK, TrackOK, TrackedNow, Tracked, Pipe
  <2>2. Track(config, attempts + 1, LineWith(chain), seenKeys, ToSet(buffer), ToSet(audio), 0)
    BY <1>3, <2>1, TrackAgain
  <2>3. PipeTyped(Pipe)' /\ (Pipe.chain)' = chain' /\ (Pipe.seen)' = seenKeys'
    BY <1>1, <2>1, SamePipe DEF pipelineVars, Pipe
  <2>4. LineWith(chain)' = LineWith(chain) /\ SentKeysOnLine(chain)'
    BY <1>1, <1>2, <2>1 DEF LineWith, SentKeysOnLine, pipelineVars
  <2>5. Track(config, attempts, LineWith(chain), seenKeys, ToSet(buffer), ToSet(audio), said)'
    BY <1>1, <2>2, <2>4 DEF pipelineVars
  <2> QED
    BY <2>3, <2>4, <2>5 DEF TrackedNow, Tracked
<1>5. Repeats(config, attempts) => Repeats(config, attempts)'
  BY <1>1, <1>3 DEF Repeats
<1> QED
  BY <1>1, <1>2, <1>4, <1>5 DEF LineOK, OrderOK, OnceOK, KeysOK, SentKeysOnLine, pipelineVars

\* A block is handed over, and a route answers.
LEMMA ChainLine ==
    ASSUME ReplyTyped, ReplyTyped', PhaseOK, LineOK, SendBlock \/ BlockRouted
    PROVE  LineOK'
<1>1. /\ UNCHANGED <<config, phase, outcome, attempts, said, buffer, audio, seenKeys, aborted, finals>>
      /\ chain # <<>> /\ chain \in Seq(Text)
  BY DEF SendBlock, BlockRouted, runVars, sendVars, ReplyTyped, PipelineTyped, PipeTyped, Pipe, Pipes
<1>2. Line' = Line
  BY SendBlockLine, RoutedLine
<1> DEFINE T == Texts(Sent)
           k == Head(chain)
<1>3. k \in Text /\ T \in Seq(Text)
  BY <1>1, HeadTailProperties, LineTypes
<1>10. Sent' = Append(Sent, Payload("block", k)) => T' = Append(T, k)
  <2> DEFINE p == Payload("block", k)
  <2>1. p \in Payloads /\ p.text = k
    BY <1>3, PayloadTypes
  <2> HIDE DEF p
  <2>2. Texts(Append(Sent, p)) = Append(Texts(Sent), k)
    BY <2>1, LineTypes, TextsAppend
  <2> QED
    BY <2>2 DEF p
<1>4. T' = T \/ T' = Append(T, k)
  <2>1. CASE Sent' = Sent
    BY <2>1
  <2>2. CASE Sent' = Append(Sent, Payload("block", k))
    BY <1>3, <1>10, <2>2
  <2> QED
    BY <2>1, <2>2, SendBlockLine, RoutedLine
<1>5. \A x : TextOnLine(T, x) => TextOnLine(T', x)
  BY <1>3, <1>4, AppendLine
<1>8. SentKeysOnLine(chain)
  BY DEF LineOK, KeysOK
<1>9. (\A x \in sentKeys : TextOnLine(T, x)) /\ (inFlight => TextOnLine(T, k))
  BY <1>8 DEF SentKeysOnLine
<1>6. CASE aborted
  <2>1. ~inFlight /\ sentKeys' = sentKeys /\ ~inFlight'
    <3>1. ~inFlight
      BY <1>6 DEF PhaseOK
    <3>2. SendBlock
      BY <3>1 DEF BlockRouted
    <3>3. UNCHANGED <<sentKeys, inFlight>>
      BY <1>6, <3>2 DEF SendBlock
    <3> QED
      BY <3>1, <3>3
  <2>3. \A x \in sentKeys' : TextOnLine(T', x)
    BY <1>5, <1>9, <2>1
  <2>2. SentKeysOnLine(chain)'
    BY <2>1, <2>3 DEF SentKeysOnLine
  <2> QED
    BY <1>1, <1>2, <1>6, <2>2 DEF LineOK, OrderOK, OnceOK, TrackOK, KeysOK
<1>7. CASE ~aborted
  <2>1. TextOnLine(T', k)
    <3>1. CASE SendBlock
      <4>1. T' = Append(T, k)
        BY <1>7, <1>10, <3>1, SendBlockLine
      <4> QED
        BY <1>3, <4>1, AppendLine
    <3>2. CASE BlockRouted
      <4>1. inFlight
        BY <3>2 DEF BlockRouted
      <4> QED
        BY <1>5, <1>9, <4>1
    <3> QED
      BY <3>1, <3>2
  <2>2. sentKeys' \in {sentKeys, sentKeys \cup {k}} /\ (inFlight' => chain' = chain)
    <3>1. CASE SendBlock
      <4>1. ~config.routed => chain' = Tail(chain) /\ inFlight' = inFlight /\ ~inFlight
        BY <1>7, <3>1 DEF SendBlock, LeaveChain
      <4> QED
        BY <1>7, <3>1, <4>1 DEF SendBlock
    <3>2. CASE BlockRouted
      BY <3>2 DEF BlockRouted
    <3> QED
      BY <3>1, <3>2
  <2>7. \A x \in sentKeys' : TextOnLine(T', x)
    BY <1>5, <1>9, <2>1, <2>2
  <2>3. SentKeysOnLine(chain)'
    BY <2>1, <2>2, <2>7 DEF SentKeysOnLine
  <2>4. inFlight' \/ sentKeys' # {}
    BY <1>7 DEF SendBlock, BlockRouted
  <2>5. KeysOK'
    BY <2>3, <2>4 DEF KeysOK
  <2>6. TrackOK'
    <3> SUFFICES ASSUME phase' \in {"running", "flushing"}, ~aborted' PROVE TrackedNow'
      BY DEF TrackOK
    <3>1. (Pipe.chain)' = chain' /\ (Pipe.seen)' = seenKeys' /\ Pipe.chain = chain /\ Pipe.seen = seenKeys
      BY DEF Pipe
    <3>2. Line = LineWith(chain) /\ Line' = LineWith(chain)'
      BY <1>1 DEF Line, LineWith, Rest, Pending, AfterRun
    <3>3. Track(config, attempts, LineWith(chain), seenKeys, ToSet(buffer), ToSet(audio), said)
      BY <1>1, <3>1 DEF LineOK, TrackOK, TrackedNow, Tracked
    <3>4. Track(config', attempts', LineWith(chain)', seenKeys', ToSet(buffer'), ToSet(audio'), said')
      BY <1>1, <1>2, <3>2, <3>3
    <3>5. PipeTyped(Pipe)'
      BY DEF ReplyTyped, PipelineTyped
    <3> QED
      BY <2>3, <3>1, <3>4, <3>5 DEF TrackedNow, Tracked
  <2> QED
    BY <1>1, <1>2, <2>5, <2>6 DEF LineOK, OrderOK, OnceOK
<1> QED
  BY <1>6, <1>7

--------------------------------------------------------------------------------
(* The end of the run, and what arrives beside the pipeline *)

\* Places of a line that is put together.
LEMMA ConcatLine ==
    ASSUME NEW s \in Seq(Text), NEW r \in Seq(Text)
    PROVE  /\ Len(s) \in Nat /\ Len(r) \in Nat /\ DOMAIN s = 1..Len(s) /\ DOMAIN r = 1..Len(r)
           /\ DOMAIN (s \o r) = 1..(Len(s) + Len(r)) /\ s \o r \in Seq(Text)
           /\ \A i \in 1..Len(s) : i \in DOMAIN (s \o r) /\ (s \o r)[i] = s[i]
           /\ \A i \in 1..Len(r) : i + Len(s) \in DOMAIN (s \o r) /\ (s \o r)[i + Len(s)] = r[i]
           /\ \A i \in DOMAIN (s \o r) :
                 i \in 1..Len(s) \/ (i - Len(s) \in 1..Len(r) /\ (s \o r)[i] = r[i - Len(s)])
<1> DEFINE L == s \o r
<1>1. /\ Len(s) \in Nat /\ Len(r) \in Nat /\ DOMAIN s = 1..Len(s) /\ DOMAIN r = 1..Len(r)
      /\ DOMAIN L = 1..(Len(s) + Len(r)) /\ L \in Seq(Text)
      /\ \A i \in 1..(Len(s) + Len(r)) : L[i] = IF i <= Len(s) THEN s[i] ELSE r[i - Len(s)]
  BY ConcatProperties, LenProperties
<1> HIDE DEF L
<1>2. \A i \in 1..Len(s) : i \in DOMAIN L /\ L[i] = s[i]
  BY <1>1
<1>3. \A i \in 1..Len(r) : i + Len(s) \in DOMAIN L /\ L[i + Len(s)] = r[i]
  BY <1>1, SMTT(60)
<1>4. \A i \in DOMAIN L : i \in 1..Len(s) \/ (i - Len(s) \in 1..Len(r) /\ L[i] = r[i - Len(s)])
  BY <1>1
<1> QED
  BY <1>1, <1>2, <1>3, <1>4 DEF L

\* The beginning of a line in order is in order.
LEMMA PrefixLine ==
    ASSUME NEW s \in Seq(Text), NEW r \in Seq(Text), NEW c
    PROVE  /\ InOrder(c, s \o r) => InOrder(c, s)
           /\ \A k : TextOnLine(s, k) => TextOnLine(s \o r, k)
<1> DEFINE L == s \o r
<1>1. /\ Len(s) \in Nat /\ DOMAIN s = 1..Len(s)
      /\ \A i \in 1..Len(s) : i \in DOMAIN L /\ L[i] = s[i]
  BY ConcatLine
<1> HIDE DEF L
<1>2. \A k : TextOnLine(s, k) => TextOnLine(L, k)
  BY <1>1 DEF TextOnLine
<1>3. ASSUME InOrder(c, L), NEW p \in 1..Len(s), NEW x \in InTurn(c), NEW y \in InTurn(c),
             x < y, Has(s[p], y)
      PROVE  \E q \in 1..p : Has(s[q], x)
  <2>1. PICK q \in 1..p : Has(L[q], x)
    BY <1>1, <1>3 DEF InOrder
  <2>2. q \in 1..Len(s)
    BY <1>1
  <2> QED
    BY <1>1, <2>1, <2>2
<1>4. InOrder(c, L) => InOrder(c, s)
  BY <1>1, <1>3 DEF InOrder
<1> QED
  BY <1>2, <1>4 DEF L

\* The block that a payload of the run carries, and the payload of a block.
LEMMA PayloadOfBlock ==
    ASSUME RunTyped
    PROVE  LET at(b) == IF withError THEN b + 1 ELSE b
           IN  /\ \A b \in 1..said : at(b) \in 1..Len(RunPayloads) /\ RunPayloads[at(b)] = One(b)
               /\ \A i \in 1..Len(RunPayloads), b \in BlocksOf(config) :
                     Has(RunPayloads[i], b) => b \in 1..said /\ i = at(b)
<1> DEFINE at(b) == IF withError THEN b + 1 ELSE b
<1>1. RunPayloadsTyped /\ said \in Nat
  BY RunPayloadsFacts, ConfigFacts
<1>2. ASSUME NEW b \in 1..said PROVE at(b) \in 1..Len(RunPayloads) /\ RunPayloads[at(b)] = One(b)
  <2>1. CASE withError
    <3>1. b + 1 \in 1..Len(RunPayloads) /\ b + 1 # 1 /\ (b + 1) - 1 = b
      BY <1>1, <2>1 DEF RunPayloadsTyped
    <3> QED
      BY <1>1, <2>1, <3>1 DEF RunPayloadsTyped, One
  <2>2. CASE ~withError
    BY <1>1, <2>2 DEF RunPayloadsTyped, One
  <2> QED
    BY <2>1, <2>2
<1>3. ASSUME NEW i \in 1..Len(RunPayloads), NEW b \in BlocksOf(config), Has(RunPayloads[i], b)
      PROVE  b \in 1..said /\ i = at(b)
  <2>1. CASE withError
    <3>1. i # 1
      <4>1. i = 1 => RunPayloads[i] = <<Error>>
        BY <1>1, <2>1 DEF RunPayloadsTyped
      <4> QED
        BY <1>3, <4>1, ConfigFacts DEF Silent
    <3>2. RunPayloads[i] = One(i - 1) /\ i - 1 \in 1..said
      BY <1>1, <2>1, <3>1 DEF RunPayloadsTyped, One
    <3>3. b = i - 1
      BY <1>3, <3>2, OneFacts
    <3> QED
      BY <2>1, <3>2, <3>3
  <2>2. CASE ~withError
    <3>1. RunPayloads[i] = One(i) /\ i \in 1..said
      BY <1>1, <2>2 DEF RunPayloadsTyped, One
    <3>2. b = i
      BY <1>3, <3>1, OneFacts
    <3> QED
      BY <2>2, <3>1, <3>2
  <2> QED
    BY <2>1, <2>2
<1> QED
  BY <1>2, <1>3

\* The payloads that were not sent follow what was.
LEMMA FinalsOnLine ==
    ASSUME RunTyped, NEW s \in Seq(Text), NEW F \in Seq(Text), FinalsOf(F, Len(RunPayloads)),
           \A k \in sentKeys : TextOnLine(s, k), InOrder(config, s)
    PROVE  /\ InOrder(config, s \o F)
           /\ \A b \in 1..said : OnLine(s \o F, b)
           /\ said = 0 /\ Once(config, s) => Once(config, s \o F)
<1> DEFINE N == Len(RunPayloads)
           at(b) == IF withError THEN b + 1 ELSE b
           L == s \o F
<1>1. /\ Len(s) \in Nat /\ Len(F) \in Nat /\ DOMAIN s = 1..Len(s) /\ DOMAIN F = 1..Len(F)
      /\ DOMAIN L = 1..(Len(s) + Len(F))
      /\ \A i \in 1..Len(s) : i \in DOMAIN L /\ L[i] = s[i]
      /\ \A i \in 1..Len(F) : i + Len(s) \in DOMAIN L /\ L[i + Len(s)] = F[i]
      /\ \A i \in DOMAIN L : i \in 1..Len(s) \/ (i - Len(s) \in 1..Len(F) /\ L[i] = F[i - Len(s)])
  BY ConcatLine
<1>2. /\ \A b \in 1..said : at(b) \in 1..N /\ RunPayloads[at(b)] = One(b)
      /\ \A i \in 1..N, b \in BlocksOf(config) : Has(RunPayloads[i], b) => b \in 1..said /\ i = at(b)
  BY PayloadOfBlock
<1>3. \A b : Has(One(b), b)
  BY OneFacts
<1>4. /\ BlocksOf(config) \subseteq Nat \ {0} /\ InTurn(config) \subseteq BlocksOf(config) /\ said \in Nat
  BY ConfigFacts
<1>5. /\ \A p \in DOMAIN F : \E i \in 1..N : F[p] = RunPayloads[i]
      /\ \A i \in 1..N : RunPayloads[i] \in sentKeys \/ \E p \in DOMAIN F : F[p] = RunPayloads[i]
      /\ \A p \in DOMAIN F, i, j \in 1..N :
            F[p] = RunPayloads[j] /\ i < j /\ RunPayloads[i] \notin sentKeys =>
                \E q \in 1..p : F[q] = RunPayloads[i]
  BY DEF FinalsOf
<1> HIDE DEF L, N
<1>6. \A b : One(b) \in sentKeys => \E q \in 1..Len(s) : Has(s[q], b)
  BY <1>1, <1>3 DEF TextOnLine
<1>7. ASSUME NEW b \in 1..said PROVE OnLine(L, b)
  <2>1. CASE One(b) \in sentKeys
    BY <1>1, <1>6, <2>1 DEF OnLine
  <2>2. CASE One(b) \notin sentKeys
    <3>1. PICK p \in DOMAIN F : F[p] = One(b)
      BY <1>2, <1>5, <2>2
    <3> QED
      BY <1>1, <1>3, <3>1 DEF OnLine
  <2> QED
    BY <2>1, <2>2
<1>8. InOrder(config, L)
  <2> SUFFICES ASSUME NEW p \in DOMAIN L, NEW x \in InTurn(config), NEW y \in InTurn(config), x < y,
                      Has(L[p], y)
               PROVE  \E q \in 1..p : Has(L[q], x)
    BY DEF InOrder
  <2>1. CASE p \in 1..Len(s)
    <3>1. PICK q \in 1..p : Has(s[q], x)
      BY <1>1, <2>1 DEF InOrder
    <3>2. q \in 1..Len(s)
      BY <1>1, <2>1
    <3> QED
      BY <1>1, <3>1, <3>2
  <2>2. CASE p \notin 1..Len(s)
    <3> DEFINE u == p - Len(s)
    <3>1. u \in 1..Len(F) /\ L[p] = F[u]
      BY <1>1, <2>2
    <3>2. PICK j \in 1..N : F[u] = RunPayloads[j]
      BY <1>1, <1>5, <3>1
    <3>3. y \in 1..said /\ j = at(y)
      BY <1>2, <1>4, <3>1, <3>2
    <3>4. x \in 1..said /\ at(x) < at(y)
      BY <1>4, <3>3
    <3>5. at(x) \in 1..N /\ RunPayloads[at(x)] = One(x)
      BY <1>2, <3>4
    <3> HIDE DEF u, at
    <3>6. CASE One(x) \in sentKeys
      <4>1. PICK q \in 1..Len(s) : Has(s[q], x)
        BY <1>6, <3>6
      <4>2. p \in Nat /\ p > Len(s) /\ Len(s) \in Nat
        BY <1>1, <2>2
      <4>3. q \in 1..p
        BY <4>2
      <4>4. L[q] = s[q]
        BY <1>1
      <4> QED
        BY <4>1, <4>3, <4>4
    <3>7. CASE One(x) \notin sentKeys
      <4>3. u \in DOMAIN F /\ at(y) \in 1..N /\ at(x) \in 1..N /\ F[u] = RunPayloads[at(y)]
        BY <1>1, <3>1, <3>2, <3>3, <3>5
      <4>4. RunPayloads[at(x)] \notin sentKeys /\ at(x) < at(y)
        BY <3>4, <3>5, <3>7
      <4>5. \E q \in 1..u : F[q] = RunPayloads[at(x)]
        BY <1>5, <4>3, <4>4
      <4>1. PICK q \in 1..u : F[q] = One(x)
        BY <3>5, <4>5
      <4>2. q \in 1..Len(F) /\ q + Len(s) \in 1..p
        BY <1>1, <3>1 DEF u
      <4> QED
        BY <1>1, <1>3, <4>1, <4>2
    <3> QED
      BY <3>6, <3>7
  <2> QED
    BY <2>1, <2>2
<1>9. ASSUME said = 0, Once(config, s) PROVE Once(config, L)
  <2>1. ASSUME NEW p \in DOMAIN L, NEW b \in BlocksOf(config), Has(L[p], b) PROVE p \in 1..Len(s)
    <3> SUFFICES ASSUME p \notin 1..Len(s) PROVE FALSE
      OBVIOUS
    <3>1. p - Len(s) \in 1..Len(F) /\ L[p] = F[p - Len(s)]
      BY <1>1
    <3>2. PICK j \in 1..N : L[p] = RunPayloads[j]
      BY <1>1, <1>5, <3>1
    <3>3. b \in 1..said
      BY <1>2, <2>1, <3>2
    <3> QED
      BY <1>9, <3>3
  <2> QED
    BY <1>1, <1>9, <2>1 DEF Once
<1> QED
  BY <1>7, <1>8, <1>9 DEF L

\* A text without blocks is sent among the others.
LEMMA SilentLine ==
    ASSUME ReplyTyped, PhaseOK, LineOK, NEW t \in Text, Silent(config, t),
           Texts(Sent)' = Append(Texts(Sent), t), Line' = Append(Texts(Sent), t) \o Rest,
           UNCHANGED <<config, attempts, said, pipelineVars>>,
           phase' \in {"running", "flushing"} => phase \in {"running", "flushing"}
    PROVE  LineOK'
<1> DEFINE s == Texts(Sent)
<1>1. s \in Seq(Text) /\ Rest \in Seq(Text) /\ Line = s \o Rest
  BY LineTypes DEF Line
<1>2. /\ \A b \in BlocksOf(config) : OnLine(Append(s, t), b) => OnLine(s, b)
      /\ \A x : TextOnLine(s, x) => TextOnLine(Append(s, t), x)
  BY <1>1, AppendLine DEF Silent
<1> HIDE DEF s
<1>3. OrderOK'
  BY <1>1, InsertLine DEF LineOK, OrderOK, s
<1>4. OnceOK'
  BY <1>1, InsertLine DEF LineOK, OnceOK, s, pipelineVars
<1>5. SentKeysOnLine(chain)'
  BY <1>2 DEF LineOK, KeysOK, SentKeysOnLine, s, pipelineVars
<1>6. KeysOK'
  BY <1>2, <1>5 DEF LineOK, KeysOK, s, pipelineVars
<1>7. TrackOK'
  <2> SUFFICES ASSUME phase' \in {"running", "flushing"}, ~aborted' PROVE TrackedNow'
    BY DEF TrackOK
  <2>1. phase \in {"running", "flushing"} /\ ~aborted
    BY DEF pipelineVars
  <2> DEFINE r == IF inFlight THEN Tail(chain) ELSE chain
  <2>2. Rest = r /\ LineWith(chain) = s \o r /\ LineWith(chain)' = Append(s, t) \o r
    BY <2>1 DEF LineWith, Rest, Pending, AfterRun, s, pipelineVars
  <2> HIDE DEF r
  <2>3. TrackedNow
    BY <2>1 DEF LineOK, TrackOK
  <2>4. Track(config, attempts, s \o r, seenKeys, ToSet(buffer), ToSet(audio), said)
    BY <2>2, <2>3 DEF TrackedNow, Tracked, Pipe
  <2>5. said \in Nat
    BY ConfigFacts DEF ReplyTyped
  <2>6. Track(config, attempts, Append(s, t) \o r, seenKeys, ToSet(buffer), ToSet(audio), said)
    <3>1. 1..said \subseteq BlocksOf(config)
      <4>1. BlocksOf(config) = 1..Len(config.kinds) /\ Len(config.kinds) \in Nat
        BY ConfigFacts DEF ReplyTyped
      <4> QED
        BY <2>5, <4>1 DEF PhaseOK
    <3> QED
      BY <1>1, <2>2, <2>4, <2>5, <3>1, TrackInsert
  <2>7. Track(config', attempts', LineWith(chain)', seenKeys', ToSet(buffer'), ToSet(audio'), said')
    BY <2>2, <2>6 DEF pipelineVars
  <2>8. PipeTyped(Pipe)' /\ (Pipe.chain)' = chain' /\ (Pipe.seen)' = seenKeys'
    BY <2>3, SamePipe DEF TrackedNow, Tracked, Pipe, pipelineVars
  <2> QED
    BY <1>5, <2>7, <2>8 DEF TrackedNow, Tracked
<1> QED
  BY <1>3, <1>4, <1>6, <1>7 DEF LineOK

\* A block timed out: what is on the chain is not sent any more.
LEMMA TimedOutLine ==
    ASSUME ReplyTyped, PhaseOK, LineOK, BlockTimesOut
    PROVE  LineOK'
<1>1. /\ UNCHANGED <<config, attempts, sentKeys>> /\ aborted' /\ ~inFlight'
      /\ Line' = Texts(Sent) /\ Sent' = Sent
  BY TimesOutLine DEF BlockTimesOut, runVars
<1>2. Line = Texts(Sent) \o Rest /\ Texts(Sent) \in Seq(Text) /\ Rest \in Seq(Text)
  BY LineTypes DEF Line
<1>3. OrderOK'
  BY <1>1, <1>2, PrefixLine DEF LineOK, OrderOK
<1>4. KeysOK'
  BY <1>1 DEF LineOK, KeysOK, SentKeysOnLine
<1> QED
  BY <1>1, <1>3, <1>4 DEF LineOK, OnceOK, TrackOK

\* A tool result keeps the line in order ...
LEMMA ToolTaskLine ==
    ASSUME ReplyTyped, PhaseOK, LineOK, ToolTaskEnds
    PROVE  LineOK'
<1>1. UNCHANGED <<config, phase, attempts, said, pipelineVars>>
  BY DEF ToolTaskEnds, runVars
<1>2. CASE Line' = Line /\ Sent' = Sent
  BY <1>1, <1>2, SameLine
<1>3. CASE /\ Sent' = Append(Sent, Payload("tool", <<ToolResult>>))
           /\ Line' = Append(Texts(Sent), <<ToolResult>>) \o Rest
  <2> DEFINE p == Payload("tool", <<ToolResult>>)
  <2>1. p \in Payloads /\ p.text = <<ToolResult>> /\ <<ToolResult>> \in Text
    BY PayloadTypes
  <2>2. Sent' = Append(Sent, p) /\ Sent \in Seq(Payloads)
    BY <1>3, LineTypes
  <2> HIDE DEF p
  <2>3. Texts(Sent)' = Append(Texts(Sent), <<ToolResult>>)
    BY <2>1, <2>2, TextsAppend
  <2>4. Silent(config, <<ToolResult>>)
    BY ConfigFacts DEF ReplyTyped
  <2> QED
    BY <1>1, <1>3, <2>1, <2>3, <2>4, SilentLine
<1> QED
  BY <1>2, <1>3, ToolLine

\* ... and so do the final payloads when they are sent.
LEMMA SendFinalsLine ==
    ASSUME ReplyTyped, PhaseOK, LineOK, SendFinals
    PROVE  LineOK'
<1>1. /\ UNCHANGED <<config, attempts, sentKeys, chain, inFlight, aborted>>
      /\ phase' \in {"sending", "waiting"}
  BY DEF SendFinals, runVars, pipelineVars
<1>2. Line = Texts(Sent) \o Rest /\ Texts(Sent) \in Seq(Text) /\ Rest \in Seq(Text) /\ Sent \in Seq(Payloads)
  BY LineTypes DEF Line
<1>3. Line' = Line \/ Line' = Append(Texts(Sent), <<Error>>) \o Rest
  BY FinalsLine
<1>4. <<Error>> \in Text /\ Silent(config, <<Error>>)
  BY ConfigFacts, TextTypes, BlocksAssumption DEF ReplyTyped, Error
<1> DEFINE M == Append(Texts(Sent), <<Error>>) \o Rest
<1>9. /\ InOrder(config, Line) => InOrder(config, M)
      /\ Once(config, Line) => Once(config, M)
  BY <1>2, <1>4, InsertLine
<1> HIDE DEF M
<1>10. Line' = Line \/ Line' = M
  BY <1>3 DEF M
<1>5. OrderOK'
  BY <1>1, <1>9, <1>10 DEF LineOK, OrderOK
<1>6. OnceOK'
  BY <1>1, <1>9, <1>10 DEF LineOK, OnceOK
<1>7. \A k : TextOnLine(Texts(Sent), k) => TextOnLine(Texts(Sent)', k)
  <2>1. PICK P \in Seq(Payloads) : Sent' = Sent \o P
    BY FinalsLine
  <2>2. /\ Texts(P) \in Seq(Text) /\ Len(P) = Len(Texts(P))
        /\ \A i \in 1..Len(Texts(P)) : P[i].text = Texts(P)[i]
    BY TextsFacts
  <2>3. Texts(Sent \o P) = Texts(Sent) \o Texts(P)
    BY <1>2, <2>2, TextsConcat
  <2> QED
    BY <1>2, <2>1, <2>2, <2>3, PrefixLine
<1>8. KeysOK'
  BY <1>1, <1>7 DEF LineOK, KeysOK, SentKeysOnLine
<1> QED
  BY <1>1, <1>5, <1>6, <1>8 DEF LineOK, TrackOK

--------------------------------------------------------------------------------
(* After a run that succeeded all its blocks are on the line *)

CoverOK == AfterRun => \A b \in 1..said : OnLine(Line, b)

\* The run returns: its final payloads complete the line and repeat nothing that is on it.
LEMMA ReturnLine ==
    ASSUME ReplyTyped, PhaseOK, LineOK, RunReturns
    PROVE  LineOK' /\ CoverOK'
<1> DEFINE s == Texts(Sent)
           F == BuildReplyPayloads
<1>1. /\ phase = "flushing" /\ phase' = "sending" /\ chain = <<>> /\ ~inFlight
      /\ outcome = "success" /\ buffer = <<>> /\ audio = <<>> /\ finals' = F
      /\ UNCHANGED <<config, outcome, attempts, said, withError, pipelineVars, tried, queue>>
  BY DEF RunReturns, runVars, PhaseOK, ReplyTyped, PipelineTyped, PipeTyped, Pipe
<1>2. s \in Seq(Text) /\ F \in Seq(Text)
  BY LineTypes, FinalsFacts DEF ReplyTyped
<1>3. Line = s
  <2>1. Rest = <<>>
    BY <1>1 DEF Rest, Pending, AfterRun
  <2> QED
    BY <1>2, <2>1, ConcatEmptySeq DEF Line
<1>4. Sent' = Sent
  BY <1>1 DEF Sent
<1>5. Line' = s \o F
  BY <1>1, <1>4 DEF Line, Rest, AfterRun
<1>6. KeysOK' /\ TrackOK'
  BY <1>1, <1>4 DEF LineOK, KeysOK, SentKeysOnLine, TrackOK, pipelineVars
<1>7. ~aborted =>
         /\ \A b \in 1..said : OnLine(s, b)
         /\ sentKeys = {} => said = 0
  <2> SUFFICES ASSUME ~aborted PROVE /\ \A b \in 1..said : OnLine(s, b)
                                     /\ sentKeys = {} => said = 0
    OBVIOUS
  <2>1. TrackedNow
    BY <1>1 DEF LineOK, TrackOK
  <2>2. LineWith(chain) = s
    BY <1>1, <1>2, ConcatEmptySeq DEF LineWith
  <2>3. Track(config, attempts, s, seenKeys, {}, {}, said)
    BY <1>1, <2>1, <2>2, SetOfEmpty DEF TrackedNow, Tracked, Pipe
  <2>4. \A b \in 1..said : OnLine(s, b)
    BY <2>3 DEF Track
  <2>5. ASSUME sentKeys = {}, said # 0 PROVE FALSE
    <3>1. 1 \in 1..said /\ 1..said \subseteq BlocksOf(config)
      BY <2>5, ConfigFacts DEF ReplyTyped, PhaseOK
    <3>2. ~OnLine(s, 1)
      BY <1>1, <2>5, <3>1 DEF LineOK, KeysOK
    <3> QED
      BY <2>4, <3>1, <3>2
  <2> QED
    BY <2>4, <2>5
<1> HIDE DEF s, F
<1>8. CASE ShouldDropFinalPayloads
  <2>1. F = <<>> /\ ~aborted
    BY <1>8, FinalsFacts DEF F, ReplyTyped, ShouldDropFinalPayloads
  <2>2. Line' = Line
    BY <1>2, <1>3, <1>5, <2>1, ConcatEmptySeq
  <2>3. OrderOK' /\ OnceOK'
    BY <1>1, <2>2 DEF LineOK, OrderOK, OnceOK, pipelineVars
  <2>4. CoverOK'
    BY <1>1, <1>3, <1>7, <2>1, <2>2 DEF CoverOK
  <2> QED
    BY <1>6, <2>3, <2>4 DEF LineOK
<1>9. CASE ~ShouldDropFinalPayloads
  <2>1. FinalsOf(F, Len(RunPayloads))
    BY <1>9, FinalsFacts DEF F, ReplyTyped
  <2>2. aborted \/ said = 0
    BY <1>7, <1>9 DEF ShouldDropFinalPayloads
  <2>3. /\ \A k \in sentKeys : TextOnLine(s, k)
        /\ InOrder(config, s) /\ (aborted \/ Repeats(config, attempts) \/ Once(config, s))
    BY <1>3 DEF LineOK, KeysOK, SentKeysOnLine, OrderOK, OnceOK, s
  <2>4. /\ InOrder(config, s \o F)
        /\ \A b \in 1..said : OnLine(s \o F, b)
        /\ said = 0 /\ Once(config, s) => Once(config, s \o F)
    BY <1>2, <2>1, <2>3, FinalsOnLine DEF ReplyTyped
  <2>5. OrderOK' /\ OnceOK' /\ CoverOK'
    BY <1>1, <1>5, <2>2, <2>3, <2>4 DEF OrderOK, OnceOK, CoverOK, pipelineVars
  <2> QED
    BY <1>6, <2>5 DEF LineOK
<1> QED
  BY <1>8, <1>9

\* The other steps leave the line as it is.
LEMMA QuietLine ==
    ASSUME ReplyTyped, PhaseOK,
           \/ Signal \/ ToolReports \/ AgentFails \/ QueuedInstead \/ Throws
           \/ Deliver \/ DispatchReturns \/ TypingStep \/ UNCHANGED vars
    PROVE  /\ UNCHANGED <<config, attempts, said, pipelineVars>> /\ Line' = Line /\ Sent' = Sent
           /\ phase' \in {"running", "flushing"} => phase \in {"running", "flushing"}
           /\ AfterRun' => AfterRun
<1>1. /\ UNCHANGED <<config, attempts, said, pipelineVars>>
      /\ phase' \in {"running", "flushing"} => phase \in {"running", "flushing"}
  BY DEF Signal, ToolReports, AgentFails, QueuedInstead, Throws, Deliver, DispatchReturns, TypingStep,
         vars, runVars
<1>2. Pending' = Pending
  BY <1>1 DEF Pending, pipelineVars
<1>3. CASE Signal \/ ToolReports \/ TypingStep \/ UNCHANGED vars
  BY <1>1, <1>2, <1>3 DEF Signal, ToolReports, TypingStep, vars, runVars, sendVars, Line, Rest, AfterRun, Sent
<1>4. CASE AgentFails \/ QueuedInstead \/ Throws
  <2>1. ~AfterRun /\ ~AfterRun' /\ UNCHANGED <<tried, queue>>
    BY <1>4 DEF AgentFails, QueuedInstead, Throws, AfterRun, sendVars
  <2> QED
    BY <1>1, <1>2, <2>1 DEF Line, Rest, Sent
<1>5. CASE Deliver
  <2>1. Line' = Line /\ Sent' = Sent
    BY <1>5, DeliverLine
  <2>2. AfterRun' = AfterRun
    BY <1>5 DEF Deliver, AfterRun, runVars
  <2> QED
    BY <1>1, <2>1, <2>2
<1>6. CASE DispatchReturns
  <2>1. AfterRun' = AfterRun /\ UNCHANGED <<tried, queue, finals>>
    BY <1>6 DEF DispatchReturns, AfterRun, runVars, sendVars
  <2> QED
    BY <1>1, <1>2, <2>1 DEF Line, Rest, Sent
<1> QED
  BY <1>3, <1>4, <1>5, <1>6

\* Every step keeps the line in order.
LEMMA LineStep ==
    ASSUME ReplyTyped, ReplyTyped', PhaseOK, LineOK, [Next]_vars
    PROVE  LineOK'
<1>1. CASE EmitBlock \/ ToolStarts \/ IdleFlush \/ AgentEnds
  BY <1>1, PipelineLine
<1>2. CASE FallBack
  BY <1>2, FallBackLine
<1>3. CASE SendBlock \/ BlockRouted
  BY <1>3, ChainLine
<1>4. CASE BlockTimesOut
  BY <1>4, TimedOutLine
<1>5. CASE ToolTaskEnds
  BY <1>5, ToolTaskLine
<1>6. CASE SendFinals
  BY <1>6, SendFinalsLine
<1>7. CASE RunReturns
  BY <1>7, ReturnLine
<1>8. CASE \/ Signal \/ ToolReports \/ AgentFails \/ QueuedInstead \/ Throws
           \/ Deliver \/ DispatchReturns \/ TypingStep \/ UNCHANGED vars
  <2>1. /\ UNCHANGED <<config, attempts, said, pipelineVars>> /\ Line' = Line /\ Sent' = Sent
        /\ phase' \in {"running", "flushing"} => phase \in {"running", "flushing"}
    BY <1>8, QuietLine
  <2> QED
    BY <2>1, SameLine
<1> QED
  BY <1>1, <1>2, <1>3, <1>4, <1>5, <1>6, <1>7, <1>8 DEF Next, RunEnds, Settles, Ends

\* No step takes a block off the line once the run succeeded.
LEMMA CoverStep ==
    ASSUME ReplyTyped, ReplyTyped', PhaseOK, LineOK, CoverOK, [Next]_vars
    PROVE  CoverOK'
<1>1. CASE EmitBlock \/ ToolStarts \/ IdleFlush \/ AgentEnds \/ FallBack
  BY <1>1 DEF EmitBlock, ToolStarts, IdleFlush, AgentEnds, FallBack, CoverOK, AfterRun
<1>2. CASE SendBlock \/ BlockRouted \/ BlockTimesOut \/ ToolTaskEnds
  <2>1. UNCHANGED <<phase, outcome>>
    BY <1>2 DEF SendBlock, BlockRouted, BlockTimesOut, ToolTaskEnds, runVars
  <2>2. chain # <<>> \/ toolTasks > 0
    BY <1>2 DEF SendBlock, BlockRouted, BlockTimesOut, ToolTaskEnds, ReplyTyped, PipelineTyped, PipeTyped, Pipe
  <2>3. ~AfterRun
    BY <2>2 DEF PhaseOK
  <2> QED
    BY <2>1, <2>3 DEF CoverOK, AfterRun
<1>3. CASE SendFinals
  <2>1. phase = "sending" /\ UNCHANGED <<outcome, said>>
    BY <1>3 DEF SendFinals, runVars
  <2>2. outcome = "success" => Line' = Line
    BY <1>3, FinalsLine
  <2> QED
    BY <2>1, <2>2 DEF CoverOK, AfterRun
<1>4. CASE RunReturns
  BY <1>4, ReturnLine
<1>5. CASE \/ Signal \/ ToolReports \/ AgentFails \/ QueuedInstead \/ Throws
           \/ Deliver \/ DispatchReturns \/ TypingStep \/ UNCHANGED vars
  <2>1. said' = said /\ Line' = Line /\ (AfterRun' => AfterRun)
    BY <1>5, QuietLine
  <2> QED
    BY <2>1 DEF CoverOK
<1> QED
  BY <1>1, <1>2, <1>3, <1>4, <1>5 DEF Next, RunEnds, Settles, Ends

--------------------------------------------------------------------------------
(* Final payloads come last *)

NoFinal(S) == \A i \in DOMAIN S : S[i].kind # "final"
FinalsLast(S) == \A i, j \in DOMAIN S : i < j /\ S[i].kind = "final" => S[j].kind = "final"
KindsOK ==
    /\ outcome = "none" \/ phase \in {"running", "flushing", "threw"} => NoFinal(Sent)
    /\ outcome = "success" => FinalsLast(Sent)

\* A block or a tool result adds no final payload ...
LEMMA KindsAppend ==
    ASSUME NEW S \in Seq(Payloads), NoFinal(S), NEW p \in Payloads, p.kind # "final"
    PROVE  NoFinal(Append(S, p))
<1>1. /\ DOMAIN Append(S, p) = 1..(Len(S) + 1) /\ DOMAIN S = 1..Len(S) /\ Len(S) \in Nat
      /\ Append(S, p)[Len(S) + 1] = p /\ \A i \in 1..Len(S) : Append(S, p)[i] = S[i]
  BY AppendProperties, LenProperties
<1>2. \A i \in 1..(Len(S) + 1) : i \in 1..Len(S) \/ i = Len(S) + 1
  BY <1>1
<1> QED
  BY <1>1, <1>2 DEF NoFinal

\* ... and final payloads come last.
LEMMA KindsConcat ==
    ASSUME NEW S \in Seq(Payloads), FinalsLast(S), NEW P \in Seq(Payloads),
           \A i \in 1..Len(P) : P[i].kind = "final"
    PROVE  FinalsLast(S \o P)
<1> DEFINE U == S \o P
<1>1. /\ DOMAIN U = 1..(Len(S) + Len(P)) /\ DOMAIN S = 1..Len(S) /\ Len(S) \in Nat /\ Len(P) \in Nat
      /\ \A i \in 1..(Len(S) + Len(P)) : U[i] = IF i <= Len(S) THEN S[i] ELSE P[i - Len(S)]
  BY ConcatProperties, LenProperties
<1> HIDE DEF U
<1>2. SUFFICES ASSUME NEW i \in DOMAIN U, NEW j \in DOMAIN U, i < j, U[i].kind = "final"
               PROVE  U[j].kind = "final"
  BY DEF FinalsLast, U
<1>3. CASE j <= Len(S)
  <2>1. i \in DOMAIN S /\ j \in DOMAIN S /\ U[i] = S[i] /\ U[j] = S[j]
    BY <1>1, <1>2, <1>3
  <2> QED
    BY <1>2, <2>1 DEF FinalsLast
<1>4. CASE j > Len(S)
  <2>1. j - Len(S) \in 1..Len(P) /\ ~(j <= Len(S))
    BY <1>1, <1>4
  <2>2. U[j] = P[j - Len(S)]
    BY <1>1, <2>1
  <2> QED
    BY <2>1, <2>2
<1> QED
  BY <1>1, <1>3, <1>4

\* Every step keeps the kinds in order.
LEMMA KindsStep ==
    ASSUME ReplyTyped, PhaseOK, KindsOK, [Next]_vars
    PROVE  KindsOK'
<1>1. Sent \in Seq(Payloads)
  BY LineTypes
<1>2. CASE SendBlock \/ ToolTaskEnds
  <2>1. UNCHANGED <<phase, outcome>>
    BY <1>2 DEF SendBlock, ToolTaskEnds, runVars
  <2>2. outcome = "success" => NoFinal(Sent)
    <3>1. chain # <<>> \/ toolTasks > 0
      BY <1>2 DEF SendBlock, ToolTaskEnds
    <3>2. ~AfterRun
      BY <3>1 DEF PhaseOK
    <3> QED
      BY <3>2 DEF AfterRun, KindsOK, ReplyTyped, RunTyped
  <2>3. Sent' = Sent \/ \E p \in Payloads : p.kind # "final" /\ Sent' = Append(Sent, p)
    <3>1. CASE SendBlock
      <4>1. Head(chain) \in Text
        BY <3>1, HeadTailProperties DEF SendBlock, ReplyTyped, PipelineTyped, PipeTyped, Pipe, Pipes
      <4> QED
        BY <3>1, <4>1, SendBlockLine, PayloadTypes
    <3>2. CASE ToolTaskEnds
      BY <3>2, ToolLine, PayloadTypes
    <3> QED
      BY <1>2, <3>1, <3>2
  <2>4. NoFinal(Sent) => NoFinal(Sent')
    BY <1>1, <2>3, KindsAppend
  <2>5. NoFinal(Sent') => FinalsLast(Sent')
    BY DEF NoFinal, FinalsLast
  <2> QED
    BY <2>1, <2>2, <2>4, <2>5 DEF KindsOK
<1>3. CASE SendFinals
  <2>1. phase = "sending" /\ phase' \in {"sending", "waiting"} /\ UNCHANGED outcome /\ outcome # "none"
    BY <1>3 DEF SendFinals, runVars, PhaseOK
  <2>2. PICK P \in Seq(Payloads) : Sent' = Sent \o P /\ \A i \in 1..Len(P) : P[i].kind = "final"
    BY <1>3, FinalsLine
  <2>3. FinalsLast(Sent) => FinalsLast(Sent \o P)
    BY <1>1, <2>2, KindsConcat
  <2> QED
    BY <2>1, <2>2, <2>3 DEF KindsOK
<1>4. ASSUME Sent' = Sent, outcome' = "none" => outcome = "none",
             outcome' = "success" => outcome = "success" \/ phase = "running",
             phase' \in {"running", "flushing", "threw"} => phase \in {"running", "flushing", "threw"}
      PROVE  KindsOK'
  <2>1. NoFinal(Sent) => FinalsLast(Sent)
    BY DEF NoFinal, FinalsLast
  <2> QED
    BY <1>4, <2>1 DEF KindsOK
<1>5. CASE EmitBlock \/ ToolStarts \/ IdleFlush \/ FallBack \/ AgentEnds \/ RunReturns
  <2>1. Sent' = Sent
    BY <1>5 DEF EmitBlock, ToolStarts, IdleFlush, FallBack, AgentEnds, RunReturns, sendVars, Sent
  <2>2. phase \in {"running", "flushing"}
    BY <1>5 DEF EmitBlock, ToolStarts, IdleFlush, FallBack, AgentEnds, RunReturns
  <2>3. outcome' \in {outcome, "success"}
    BY <1>5 DEF EmitBlock, ToolStarts, IdleFlush, FallBack, AgentEnds, RunReturns, runVars
  <2>4. outcome' = "success" => outcome = "success" \/ phase = "running"
    BY <1>5 DEF EmitBlock, ToolStarts, IdleFlush, FallBack, AgentEnds, RunReturns, runVars
  <2> QED
    BY <1>4, <2>1, <2>2, <2>3, <2>4
<1>6. CASE BlockRouted \/ BlockTimesOut
  BY <1>4, <1>6, RoutedLine, TimesOutLine DEF BlockRouted, BlockTimesOut, runVars
<1>7. CASE \/ Signal \/ ToolReports \/ AgentFails \/ QueuedInstead \/ Throws
           \/ Deliver \/ DispatchReturns \/ TypingStep \/ UNCHANGED vars
  <2>1. Sent' = Sent
    BY <1>7, QuietLine
  <2>2. outcome' \in {outcome, "failed", "queued"}
    BY <1>7 DEF Signal, ToolReports, AgentFails, QueuedInstead, Throws, Deliver, DispatchReturns, TypingStep,
                vars, runVars
  <2>3. phase' \in {"running", "flushing", "threw"} => phase \in {"running", "flushing", "threw"}
    BY <1>7 DEF Signal, ToolReports, AgentFails, QueuedInstead, Throws, Deliver, DispatchReturns, TypingStep,
                vars, runVars
  <2> QED
    BY <1>4, <2>1, <2>2, <2>3
<1> QED
  BY <1>2, <1>3, <1>5, <1>6, <1>7 DEF Next, RunEnds, Settles, Ends

--------------------------------------------------------------------------------
(* The invariant *)

ReplyInv == PhaseOK /\ LineOK /\ CoverOK /\ KindsOK

\* The invariant of the texts holds at the start.
LEMMA ReplyInvInit ==
    ASSUME Init
    PROVE  ReplyInv
<1>1. /\ phase = "running" /\ outcome = "none" /\ attempts = 1 /\ said = 0 /\ buffer = <<>> /\ audio = <<>>
      /\ seenKeys = {} /\ sentKeys = {} /\ chain = <<>> /\ ~inFlight /\ ~aborted
      /\ queue = <<>> /\ tried = <<>> /\ finals = <<>> /\ awaited = 0 /\ config \in Configs
  BY DEF Init
<1>2. Sent = <<>> /\ Texts(Sent) = <<>> /\ Line = <<>> /\ LineWith(chain) = <<>>
  <2>1. Sent = <<>>
    BY <1>1 DEF Sent
  <2>2. Texts(<<>>) = <<>>
    BY DEF Texts
  <2>3. Rest = <<>>
    BY <1>1 DEF Rest, Pending, AfterRun
  <2>4. <<>> \o <<>> = <<>>
    OBVIOUS
  <2> QED
    BY <1>1, <2>1, <2>2, <2>3, <2>4 DEF Line, LineWith
<1>3. Len(config.kinds) \in Nat
  BY <1>1, ConfigsAssumption, LenProperties DEF IsConfig
<1>4. PhaseOK
  BY <1>1, <1>3 DEF PhaseOK, AfterRun
<1>5. \A x : ~OnLine(<<>>, x) /\ ~TextOnLine(<<>>, x)
  BY DEF OnLine, TextOnLine
<1>6. (\A c : InOrder(c, <<>>) /\ Once(c, <<>>)) /\ NoFinal(<<>>) /\ FinalsLast(<<>>)
  BY DEF InOrder, Once, NoFinal, FinalsLast
<1>7. KeysOK
  BY <1>1, <1>2, <1>5 DEF KeysOK, SentKeysOnLine
<1>8. TrackedNow
  <2>1. Pipe.seen = {} /\ Pipe.chain = <<>> /\ Pipe \in Pipes
    BY <1>1, TextTypes DEF Pipe, Pipes
  <2>2. PipeTyped(Pipe)
    BY <1>1, <2>1, TextTypes DEF PipeTyped, IsInjective
  <2>3. SentKeysOnLine(Pipe.chain)
    BY <1>1 DEF SentKeysOnLine
  <2>4. Track(config, 1, <<>>, {}, {}, {}, 0)
    <3>1. \A b \in 1..0 : FALSE
      OBVIOUS
    <3> QED
      BY <1>5, <1>6, <3>1 DEF Track
  <2> QED
    BY <1>1, <1>2, <2>1, <2>2, <2>3, <2>4, SetOfEmpty DEF TrackedNow, Tracked
<1>9. LineOK
  BY <1>2, <1>6, <1>7, <1>8 DEF LineOK, OrderOK, OnceOK, TrackOK
<1>10. CoverOK /\ KindsOK
  BY <1>1, <1>2, <1>6 DEF CoverOK, AfterRun, KindsOK
<1> QED
  BY <1>4, <1>9, <1>10 DEF ReplyInv

\* The invariant holds of every reply.
LEMMA LineInvariant == Spec => [](ReplyTyped /\ ReplyInv)
<1>1. Spec => []ReplyTyped
  BY Typed
<1>2. Init => ReplyInv
  BY ReplyInvInit
<1>3. ReplyTyped /\ ReplyTyped' /\ ReplyInv /\ [Next]_vars => ReplyInv'
  <2> SUFFICES ASSUME ReplyTyped, ReplyTyped', ReplyInv, [Next]_vars PROVE ReplyInv'
    OBVIOUS
  <2>1. PhaseOK /\ LineOK /\ CoverOK /\ KindsOK
    BY DEF ReplyInv
  <2>2. PhaseOK' /\ LineOK' /\ CoverOK' /\ KindsOK'
    BY <2>1, PhaseStep, LineStep, CoverStep, KindsStep
  <2> QED
    BY <2>2 DEF ReplyInv
<1> QED
  BY <1>1, <1>2, <1>3, PTL DEF Spec

--------------------------------------------------------------------------------
(* What the chat gets *)

\* What was tried is the beginning of the line.
LEMMA TriedOnLine ==
    ASSUME ReplyTyped
    PROVE  /\ DOMAIN tried = 1..Len(tried) /\ Len(tried) \in Nat
           /\ \A i \in DOMAIN tried : i \in DOMAIN Sent /\ Sent[i] = tried[i]
           /\ \A i \in DOMAIN tried : i \in DOMAIN Line /\ Line[i] = tried[i].text
<1>1. /\ tried \in Seq(Payloads) /\ queue \in Seq(Payloads) /\ Sent \in Seq(Payloads)
      /\ Rest \in Seq(Text) /\ Texts(Sent) \in Seq(Text)
  BY LineTypes DEF ReplyTyped, SendTyped
<1>2. /\ DOMAIN tried = 1..Len(tried) /\ Len(tried) \in Nat /\ Len(queue) \in Nat
      /\ Len(Sent) = Len(tried) + Len(queue) /\ DOMAIN Sent = 1..Len(Sent)
      /\ \A i \in 1..(Len(tried) + Len(queue)) : Sent[i] = IF i <= Len(tried) THEN tried[i] ELSE queue[i - Len(tried)]
  BY <1>1, ConcatProperties, LenProperties DEF Sent
<1>3. \A i \in DOMAIN tried : i \in DOMAIN Sent /\ Sent[i] = tried[i]
  BY <1>2
<1>4. \A i \in 1..Len(Sent) : i \in DOMAIN Line /\ Line[i] = Sent[i].text
  BY <1>1, TextsFacts, ConcatLine DEF Line
<1> QED
  BY <1>2, <1>3, <1>4

\* When the dispatch of a reply returns, every block that the agent said was sent to the chat.
THEOREM NothingIsLost == Spec => []NothingLost
<1>1. ASSUME ReplyTyped, ReplyInv PROVE NothingLost
  <2> SUFFICES ASSUME Succeeded, NEW b \in 1..said PROVE WasTried(b)
    BY DEF NothingLost
  <2>1. AfterRun /\ finals = <<>> /\ awaited = 0 /\ awaited = Len(queue)
    BY <1>1 DEF Succeeded, AfterRun, ReplyInv, PhaseOK
  <2>2. queue = <<>> /\ tried \in Seq(Payloads)
    BY <1>1, <2>1, EmptySeq DEF ReplyTyped, SendTyped
  <2>3. Sent = tried
    BY <2>2, ConcatEmptySeq DEF Sent
  <2>4. Line = Texts(tried)
    BY <1>1, <2>1, <2>3, LineTypes, ConcatEmptySeq DEF Line, Rest
  <2>5. PICK i \in DOMAIN Line : Has(Line[i], b)
    BY <1>1, <2>1 DEF ReplyInv, CoverOK, OnLine
  <2>6. i \in DOMAIN tried /\ Line[i] = tried[i].text
    BY <2>2, <2>4, TextsFacts
  <2> QED
    BY <2>5, <2>6 DEF WasTried, Carries, Has
<1> QED
  BY <1>1, LineInvariant, PTL

\* No block is sent twice, unless a send timed out or merged texts are said again by another attempt.
THEOREM BlocksAreSentOnce == Spec => []NoBlockTwice
<1>1. ASSUME ReplyTyped, ReplyInv PROVE NoBlockTwice
  <2> SUFFICES ASSUME ~aborted, ~(config.coalescing /\ attempts > 1),
                      NEW b \in Blocks, NEW i \in DOMAIN tried, NEW j \in DOMAIN tried,
                      Carries(i, b), Carries(j, b)
               PROVE  i = j
    BY DEF NoBlockTwice
  <2>1. Once(config, Line)
    BY <1>1 DEF ReplyInv, LineOK, OnceOK, Repeats
  <2>2. /\ i \in DOMAIN Line /\ Has(Line[i], b) /\ j \in DOMAIN Line /\ Has(Line[j], b)
        /\ b \in BlocksOf(config)
    BY <1>1, TriedOnLine DEF Carries, Has, Blocks, BlocksOf
  <2> QED
    BY <2>1, <2>2 DEF Once
<1> QED
  BY <1>1, LineInvariant, PTL

\* The first send of a block is the least that carries it.
LEMMA FirstIs ==
    ASSUME ReplyTyped, NEW b, WasTried(b)
    PROVE  /\ First(b) \in DOMAIN tried /\ Carries(First(b), b)
           /\ \A j \in DOMAIN tried : Carries(j, b) => First(b) <= j
<1> DEFINE S == {i \in DOMAIN tried : Carries(i, b)}
<1>1. S \in SUBSET Nat /\ S # {}
  BY TriedOnLine DEF WasTried
<1>2. PICK i \in S : \A j \in S : i <= j
  BY <1>1, LeastExists
<1>3. i \in DOMAIN tried /\ Carries(i, b) /\ \A j \in DOMAIN tried : Carries(j, b) => i <= j
  BY <1>2
<1> QED
  BY <1>3 DEF First

\* Blocks are sent in the order the agent said them, and final payloads after all else.
THEOREM BlocksKeepTheirOrder == Spec => []SentInOrder
<1>1. ASSUME ReplyTyped, ReplyInv PROVE SentInOrder
  <2>1. ASSUME NEW b \in Blocks, NEW c \in Blocks, config.kinds[b] # "audio", config.kinds[c] # "audio",
               WasTried(b), WasTried(c), b < c
        PROVE  First(b) <= First(c)
    <3>1. b \in InTurn(config) /\ c \in InTurn(config)
      BY <2>1 DEF Blocks, InTurn, BlocksOf
    <3>2. First(c) \in DOMAIN tried /\ Carries(First(c), c)
      BY <1>1, <2>1, FirstIs
    <3>3. First(c) \in DOMAIN Line /\ Has(Line[First(c)], c)
      BY <1>1, <3>2, TriedOnLine DEF Carries, Has
    <3>4. InOrder(config, Line)
      BY <1>1 DEF ReplyInv, LineOK, OrderOK
    <3>5. PICK q \in 1..First(c) : Has(Line[q], b)
      BY <2>1, <3>1, <3>3, <3>4 DEF InOrder
    <3>6. q \in DOMAIN tried /\ q <= First(c)
      BY <1>1, <3>2, TriedOnLine
    <3>7. Carries(q, b)
      BY <1>1, <3>5, <3>6, TriedOnLine DEF Carries, Has
    <3>8. First(b) <= q /\ First(b) \in DOMAIN tried
      BY <1>1, <2>1, <3>6, <3>7, FirstIs
    <3> QED
      BY <1>1, <3>2, <3>6, <3>8, TriedOnLine
  <2>2. ASSUME outcome = "success", NEW i \in DOMAIN tried, NEW j \in DOMAIN tried,
               i < j, tried[i].kind = "final"
        PROVE  tried[j].kind = "final"
    BY <1>1, <2>2, TriedOnLine DEF ReplyInv, KindsOK, FinalsLast
  <2> QED
    BY <2>1, <2>2 DEF SentInOrder
<1> QED
  BY <1>1, LineInvariant, PTL

================================================================================
