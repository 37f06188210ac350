------------------------- MODULE SubagentRegistryProofs -------------------------
(***************************************************************************)
(* A sub-agent's result is announced once, for every set of runs and every *)
(* number of restarts.  A message may be sent when all earlier ones are    *)
(* doubted; the entry in memory, the entry on disk and the place in the    *)
(* announce flow together say whether one may.                             *)
(***************************************************************************)
EXTENDS SubagentRegistry, TLAPS

\* Every message for the run that was sent so far is one whose end was not recorded.
MaySend(r) == announced[r] <= doubted[r]

\* Whoever is on the way to a message may send it.
FlowOK(r) ==
    /\ announced[r] <= 1 + doubted[r]
    /\ flow[r] \in {"asking", "sending", "unsent"} => MaySend(r)

\* An entry that is not completed, in memory or on disk, stands for a message to send.
OpenOK(r) ==
    flow[r] # "sent" =>
        /\ Known(r) /\ ~entry[r].completed => MaySend(r)
        /\ disk[r] # NoEntry /\ ~disk[r].completed => MaySend(r)

\* While the flow is on, nobody can begin another.
ClaimOK(r) == flow[r] # "none" => IF Known(r) THEN entry[r].handled ELSE r \in missed

Sound(r) == FlowOK(r) /\ OpenOK(r) /\ ClaimOK(r)

IInv == TypeOK /\ \A r \in Runs : Sound(r)

--------------------------------------------------------------------------------
(* What the steps do to the entries *)

\* A step that is not about a run may save its entry, no more.
LEMMA OthersStaySound ==
    ASSUME NEW r \in Runs, Sound(r),
           entry'[r] = entry[r], disk'[r] \in {disk[r], entry[r]}, flow'[r] = flow[r],
           announced'[r] = announced[r], doubted'[r] = doubted[r], missed \subseteq missed'
    PROVE  Sound(r)'
  BY DEF Sound, FlowOK, OpenOK, ClaimOK, MaySend, Known

\* What both informants may do to the registry.
Noted(r) ==
    \/ UNCHANGED <<entry, disk, flow>>
    \/ /\ Known(r) /\ ~entry[r].completed /\ ~entry[r].handled
       /\ entry' = [entry EXCEPT ![r] = [entry[r] EXCEPT !.ended = TRUE, !.handled = TRUE]]
       /\ disk' = entry' /\ flow' = [flow EXCEPT ![r] = "asking"]
    \/ /\ Known(r)
       /\ entry' = [entry EXCEPT ![r] = [entry[r] EXCEPT !.ended = TRUE]]
       /\ disk' = entry' /\ flow' = flow

LEMMA NoteEndIsNoted ==
    ASSUME TypeOK, NEW r \in Runs, Known(r), NoteEnd(r)
    PROVE  Noted(r)
<1>1. entry[r] \in Entries
  BY DEF TypeOK, Known
<1> DEFINE e == [entry[r] EXCEPT !.ended = TRUE]
<1>2. e.handled = entry[r].handled /\ e.completed = entry[r].completed
  BY <1>1 DEF Entries
<1>3. CASE MayBegin(e)
  <2>1. ~entry[r].completed /\ ~entry[r].handled
    BY <1>2, <1>3 DEF MayBegin
  <2>2. /\ entry' = [entry EXCEPT ![r] = [e EXCEPT !.handled = TRUE]]
        /\ disk' = [entry EXCEPT ![r] = [e EXCEPT !.handled = TRUE]]
        /\ flow' = [flow EXCEPT ![r] = "asking"]
    BY <1>3 DEF NoteEnd, Becomes, Persist
  <2> QED
    BY <2>1, <2>2 DEF Noted
<1>4. CASE ~MayBegin(e)
  BY <1>4 DEF NoteEnd, Becomes, Persist, Noted
<1> QED
  BY <1>3, <1>4

\* Noting an end begins the announcement if it may, and never a second one.
LEMMA NotedIsSound ==
    ASSUME TypeOK, \A q \in Runs : Sound(q), NEW r \in Runs, Noted(r),
           UNCHANGED <<announced, doubted, missed>>
    PROVE  /\ entry' \in [Runs -> Entries \cup {NoEntry}]
           /\ disk' \in [Runs -> Entries \cup {NoEntry}]
           /\ flow' \in [Runs -> {"none", "asking", "sending", "sent", "unsent"}]
           /\ \A q \in Runs : Sound(q)'
<1>1. /\ entry \in [Runs -> Entries \cup {NoEntry}]
      /\ disk \in [Runs -> Entries \cup {NoEntry}]
      /\ flow \in [Runs -> {"none", "asking", "sending", "sent", "unsent"}]
  BY DEF TypeOK
<1>7. announced[r] \in Nat /\ doubted[r] \in Nat
  BY DEF TypeOK
<1>2. ASSUME UNCHANGED <<entry, disk, flow>>
      PROVE  \A q \in Runs : Sound(q)'
  BY <1>2, OthersStaySound
<1>3. ASSUME Known(r), NEW f \in Entries, NEW stage \in {"asking", flow[r]},
             entry' = [entry EXCEPT ![r] = f], disk' = entry',
             flow' = [flow EXCEPT ![r] = stage],
             f.completed = entry[r].completed, f.handled \/ ~entry[r].handled,
             stage = "asking" /\ flow[r] # "asking" =>
                 f.handled /\ ~f.completed /\ ~entry[r].handled
      PROVE  /\ entry' \in [Runs -> Entries \cup {NoEntry}]
             /\ disk' \in [Runs -> Entries \cup {NoEntry}]
             /\ flow' \in [Runs -> {"none", "asking", "sending", "sent", "unsent"}]
             /\ \A q \in Runs : Sound(q)'
  <2>1. \A q \in Runs : q # r => Sound(q)'
    BY <1>1, <1>3, OthersStaySound
  <2>2. entry'[r] = f /\ disk'[r] = f /\ flow'[r] = stage /\ f # NoEntry
    BY <1>1, <1>3, NoEntryAssumption
  <2>8. announced'[r] = announced[r] /\ doubted'[r] = doubted[r] /\ missed' = missed
    OBVIOUS
  <2>3. Sound(r)
    OBVIOUS
  <2>4. ASSUME stage = flow[r] PROVE Sound(r)'
    <3>1. FlowOK(r)'
      BY <2>2, <2>3, <2>4, <2>8 DEF Sound, FlowOK, MaySend
    <3>2. OpenOK(r)'
      BY <1>3, <2>2, <2>3, <2>4, <2>8 DEF Sound, OpenOK, MaySend, Known
    <3>3. ClaimOK(r)'
      BY <1>3, <2>2, <2>3, <2>4, <2>8 DEF Sound, ClaimOK, Known
    <3> QED
      BY <3>1, <3>2, <3>3 DEF Sound
  <2>5. ASSUME stage = "asking" /\ flow[r] # "asking" PROVE Sound(r)'
    <3>1. flow[r] = "none"
      BY <1>3, <2>3, <2>5 DEF Sound, ClaimOK
    <3>2. MaySend(r)
      BY <1>3, <2>3, <2>5, <3>1 DEF Sound, OpenOK
    <3>3. announced'[r] <= doubted'[r] /\ announced'[r] <= 1 + doubted'[r]
      BY <1>7, <2>8, <3>2 DEF MaySend
    <3> QED
      <4>1. FlowOK(r)'
        BY <2>2, <2>5, <3>3 DEF FlowOK, MaySend
      <4>2. OpenOK(r)'
        BY <3>3 DEF OpenOK, MaySend
      <4>3. ClaimOK(r)'
        BY <1>3, <2>2, <2>5 DEF ClaimOK, Known
      <4> QED
        BY <4>1, <4>2, <4>3 DEF Sound
  <2>6. entry' \in [Runs -> Entries \cup {NoEntry}] /\ disk' = entry'
    BY <1>1, <1>3
  <2>7. flow' \in [Runs -> {"none", "asking", "sending", "sent", "unsent"}]
    BY <1>1, <1>3
  <2> QED
    BY <1>3, <2>1, <2>4, <2>5, <2>6, <2>7
<1>4. CASE UNCHANGED <<entry, disk, flow>>
  BY <1>1, <1>2, <1>4
<1>5. CASE /\ Known(r) /\ ~entry[r].completed /\ ~entry[r].handled
           /\ entry' = [entry EXCEPT ![r] = [entry[r] EXCEPT !.ended = TRUE, !.handled = TRUE]]
           /\ disk' = entry' /\ flow' = [flow EXCEPT ![r] = "asking"]
  <2> DEFINE f == [entry[r] EXCEPT !.ended = TRUE, !.handled = TRUE]
  <2>1. entry[r] \in Entries
    BY <1>1, <1>5 DEF Known
  <2>2. f \in Entries /\ f.handled /\ f.completed = entry[r].completed
    BY <2>1 DEF Entries
  <2> QED
    BY <1>3, <1>5, <2>2
<1>6. CASE /\ Known(r)
           /\ entry' = [entry EXCEPT ![r] = [entry[r] EXCEPT !.ended = TRUE]]
           /\ disk' = entry' /\ flow' = flow
  <2> DEFINE f == [entry[r] EXCEPT !.ended = TRUE]
  <2>1. entry[r] \in Entries
    BY <1>1, <1>6 DEF Known
  <2>2. /\ f \in Entries /\ f.handled = entry[r].handled /\ f.completed = entry[r].completed
        /\ entry[r].handled \in BOOLEAN
    BY <2>1 DEF Entries
  <2>3. flow' = [flow EXCEPT ![r] = flow[r]]
    BY <1>1, <1>6
  <2> QED
    BY <1>3, <1>6, <2>2, <2>3
<1> QED
  BY <1>4, <1>5, <1>6 DEF Noted

--------------------------------------------------------------------------------
(* The steps *)

\* A step of the flow of one run that leaves the registry alone.
LEMMA FlowMoves ==
    ASSUME TypeOK, \A q \in Runs : Sound(q), NEW r \in Runs,
           NEW stage \in {"none", "sending", "sent", "unsent"}, flow[r] # "none",
           UNCHANGED <<entry, disk>>, Moves(r, stage), missed \subseteq missed',
           \A q \in Runs \ {r} : announced'[q] = announced[q] /\ doubted'[q] = doubted[q],
           FlowOK(r)', OpenOK(r)'
    PROVE  \A q \in Runs : Sound(q)'
<1>1. \A q \in Runs \ {r} : Sound(q)'
  <2>1. \A q \in Runs \ {r} : flow'[q] = flow[q]
    BY DEF TypeOK, Moves
  <2> QED
    BY <2>1, OthersStaySound
<1>2. ClaimOK(r)'
  BY DEF Sound, ClaimOK, Known, Moves
<1> QED
  BY <1>1, <1>2 DEF Sound

\* The message is sent only by who may send it, and then nobody may until its end is
\* recorded or doubted.
LEMMA SendingIsSound ==
    ASSUME TypeOK, \A q \in Runs : Sound(q), NEW r \in Runs,
           \/ AnnounceStep(r) \/ AnnounceSkipped(r) \/ Send(r) \/ SendFails(r)
    PROVE  TypeOK' /\ \A q \in Runs : Sound(q)'
<1>1. /\ flow \in [Runs -> {"none", "asking", "sending", "sent", "unsent"}]
      /\ announced \in [Runs -> Nat] /\ doubted \in [Runs -> Nat]
      /\ announced[r] \in Nat /\ doubted[r] \in Nat
  BY DEF TypeOK
<1>2. flow[r] \in {"asking", "sending"} /\ MaySend(r)
  BY DEF AnnounceStep, AnnounceSkipped, Send, SendFails, At, Sound, FlowOK
<1>3. /\ UNCHANGED <<child, cached, entry, disk, waiting, sweeping>>
      /\ missed' \in {missed, missed \cup {r}}
      /\ faults' \in {faults, faults + 1} /\ (faults' # faults => faults < MaxFaults)
  BY DEF AnnounceStep, AnnounceSkipped, Send, SendFails, Fault, gateway, history
<1>4. \E stage \in {"sending", "sent", "unsent"} :
          /\ Moves(r, stage)
          /\ \/ stage # "sent" /\ UNCHANGED <<announced, doubted>>
             \/ /\ stage = "sent" /\ doubted' = doubted
                /\ announced' = [announced EXCEPT ![r] = @ + 1]
             \/ /\ stage = "unsent"
                /\ announced' = [announced EXCEPT ![r] = @ + 1]
                /\ doubted' = [doubted EXCEPT ![r] = @ + 1]
  BY DEF AnnounceStep, AnnounceSkipped, Send, SendFails, Announces, Doubts, history
<1>5. PICK stage \in {"sending", "sent", "unsent"} :
          /\ Moves(r, stage)
          /\ \/ stage # "sent" /\ UNCHANGED <<announced, doubted>>
             \/ /\ stage = "sent" /\ doubted' = doubted
                /\ announced' = [announced EXCEPT ![r] = @ + 1]
             \/ /\ stage = "unsent"
                /\ announced' = [announced EXCEPT ![r] = @ + 1]
                /\ doubted' = [doubted EXCEPT ![r] = @ + 1]
  BY <1>4
<1>6. /\ announced' \in [Runs -> Nat] /\ doubted' \in [Runs -> Nat]
      /\ \A q \in Runs \ {r} : announced'[q] = announced[q] /\ doubted'[q] = doubted[q]
  BY <1>1, <1>5
<1>12. /\ announced'[r] <= 1 + doubted'[r]
       /\ stage # "sent" => announced'[r] <= doubted'[r]
  <2>1. \/ stage # "sent" /\ announced'[r] = announced[r] /\ doubted'[r] = doubted[r]
        \/ stage = "sent" /\ announced'[r] = announced[r] + 1 /\ doubted'[r] = doubted[r]
        \/ announced'[r] = announced[r] + 1 /\ doubted'[r] = doubted[r] + 1
    BY <1>1, <1>5
  <2>2. announced[r] \in Nat /\ doubted[r] \in Nat /\ announced[r] <= doubted[r]
    BY <1>1, <1>2 DEF MaySend
  <2> QED
    BY <2>1, <2>2
<1>7. /\ flow' \in [Runs -> {"none", "asking", "sending", "sent", "unsent"}]
      /\ flow'[r] = stage
  BY <1>1, <1>5 DEF Moves
<1>8. FlowOK(r)' /\ OpenOK(r)'
  BY <1>7, <1>12 DEF FlowOK, OpenOK, MaySend
<1>9. \A q \in Runs : Sound(q)'
  BY <1>2, <1>3, <1>5, <1>6, <1>8, FlowMoves
<1>10. missed' \subseteq Runs /\ faults' \in 0..MaxFaults
  <2>1. missed \subseteq Runs /\ faults \in 0..MaxFaults
    BY DEF TypeOK
  <2> QED
    BY <1>3, <2>1, BoundsAssumption
<1>11. TypeOK'
  BY <1>3, <1>6, <1>7, <1>10 DEF TypeOK
<1> QED
  BY <1>9, <1>11

\* Both informants note the end of a run that is registered.
LEMMA HearingIsSound ==
    ASSUME TypeOK, \A q \in Runs : Sound(q), NEW r \in Runs,
           ChildEnds(r) \/ AttemptEnds(r) \/ WaitReturns(r)
    PROVE  TypeOK' /\ \A q \in Runs : Sound(q)'
<1>1. /\ IF Known(r) THEN NoteEnd(r) ELSE UNCHANGED <<entry, disk, flow>>
      /\ UNCHANGED <<announced, doubted, missed, sweeping>>
  BY DEF ChildEnds, AttemptEnds, WaitReturns, EndIsHeard, history
<1>2. Noted(r)
  BY <1>1, NoteEndIsNoted DEF Noted
<1>3. /\ entry' \in [Runs -> Entries \cup {NoEntry}]
      /\ disk' \in [Runs -> Entries \cup {NoEntry}]
      /\ flow' \in [Runs -> {"none", "asking", "sending", "sent", "unsent"}]
      /\ \A q \in Runs : Sound(q)'
  BY <1>1, <1>2, NotedIsSound
<1>4. /\ child' \in [Runs -> {"none", "running", "over", "lost"}]
      /\ cached' \subseteq Runs /\ waiting' \subseteq Runs
  BY DEF TypeOK, ChildEnds, AttemptEnds, WaitReturns, EndIsHeard, gateway
<1>5. faults' \in 0..MaxFaults
  BY BoundsAssumption DEF TypeOK, ChildEnds, AttemptEnds, WaitReturns, Fault
<1> QED
  BY <1>1, <1>3, <1>4, <1>5 DEF TypeOK

\* A run is registered only if nothing was announced for it.
LEMMA RegisteringIsSound ==
    ASSUME TypeOK, \A q \in Runs : Sound(q), NEW r \in Runs, RegisterSubagentRun(r)
    PROVE  TypeOK' /\ \A q \in Runs : Sound(q)'
<1>1. /\ ~Known(r) /\ announced[r] = 0 /\ r \notin missed
      /\ entry' = [entry EXCEPT ![r] = NewEntry] /\ disk' = entry'
      /\ waiting' = waiting \cup {r}
      /\ UNCHANGED <<child, cached, flow, sweeping, announced, doubted, missed, faults>>
  BY DEF RegisterSubagentRun, Becomes, Persist, gateway, history
<1>2. NewEntry \in Entries
  BY DEF NewEntry, Entries
<1>3. TypeOK'
  <2>1. entry' \in [Runs -> Entries \cup {NoEntry}]
    BY <1>1, <1>2 DEF TypeOK
  <2> QED
    BY <1>1, <2>1 DEF TypeOK
<1>4. \A q \in Runs \ {r} : Sound(q)'
  <2>1. \A q \in Runs \ {r} : entry'[q] = entry[q] /\ disk'[q] = entry[q]
    BY <1>1 DEF TypeOK
  <2> QED
    BY <1>1, <2>1, OthersStaySound
<1>5. Sound(r)'
  <2>1. flow[r] = "none"
    BY <1>1 DEF Sound, ClaimOK
  <2>2. announced[r] <= doubted[r] /\ announced[r] <= 1 + doubted[r]
    BY <1>1 DEF TypeOK
  <2> QED
    BY <1>1, <2>1, <2>2 DEF Sound, FlowOK, OpenOK, ClaimOK, MaySend
<1> QED
  BY <1>3, <1>4, <1>5

\* The end of the flow is recorded in the entry, or the message is doubted.
LEMMA FinalizingIsSound ==
    ASSUME TypeOK, \A q \in Runs : Sound(q), NEW r \in Runs, FinalizeSubagentAnnounce(r)
    PROVE  TypeOK' /\ \A q \in Runs : Sound(q)'
<1>1. /\ flow[r] \in {"sent", "unsent"} /\ flow' = [flow EXCEPT ![r] = "none"]
      /\ IF flow[r] = "sent" /\ ~Known(r) THEN doubted' = [doubted EXCEPT ![r] = @ + 1]
                                          ELSE UNCHANGED doubted
      /\ UNCHANGED <<child, cached, waiting, sweeping, announced, missed, faults>>
  BY DEF FinalizeSubagentAnnounce, Moves, At, Doubts, gateway
<1>2. \/ /\ ~Known(r) \/ flow[r] = "unsent"
         /\ UNCHANGED <<entry, disk>>
      \/ /\ Known(r) /\ disk' = entry'
         /\ \E left \in {NoEntry, [entry[r] EXCEPT !.completed = TRUE]} :
               entry' = [entry EXCEPT ![r] = left]
  BY DEF FinalizeSubagentAnnounce, At, Becomes, Persist
<1>3. Known(r) => LET left == [entry[r] EXCEPT !.completed = TRUE]
                  IN  left \in Entries /\ left.completed
  BY DEF TypeOK, Known, Entries
<1>4. /\ entry \in [Runs -> Entries \cup {NoEntry}] /\ disk \in [Runs -> Entries \cup {NoEntry}]
      /\ flow \in [Runs -> {"none", "asking", "sending", "sent", "unsent"}]
      /\ announced \in [Runs -> Nat] /\ doubted \in [Runs -> Nat]
  BY DEF TypeOK
<1>5. /\ entry' \in [Runs -> Entries \cup {NoEntry}]
      /\ disk' \in [Runs -> Entries \cup {NoEntry}]
  <2>1. ASSUME Known(r), NEW left \in {NoEntry, [entry[r] EXCEPT !.completed = TRUE]},
               entry' = [entry EXCEPT ![r] = left]
        PROVE  entry' \in [Runs -> Entries \cup {NoEntry}]
    <3>1. left \in Entries \cup {NoEntry}
      BY <1>3, <2>1
    <3> QED
      BY <1>4, <2>1, <3>1
  <2> QED
    BY <1>2, <1>4, <2>1
<1>6. doubted' \in [Runs -> Nat]
      /\ flow' \in [Runs -> {"none", "asking", "sending", "sent", "unsent"}]
  BY <1>1, <1>4
<1>7. TypeOK'
  BY <1>1, <1>5, <1>6 DEF TypeOK
<1>8. ASSUME NEW q \in Runs \ {r} PROVE Sound(q)'
  <2>1. entry'[q] = entry[q] /\ disk'[q] \in {disk[q], entry[q]}
    BY <1>2, <1>4
  <2>2. flow'[q] = flow[q] /\ doubted'[q] = doubted[q]
    BY <1>1, <1>4
  <2> QED
    BY <1>1, <2>1, <2>2, OthersStaySound
<1>9. Sound(r)'
  <2>1. flow'[r] = "none" /\ announced' = announced
    BY <1>1, <1>4
  <2>2. FlowOK(r) /\ ClaimOK(r) /\ announced[r] \in Nat /\ doubted[r] \in Nat
    BY <1>4 DEF Sound
  <2>3. doubted'[r] = IF flow[r] = "sent" /\ ~Known(r) THEN doubted[r] + 1 ELSE doubted[r]
    BY <1>1, <1>4
  <2>4. announced'[r] <= 1 + doubted'[r]
    BY <2>1, <2>2, <2>3 DEF FlowOK
  <2>5. ~Known(r) \/ flow[r] = "unsent" => announced'[r] <= doubted'[r]
    BY <1>1, <2>1, <2>2, <2>3 DEF FlowOK, MaySend
  <2>6. \/ ~Known(r) \/ flow[r] = "unsent"
        \/ entry'[r] = NoEntry /\ disk'[r] = NoEntry
        \/ entry'[r].completed /\ disk'[r].completed
    BY <1>2, <1>3, <1>4
  <2> QED
    BY <2>1, <2>4, <2>5, <2>6 DEF Sound, FlowOK, OpenOK, ClaimOK, MaySend, Known
<1> QED
  BY <1>7, <1>8, <1>9

\* A restart reads what is on disk: an entry that is not completed may be announced,
\* for what was sent and not recorded is doubted.
LEMMA RestartIsSound ==
    ASSUME TypeOK, \A q \in Runs : Sound(q), Restart
    PROVE  TypeOK' /\ \A q \in Runs : Sound(q)'
<1> DEFINE Read(torn) == [r \in Runs |->
               IF torn \/ disk[r] = NoEntry THEN NoEntry ELSE Restored(disk[r])]
           Resume(read) == {r \in Runs : read[r] # NoEntry /\ read[r].ended /\ MayBegin(read[r])}
<1>1. PICK torn \in BOOLEAN :
          /\ entry' = [r \in Runs |->
                IF r \in Resume(Read(torn)) THEN [Read(torn)[r] EXCEPT !.handled = TRUE]
                ELSE Read(torn)[r]]
          /\ disk' = IF Resume(Read(torn)) = {} THEN Read(torn) ELSE entry'
          /\ flow' = [r \in Runs |-> IF r \in Resume(Read(torn)) THEN "asking" ELSE "none"]
          /\ waiting' = {r \in Runs : /\ Read(torn)[r] # NoEntry
                                     /\ ~Read(torn)[r].completed /\ ~Read(torn)[r].ended}
          /\ missed' = missed \cup
                {r \in Runs : /\ child[r] # "none"
                              /\ Read(torn)[r] = NoEntry \/ ~Read(torn)[r].ended}
  BY DEF Restart
<1> DEFINE read == Read(torn)
           resume == Resume(read)
<1>2. /\ child' = [r \in Runs |-> IF child[r] = "running" THEN "lost" ELSE child[r]]
      /\ cached' = {} /\ sweeping' = FALSE /\ announced' = announced
      /\ doubted' = [r \in Runs |-> IF flow[r] = "sent" THEN doubted[r] + 1 ELSE doubted[r]]
      /\ faults < MaxFaults /\ faults' = faults + 1
  BY DEF Restart, Fault, At
<1>3. /\ disk \in [Runs -> Entries \cup {NoEntry}]
      /\ announced \in [Runs -> Nat] /\ doubted \in [Runs -> Nat]
  BY DEF TypeOK
\* What is read of an entry on disk.
<1>4. \A r \in Runs : read[r] # NoEntry =>
          /\ disk[r] # NoEntry /\ read[r] \in Entries
          /\ read[r].completed = disk[r].completed /\ read[r].handled = read[r].completed
  <2> SUFFICES ASSUME NEW r \in Runs, read[r] # NoEntry
               PROVE  /\ disk[r] # NoEntry /\ read[r] \in Entries
                      /\ read[r].completed = disk[r].completed
                      /\ read[r].handled = read[r].completed
    OBVIOUS
  <2>1. disk[r] # NoEntry /\ read[r] = Restored(disk[r])
    OBVIOUS
  <2>2. disk[r] \in Entries
    BY <1>3, <2>1
  <2> QED
    BY <2>1, <2>2 DEF Restored, Entries
<1>5. \A r \in Runs : read[r] \in Entries \cup {NoEntry}
  BY <1>4
<1> HIDE DEF read
<1>6. \A r \in resume : /\ [read[r] EXCEPT !.handled = TRUE] \in Entries
                        /\ [read[r] EXCEPT !.handled = TRUE].handled
                        /\ [read[r] EXCEPT !.handled = TRUE].completed = read[r].completed
                        /\ read[r] # NoEntry
  BY <1>4 DEF Entries
<1>7. /\ entry' = [r \in Runs |-> IF r \in resume THEN [read[r] EXCEPT !.handled = TRUE]
                                  ELSE read[r]]
      /\ disk' = IF resume = {} THEN read ELSE entry'
      /\ flow' = [r \in Runs |-> IF r \in resume THEN "asking" ELSE "none"]
      /\ waiting' \subseteq Runs
      /\ missed' \subseteq missed \cup Runs
      /\ read = [r \in Runs |-> read[r]]
  BY <1>1 DEF read
<1>8. resume \subseteq Runs /\ \A r \in resume : ~read[r].completed
  BY DEF MayBegin
<1> HIDE DEF resume
<1>9. entry' \in [Runs -> Entries \cup {NoEntry}]
  BY <1>5, <1>6, <1>7
<1>10. disk' \in [Runs -> Entries \cup {NoEntry}]
  BY <1>5, <1>7, <1>9
<1>11. TypeOK'
  <2>1. child' \in [Runs -> {"none", "running", "over", "lost"}]
    BY <1>2 DEF TypeOK
  <2>2. doubted' \in [Runs -> Nat] /\ announced' \in [Runs -> Nat]
    BY <1>2, <1>3
  <2>3. flow' \in [Runs -> {"none", "asking", "sending", "sent", "unsent"}]
    BY <1>7
  <2>4. missed' \subseteq Runs /\ faults' \in 0..MaxFaults
    BY <1>2, <1>7, BoundsAssumption DEF TypeOK
  <2>5. cached' \subseteq Runs /\ waiting' \subseteq Runs /\ sweeping' \in BOOLEAN
    BY <1>2, <1>7
  <2> QED
    BY <1>9, <1>10, <2>1, <2>2, <2>3, <2>4, <2>5 DEF TypeOK
<1>12. ASSUME NEW r \in Runs PROVE Sound(r)'
  <2>1. Sound(r) /\ announced[r] \in Nat /\ doubted[r] \in Nat /\ announced'[r] = announced[r]
    BY <1>2, <1>3
  <2>2. doubted'[r] = IF flow[r] = "sent" THEN doubted[r] + 1 ELSE doubted[r]
    BY <1>2
  <2>3. announced'[r] <= 1 + doubted'[r]
    BY <2>1, <2>2 DEF Sound, FlowOK
  <2>4. ASSUME read[r] # NoEntry, ~read[r].completed PROVE announced'[r] <= doubted'[r]
    <3>1. flow[r] # "sent" => announced[r] <= doubted[r]
      BY <1>4, <2>1, <2>4 DEF Sound, OpenOK, MaySend
    <3>2. announced[r] <= 1 + doubted[r]
      BY <2>1 DEF Sound, FlowOK
    <3> QED
      BY <2>1, <2>2, <3>1, <3>2
  <2>5. CASE r \in resume
    <3>1. /\ flow'[r] = "asking" /\ entry'[r] = [read[r] EXCEPT !.handled = TRUE]
          /\ announced'[r] <= doubted'[r] /\ entry'[r].handled
      BY <1>6, <1>7, <1>8, <2>4, <2>5
    <3>2. entry'[r] # NoEntry
      BY <1>6, <2>5, <3>1, NoEntryAssumption
    <3> QED
      BY <2>3, <3>1, <3>2 DEF Sound, FlowOK, OpenOK, ClaimOK, MaySend, Known
  <2>6. CASE r \notin resume
    <3>1. flow'[r] = "none" /\ entry'[r] = read[r] /\ disk'[r] = read[r]
      BY <1>7, <2>6
    <3> QED
      BY <2>3, <2>4, <3>1 DEF Sound, FlowOK, OpenOK, ClaimOK, MaySend, Known
  <2> QED
    BY <2>5, <2>6
<1> QED
  BY <1>11, <1>12

LEMMA InitOK == Init => IInv
<1> SUFFICES ASSUME Init PROVE IInv
  OBVIOUS
<1>1. TypeOK
  <2>1. /\ disk = [r \in Runs |-> NoEntry] /\ disk = entry
        /\ faults \in 0..MaxFaults /\ cached = {} /\ waiting = {} /\ missed = {}
    BY BoundsAssumption DEF Init
  <2> QED
    BY <2>1 DEF Init, TypeOK
<1>2. ASSUME NEW r \in Runs PROVE Sound(r)
  BY DEF Init, Sound, FlowOK, OpenOK, ClaimOK, MaySend, Known
<1> QED
  BY <1>1, <1>2 DEF IInv

LEMMA StepOK == IInv /\ [Next]_vars => IInv'
<1> SUFFICES ASSUME TypeOK, \A q \in Runs : Sound(q), [Next]_vars
             PROVE  TypeOK' /\ \A q \in Runs : Sound(q)'
  BY DEF IInv
<1>1. ASSUME UNCHANGED <<entry, flow, announced, doubted>>, missed \subseteq missed',
             disk' \in {disk, entry}
      PROVE  \A q \in Runs : Sound(q)'
  BY <1>1, OthersStaySound
<1>2. ASSUME NEW r \in Runs, ChildStarts(r) \/ WaitTimesOut(r)
      PROVE  TypeOK' /\ \A q \in Runs : Sound(q)'
  <2>1. TypeOK'
    BY <1>2 DEF TypeOK, ChildStarts, WaitTimesOut, gateway, history
  <2> QED
    BY <1>1, <1>2, <2>1 DEF ChildStarts, WaitTimesOut, gateway, history
<1>3. ASSUME NEW r \in Runs, SweepTakes(r)
      PROVE  TypeOK' /\ \A q \in Runs : Sound(q)'
  <2>1. /\ entry' = [entry EXCEPT ![r] = NoEntry] /\ missed' = missed \cup {r}
        /\ sweeping' = TRUE
        /\ UNCHANGED <<child, cached, disk, waiting, flow, announced, doubted, faults>>
    BY <1>3 DEF SweepTakes, gateway
  <2>2. /\ entry' \in [Runs -> Entries \cup {NoEntry}] /\ entry'[r] = NoEntry
        /\ \A q \in Runs \ {r} : entry'[q] = entry[q]
    BY <2>1 DEF TypeOK
  <2>3. TypeOK'
    BY <2>1, <2>2 DEF TypeOK
  <2>4. \A q \in Runs \ {r} : Sound(q)'
    BY <2>1, <2>2, OthersStaySound
  <2>5. Sound(r)'
    BY <2>1, <2>2 DEF Sound, FlowOK, OpenOK, ClaimOK, MaySend, Known
  <2> QED
    BY <2>3, <2>4, <2>5
<1>4. CASE SweepEnds
  <2>1. TypeOK'
    BY <1>4 DEF TypeOK, SweepEnds, Persist, gateway, history
  <2> QED
    BY <1>1, <1>4, <2>1 DEF SweepEnds, Persist, gateway, history
<1>5. CASE UNCHANGED vars
  <2>1. TypeOK'
    BY <1>5 DEF TypeOK, vars
  <2> QED
    BY <1>1, <1>5, <2>1 DEF vars
<1> QED
  BY <1>2, <1>3, <1>4, <1>5, RegisteringIsSound, HearingIsSound, SendingIsSound,
     FinalizingIsSound, RestartIsSound DEF Next, GoesOn

LEMMA Invariance == Spec => []IInv
  BY InitOK, StepOK, PTL DEF Spec

--------------------------------------------------------------------------------
(* The theorems *)

\* The registry in memory and on disk, the gateway and the flows keep their types.
THEOREM TypeCorrect == Spec => []TypeOK
<1>1. IInv => TypeOK
  BY DEF IInv
<1> QED
  BY <1>1, Invariance, PTL

\* The requester hears of a run once: what is sent beyond the first message follows
\* one whose end was not recorded.
THEOREM RunsAreAnnouncedOnce == Spec => []AnnouncedOnce
<1>1. IInv => AnnouncedOnce
  BY DEF IInv, Sound, FlowOK, AnnouncedOnce
<1> QED
  BY <1>1, Invariance, PTL

================================================================================
