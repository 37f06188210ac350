---------------------------- MODULE VoiceCallProofs -----------------------------
(***************************************************************************)
(* For all calls, webhooks, faults and restarts: the first message is      *)
(* spoken once, a call that ended does not come back, and an active call   *)
(* is found under its id.  All are about a record that several callbacks   *)
(* hold while it is taken out of the indices: what they write to it and to *)
(* the indices afterwards must not undo the end, nor hide a newer record.  *)
(***************************************************************************)
EXTENDS VoiceCall, FiniteSetTheorems, TLAPS

\* Whoever refers to a record refers to one that exists.
ExistsOK(r) == r \in active \cup dialing \cup over \/ hanging[r] > 0 => call[r] # None

\* As long as a record has its first message, it was not spoken.
GreetOK(r) ==
    ~restarted =>
        /\ greeted[r] <= 1
        /\ call[r] = None \/ call[r].greet => greeted[r] = 0

\* What is over stays so: in the index, in the record, and in the file.
OverOK(r) ==
    r \in over =>
        /\ ~restarted \/ r \notin excused => r \notin active
        /\ r \notin excused => Ended(call[r]) /\ EndIsWritten(r)

\* Of a call that goes on there is a line, and no line says that it ended.
OpenOK(r) ==
    /\ call[r] = None => LastLines(r) \subseteq {None}
    /\ call[r] # None /\ r \notin over \cup excused =>
           /\ ~Ended(call[r])
           /\ LastLines(r) \ {None} # {} /\ \A c \in LastLines(r) \ {None} : ~Ended(c)

RecordOK(r) == ExistsOK(r) /\ GreetOK(r) /\ OverOK(r) /\ OpenOK(r)

\* An invocation that speaks has a record.
SpeakerOK(o) ==
    At(o, "speaking") => continue[o].on \in Records /\ call[continue[o].on] # None

IInv == TypeOK /\ (\A r \in Records : RecordOK(r)) /\ (\A o \in Continues : SpeakerOK(o))

--------------------------------------------------------------------------------
(* Records and their states *)

LEMMA RecordFacts ==
    /\ \A p \in Outbound : Dialed(p) \in Records /\ Dialed(p).of = p
    /\ \A r \in Records : r.of \in Calls /\ r.nr \in {1, 2}
    /\ \A p \in Calls : CallId(p) \in ProviderIds /\ RequestId(p) \in ProviderIds
<1>1. \A p \in Outbound : Dialed(p) \in Records /\ Dialed(p).of = p
  <2>1. ASSUME NEW p \in Outbound
        PROVE  [of |-> p, nr |-> 1] \in {[of |-> q, nr |-> 1] : q \in Outbound}
    OBVIOUS
  <2>2. ASSUME NEW p \in Outbound PROVE Dialed(p) \in Records
    BY <2>1 DEF Records, Dialed
  <2>3. ASSUME NEW p \in Outbound PROVE Dialed(p).of = p
    BY DEF Dialed
  <2> QED
    BY <2>2, <2>3
<1>2. \A r \in Records : r.of \in Calls /\ r.nr \in {1, 2}
  BY DEF Records, Calls
<1>3. \A p \in Calls : CallId(p) \in ProviderIds /\ RequestId(p) \in ProviderIds
  BY DEF CallId, RequestId, ProviderIds
<1> QED
  BY <1>1, <1>2, <1>3

LEMMA StateFacts ==
    /\ {"initiated", "ringing", "answered", "active", "speaking", "listening"} \subseteq CallStates
    /\ TerminalStates \subseteq CallStates
<1>1. /\ StateOrder[1] = "initiated" /\ StateOrder[2] = "ringing" /\ StateOrder[3] = "answered"
      /\ StateOrder[4] = "active" /\ StateOrder[5] = "speaking" /\ StateOrder[6] = "listening"
      /\ DOMAIN StateOrder = 1..6
  BY DEF StateOrder
<1>2. {1, 2, 3, 4, 5, 6} \subseteq DOMAIN StateOrder
  BY <1>1
<1> QED
  BY <1>1, <1>2 DEF CallStates

\* A record changes its state, keeps its message, and stays ended.
LEMMA TransitionFacts ==
    ASSUME NEW c \in Objects, NEW new \in CallStates
    PROVE  /\ TransitionState(c, new) \in Objects
           /\ TransitionState(c, new).greet = c.greet
           /\ new \in TerminalStates => Ended(TransitionState(c, new))
           /\ ~Ended(c) /\ new \notin TerminalStates => ~Ended(TransitionState(c, new))
  BY DEF TransitionState, Objects, Ended

\* Of some records there is a first and a last one.
LEMMA FirstAndLast ==
    ASSUME NEW S \in SUBSET Records, S # {}
    PROVE  /\ \E r \in S : \A u \in S : r.nr <= u.nr
           /\ \E r \in S : \A u \in S : r.nr >= u.nr
<1>1. \A r \in S : r.nr = 1 \/ r.nr = 2
  BY RecordFacts
<1>2. \E r \in S : \A u \in S : r.nr <= u.nr
  <2>1. CASE \E r \in S : r.nr = 1
    BY <1>1, <2>1
  <2>2. CASE \A r \in S : r.nr = 2
    BY <2>2
  <2> QED
    BY <1>1, <2>1, <2>2
<1>3. \E r \in S : \A u \in S : r.nr >= u.nr
  <2>1. CASE \E r \in S : r.nr = 2
    BY <1>1, <2>1
  <2>2. CASE \A r \in S : r.nr = 1
    BY <2>2
  <2> QED
    BY <1>1, <2>1, <2>2
<1> QED
  BY <1>2, <1>3

LEMMA FoundIsActive ==
    ASSUME TypeOK, NEW p \in Calls, FindCall(p) # None
    PROVE  FindCall(p) \in active
<1>1. CASE p \in Outbound
  BY <1>1 DEF FindCall
<1>2. CASE p \notin Outbound
  <2> DEFINE i == CallId(p)
             having == {r \in active : call[r].id = i}
             first == CHOOSE r \in having : \A u \in having : r.nr <= u.nr
  <2>1. FindCall(p) = IF idMap[i] # None THEN IF idMap[i] \in active THEN idMap[i] ELSE None
                      ELSE IF having = {} THEN None ELSE first
    BY <1>2 DEF FindCall, GetCallByProviderCallId
  <2>2. having # {} => first \in having
    <3> SUFFICES ASSUME having # {} PROVE first \in having
      OBVIOUS
    <3>1. having \in SUBSET Records
      BY DEF TypeOK
    <3> HIDE DEF having
    <3>2. \E r \in having : \A u \in having : r.nr <= u.nr
      BY <3>1, FirstAndLast
    <3> QED
      BY <3>2
  <2> HIDE DEF first
  <2> QED
    BY <2>1, <2>2
<1> QED
  BY <1>1, <1>2

LEMMA NewIsUnused ==
    ASSUME NEW p, Unused(p) # {}
    PROVE  /\ CreateInboundCall(p) \in Records /\ call[CreateInboundCall(p)] = None
           /\ CreateInboundCall(p).of = p
<1>1. Unused(p) \in SUBSET Records
  BY DEF Unused
<1>2. \E r \in Unused(p) : \A u \in Unused(p) : r.nr <= u.nr
  BY <1>1, FirstAndLast
<1>3. CreateInboundCall(p) \in Unused(p)
  BY <1>2 DEF CreateInboundCall
<1> QED
  BY <1>3 DEF Unused

--------------------------------------------------------------------------------
(* Steps that write one record *)

Pieces == [last : Objects \cup {None}, flight : SUBSET Objects, strays : Nat]

\* A handler writes a record and its lines.
Writes(r, before, c) == call' = [call EXCEPT ![r] = c] /\ PersistCallRecord(r, before, c)

LEMMA LineFacts ==
    ASSUME TypeOK, NEW r \in Records, NEW c \in Objects, NEW before \in SUBSET Objects,
           IsFiniteSet(before), PersistCallRecord(r, before, c)
    PROVE  /\ lines' \in [Records -> Pieces]
           /\ c \in LastLines(r)' /\ LastLines(r)' \subseteq LastLines(r) \cup before \cup {c}
           /\ \A q \in Records : q # r => lines'[q] = lines[q]
<1>1. PICK late \in SUBSET (before \cup {c}) :
          \E last \in IF c \notin late THEN {c}
                      ELSE IF before \subseteq late THEN {lines[r].last} ELSE before \ late :
             lines' = [lines EXCEPT ![r] = [last |-> last, flight |-> @.flight \cup late,
                                            strays |-> @.strays + Cardinality(late)]]
  BY DEF PersistCallRecord
<1>2. PICK last \in IF c \notin late THEN {c}
                    ELSE IF before \subseteq late THEN {lines[r].last} ELSE before \ late :
          lines' = [lines EXCEPT ![r] = [last |-> last, flight |-> @.flight \cup late,
                                         strays |-> @.strays + Cardinality(late)]]
  BY <1>1
<1>3. Cardinality(late) \in Nat
  <2>1. IsFiniteSet(before \cup {c})
    BY FS_AddElement
  <2> QED
    BY <2>1, FS_Subset, FS_CardinalityType
<1> DEFINE piece == [last |-> last, flight |-> lines[r].flight \cup late,
                     strays |-> lines[r].strays + Cardinality(late)]
<1>4. lines[r] \in Pieces
  BY DEF TypeOK, Pieces
<1>5. last \in Objects \cup {None} /\ last \in before \cup {c, lines[r].last}
  BY <1>2, <1>4 DEF Pieces
<1>6. c = last \/ c \in late
  BY <1>2
<1>7. /\ piece.last = last /\ piece.flight = lines[r].flight \cup late
      /\ piece \in Pieces
  BY <1>3, <1>4, <1>5 DEF Pieces
<1>8. lines' = [lines EXCEPT ![r] = piece]
  BY <1>2
<1> HIDE DEF piece
<1>9. /\ lines' \in [Records -> Pieces] /\ lines'[r] = piece
      /\ \A q \in Records : q # r => lines'[q] = lines[q]
  BY <1>7, <1>8 DEF TypeOK, Pieces
<1> QED
  BY <1>5, <1>6, <1>7, <1>9 DEF LastLines

LEMMA WriteFacts ==
    ASSUME TypeOK, NEW r \in Records, NEW c \in Objects, NEW before \in SUBSET Objects,
           IsFiniteSet(before), Writes(r, before, c)
    PROVE  /\ call' \in [Records -> Objects \cup {None}] /\ lines' \in [Records -> Pieces]
           /\ call'[r] = c /\ c # None
           /\ c \in LastLines(r)' /\ LastLines(r)' \subseteq LastLines(r) \cup before \cup {c}
           /\ \A q \in Records : q # r =>
                  call'[q] = call[q] /\ lines'[q] = lines[q] /\ LastLines(q)' = LastLines(q)
           /\ \A q \in Records : call[q] # None => call'[q] # None
<1>1. c # None
  BY NoneAssumption
<1>2. /\ call' \in [Records -> Objects \cup {None}] /\ call'[r] = c
      /\ \A q \in Records : q # r => call'[q] = call[q]
  BY DEF TypeOK, Writes
<1>3. /\ lines' \in [Records -> Pieces]
      /\ c \in LastLines(r)' /\ LastLines(r)' \subseteq LastLines(r) \cup before \cup {c}
      /\ \A q \in Records : q # r => lines'[q] = lines[q]
  BY LineFacts DEF Writes
<1>4. \A q \in Records : q # r => LastLines(q)' = LastLines(q)
  BY <1>3 DEF LastLines
<1> QED
  BY <1>1, <1>2, <1>3, <1>4

\* What the step of one record has to see to.
LEMMA WriteKeeps ==
    ASSUME IInv, NEW r \in Records, NEW c \in Objects, NEW before \in SUBSET Objects,
           IsFiniteSet(before), Writes(r, before, c),
           active' \subseteq active \cup {r}, dialing' \subseteq dialing \cup {r},
           over \subseteq over', over' \subseteq over \cup {r},
           \A q \in Records : q # r /\ hanging'[q] > 0 => hanging[q] > 0,
           excused \subseteq excused', restarted' = restarted,
           \A q \in Records : q # r => greeted'[q] = greeted[q],
           ~restarted => greeted'[r] <= 1 /\ (c.greet => greeted'[r] = 0),
           r \in over' /\ (~restarted \/ r \notin excused') => r \notin active',
           r \in over' \ excused' => Ended(c),
           r \notin over' \cup excused' => ~Ended(c) /\ \A b \in before : ~Ended(b)
    PROVE  \A q \in Records : RecordOK(q)'
<1>1. /\ call'[r] = c /\ c # None
      /\ c \in LastLines(r)' /\ LastLines(r)' \subseteq LastLines(r) \cup before \cup {c}
      /\ \A q \in Records : q # r => call'[q] = call[q] /\ LastLines(q)' = LastLines(q)
  BY WriteFacts DEF IInv
<1> SUFFICES ASSUME NEW q \in Records PROVE RecordOK(q)'
  OBVIOUS
<1>2. CASE q = r
  <2>1. ExistsOK(r)' /\ GreetOK(r)'
    BY <1>1 DEF ExistsOK, GreetOK
  <2>2. OverOK(r)'
    BY <1>1 DEF OverOK, EndIsWritten, Ended
  <2>3. OpenOK(r)'
    <3> SUFFICES ASSUME r \notin over' \cup excused'
                 PROVE  \A d \in LastLines(r)' \ {None} : ~Ended(d)
      BY <1>1 DEF OpenOK, Ended
    <3>1. \A d \in LastLines(r) \ {None} : ~Ended(d)
      BY DEF IInv, RecordOK, OpenOK
    <3> QED
      BY <1>1, <3>1
  <2> QED
    BY <1>2, <2>1, <2>2, <2>3 DEF RecordOK
<1>3. CASE q # r
  <2>1. RecordOK(q)
    BY DEF IInv
  <2>2. ExistsOK(q)' /\ GreetOK(q)'
    BY <1>1, <1>3, <2>1 DEF RecordOK, ExistsOK, GreetOK
  <2>3. OverOK(q)'
    BY <1>1, <1>3, <2>1 DEF RecordOK, OverOK, EndIsWritten, Ended
  <2>4. OpenOK(q)'
    BY <1>1, <1>3, <2>1 DEF RecordOK, OpenOK, Ended
  <2> QED
    BY <2>2, <2>3, <2>4 DEF RecordOK
<1> QED
  BY <1>2, <1>3

\* Who speaks goes on with its record.
LEMMA SpeakersKeep ==
    ASSUME IInv, \A q \in Records : call[q] # None => call'[q] # None,
           \A o \in Continues : continue'[o] = continue[o] \/ continue'[o].stage # "speaking"
    PROVE  \A o \in Continues : SpeakerOK(o)'
  BY DEF IInv, SpeakerOK, At

\* A step that writes no record.
LEMMA NoWriteKeeps ==
    ASSUME IInv, UNCHANGED <<call, lines>>,
           active' \subseteq active, dialing' \subseteq dialing,
           \A q \in Records : hanging'[q] > 0 => hanging[q] > 0 \/ call[q] # None,
           UNCHANGED <<over, excused, restarted, greeted>>
    PROVE  \A q \in Records : RecordOK(q)'
<1> SUFFICES ASSUME NEW q \in Records PROVE RecordOK(q)'
  OBVIOUS
<1>1. RecordOK(q) /\ LastLines(q)' = LastLines(q)
  BY DEF IInv, LastLines
<1>2. ExistsOK(q)' /\ GreetOK(q)'
  BY <1>1 DEF RecordOK, ExistsOK, GreetOK
<1>3. OverOK(q)' /\ OpenOK(q)'
  BY <1>1 DEF RecordOK, OverOK, OpenOK, EndIsWritten, Ended
<1> QED
  BY <1>2, <1>3 DEF RecordOK

--------------------------------------------------------------------------------
(* Webhooks *)

\* What a webhook may do with a record: with one that is active, or a new one.
Reported(r, c) ==
    /\ ~restarted => greeted[r] <= 1 /\ (c.greet => greeted[r] = 0)
    /\ r \in over => restarted /\ r \in excused
    /\ r \notin over \cup excused => ~Ended(c)

\* A webhook is dropped, or one record is written.
LEMMA EventShape ==
    ASSUME IInv, NEW p \in Calls, NEW type, ProcessEvent(p, type)
    PROVE  \/ UNCHANGED <<objects, awaited, timers, talk, lines, greeted, over>>
           \/ \E r \in Records, c \in Objects, created \in SUBSET Objects :
                 /\ Reported(r, c) /\ created \subseteq {c}
                 /\ \/ ProcessRinging(r, c, created) \/ ProcessAnswered(r, c, created)
                    \/ ProcessSpeech(r, c, created) \/ ProcessEnded(r, c, created)
<1> DEFINE found == FindCall(p)
           r == IF found # None THEN found ELSE CreateInboundCall(p)
           c == IF found # None THEN [call[r] EXCEPT !.id = CallId(p)]
                ELSE [state |-> "ringing", id |-> CallId(p), greet |-> TRUE]
           created == IF found # None THEN {} ELSE {c}
           written == \/ ProcessRinging(r, c, created) \/ ProcessAnswered(r, c, created)
                      \/ ProcessSpeech(r, c, created) \/ ProcessEnded(r, c, created)
<1>1. \/ UNCHANGED <<objects, awaited, timers, talk, lines, greeted, over>>
      \/ (found # None \/ Unused(p) # {}) /\ written
  BY DEF ProcessEvent
<1>2. CallId(p) \in ProviderIds
  BY RecordFacts
<1>3. ASSUME found # None PROVE r \in Records /\ c \in Objects /\ Reported(r, c)
  <2>1. r \in active /\ r \in Records
    BY <1>3, FoundIsActive DEF IInv, TypeOK
  <2>2. call[r] \in Objects /\ call[r] # None /\ c = [call[r] EXCEPT !.id = CallId(p)]
    BY <1>3, <2>1, NoneAssumption DEF IInv, TypeOK, RecordOK, ExistsOK
  <2> HIDE DEF r, found
  <2>3. c \in Objects /\ c.greet = call[r].greet /\ c.state = call[r].state
    BY <1>2, <2>2 DEF Objects
  <2> HIDE DEF c
  <2>4. RecordOK(r)
    BY <2>1 DEF IInv
  <2>5. ~restarted => greeted[r] <= 1 /\ (c.greet => greeted[r] = 0)
    BY <2>2, <2>3, <2>4 DEF RecordOK, GreetOK
  <2>6. r \in over => restarted /\ r \in excused
    BY <2>1, <2>4 DEF RecordOK, OverOK
  <2>7. r \notin over \cup excused => ~Ended(c)
    BY <2>2, <2>3, <2>4 DEF RecordOK, OpenOK, Ended
  <2> QED
    BY <2>1, <2>3, <2>5, <2>6, <2>7 DEF Reported
<1>4. ASSUME found = None, Unused(p) # {} PROVE r \in Records /\ c \in Objects /\ Reported(r, c)
  <2>1. r \in Records /\ call[r] = None
    BY <1>4, NewIsUnused
  <2>2. c \in Objects /\ ~Ended(c)
    BY <1>2, <1>4, StateFacts DEF Objects, Ended, TerminalStates
  <2> HIDE DEF r, c
  <2> QED
    BY <2>1, <2>2 DEF IInv, RecordOK, ExistsOK, GreetOK, Reported
<1>5. created \subseteq {c}
  OBVIOUS
<1> HIDE DEF r, c, created
<1> QED
  BY <1>1, <1>3, <1>4, <1>5

\* The types of what a webhook changes.
EventTypes ==
    /\ call' \in [Records -> Objects \cup {None}] /\ lines' \in [Records -> Pieces]
    /\ active' \in SUBSET Records /\ idMap' \in [ProviderIds -> Records \cup {None}]
    /\ {maxTimers', notifyTimers', dialing', greeting', over'} \subseteq SUBSET Records
    /\ hanging' \in [Records -> 0..MaxHangUps]
    /\ waiter' \in [Records -> Continues \cup {None}]
    /\ continue' \in [Continues -> [stage : Stages, on : Records \cup {None}]]
    /\ greeted' \in [Records -> 0..2]

LEMMA MapType ==
    ASSUME TypeOK, NEW r \in Records
    PROVE  UpgradedMap(r) \in [ProviderIds -> Records \cup {None}]
  BY DEF TypeOK, UpgradedMap

LEMMA WakeFacts ==
    ASSUME TypeOK, NEW r, WakeWaiter(r, "settling")
    PROVE  /\ continue' \in [Continues -> [stage : Stages, on : Records \cup {None}]]
           /\ \A o \in Continues : continue'[o] = continue[o] \/ continue'[o].stage # "speaking"
<1>1. ASSUME NEW o \in Continues
      PROVE  LET x == [continue[o] EXCEPT !.stage = "settling"]
             IN  x \in [stage : Stages, on : Records \cup {None}] /\ x.stage # "speaking"
  BY DEF TypeOK, Stages
<1> QED
  BY <1>1 DEF WakeWaiter, TypeOK

LEMMA RemoveFacts ==
    ASSUME TypeOK, NEW r \in Records, NEW c \in Objects,
           NEW map \in [ProviderIds -> Records \cup {None}], NEW created,
           RemoveCall(r, c, map, created)
    PROVE  /\ Writes(r, created, c) /\ active' = active \ {r} /\ over' = over \cup {r}
           /\ idMap' \in [ProviderIds -> Records \cup {None}]
           /\ maxTimers' = maxTimers \ {r}
           /\ waiter' \in [Records -> Continues \cup {None}]
           /\ continue' \in [Continues -> [stage : Stages, on : Records \cup {None}]]
           /\ \A o \in Continues : continue'[o] = continue[o] \/ continue'[o].stage # "speaking"
<1>1. Writes(r, created, c) /\ active' = active \ {r} /\ over' = over \cup {r}
  BY DEF RemoveCall, Remembers, Writes
<1>2. /\ idMap' \in [ProviderIds -> Records \cup {None}] /\ maxTimers' = maxTimers \ {r}
      /\ waiter' \in [Records -> Continues \cup {None}]
  BY DEF RemoveCall, TypeOK
<1>3. WakeWaiter(r, "settling")
  BY DEF RemoveCall
<1> QED
  BY <1>1, <1>2, <1>3, WakeFacts

LEMMA EventKeeps ==
    ASSUME IInv, NEW p \in Calls, NEW type, ProcessEvent(p, type), UNCHANGED <<excused, restarted>>
    PROVE  /\ EventTypes
           /\ \A q \in Records : RecordOK(q)'
           /\ \A o \in Continues : SpeakerOK(o)'
<1>1. CASE UNCHANGED <<objects, awaited, timers, talk, lines, greeted, over>>
  <2>1. UNCHANGED <<call, active, idMap, dialing, hanging, greeting, maxTimers, notifyTimers,
                    waiter, continue, lines, greeted, over>>
    BY <1>1 DEF objects, awaited, timers, talk
  <2>2. EventTypes
    BY <2>1 DEF IInv, TypeOK, EventTypes, Pieces
  <2>3. \A q \in Records : RecordOK(q)'
    BY <2>1, NoWriteKeeps DEF IInv, TypeOK
  <2>4. \A o \in Continues : SpeakerOK(o)'
    BY <2>1, SpeakersKeep
  <2> QED
    BY <2>2, <2>3, <2>4
<1>2. ASSUME NEW r \in Records, NEW c \in Objects, NEW created \in SUBSET Objects,
             Reported(r, c), created \subseteq {c},
             \/ ProcessRinging(r, c, created) \/ ProcessAnswered(r, c, created)
             \/ ProcessSpeech(r, c, created) \/ ProcessEnded(r, c, created)
      PROVE  /\ EventTypes
             /\ \A q \in Records : RecordOK(q)'
             /\ \A o \in Continues : SpeakerOK(o)'
  <2> DEFINE ring == TransitionState(c, "ringing")
             hear == TransitionState(c, "listening")
             answer == TransitionState(c, "answered")
             end == TransitionState(c, "completed")
  <2>1. /\ {ring, hear, answer, end} \subseteq Objects
        /\ ring.greet = c.greet /\ hear.greet = c.greet /\ answer.greet = c.greet
        /\ end.greet = c.greet /\ Ended(end)
        /\ ~Ended(c) => ~Ended(ring) /\ ~Ended(hear) /\ ~Ended(answer)
    <3>1. /\ {"ringing", "listening", "answered", "completed"} \subseteq CallStates
          /\ "completed" \in TerminalStates
          /\ {"ringing", "listening", "answered"} \cap TerminalStates = {}
      BY StateFacts DEF TerminalStates
    <3>2. /\ {ring, hear, answer, end} \subseteq Objects
          /\ ring.greet = c.greet /\ hear.greet = c.greet /\ answer.greet = c.greet
          /\ end.greet = c.greet /\ Ended(end)
      BY <3>1, TransitionFacts
    <3>3. ~Ended(c) => ~Ended(ring) /\ ~Ended(hear) /\ ~Ended(answer)
      BY <3>1, TransitionFacts
    <3> QED
      BY <3>2, <3>3
  <2>2. UpgradedMap(r) \in [ProviderIds -> Records \cup {None}]
    BY MapType DEF IInv
  <2> HIDE DEF ring, hear, answer, end
  <2>0. IsFiniteSet(created)
    BY <1>2, FS_Singleton, FS_Subset
  <2>7. /\ r \in over => restarted /\ r \in excused
        /\ r \notin over \cup excused => ~Ended(c) /\ \A b \in created : ~Ended(b)
        /\ ~restarted => greeted[r] <= 1 /\ (c.greet => greeted[r] = 0)
    BY <1>2 DEF Reported
  <2>3. CASE ProcessRinging(r, c, created)
    <3>1. /\ Writes(r, created, ring) /\ active' = active \cup {r} /\ idMap' = UpgradedMap(r)
          /\ UNCHANGED <<dialing, hanging, greeting, maxTimers, notifyTimers, waiter, continue,
                         greeted, over>>
      BY <2>3 DEF ProcessRinging, Writes, ring, awaited, timers, talk
    <3>2. EventTypes
      BY <2>0, <2>1, <2>2, <3>1, WriteFacts DEF IInv, TypeOK, EventTypes
    <3>3. \A q \in Records : RecordOK(q)'
      BY <2>0, <2>1, <2>7, <3>1, WriteKeeps DEF IInv, TypeOK
    <3>4. \A o \in Continues : SpeakerOK(o)'
      BY <2>0, <2>1, <3>1, WriteFacts, SpeakersKeep DEF IInv
    <3> QED
      BY <3>2, <3>3, <3>4
  <2>4. CASE ProcessSpeech(r, c, created)
    <3>1. /\ Writes(r, created, hear) /\ active' = active \cup {r} /\ idMap' = UpgradedMap(r)
          /\ WakeWaiter(r, "settling") /\ waiter' = [waiter EXCEPT ![r] = None]
          /\ UNCHANGED <<dialing, hanging, greeting, maxTimers, notifyTimers, greeted, over>>
      BY <2>4 DEF ProcessSpeech, Writes, hear, awaited, timers
    <3>2. /\ continue' \in [Continues -> [stage : Stages, on : Records \cup {None}]]
          /\ \A o \in Continues : continue'[o] = continue[o] \/ continue'[o].stage # "speaking"
      BY <3>1, WakeFacts DEF IInv
    <3>3. EventTypes
      BY <2>0, <2>1, <2>2, <3>1, <3>2, WriteFacts DEF IInv, TypeOK, EventTypes
    <3>4. \A q \in Records : RecordOK(q)'
      BY <2>0, <2>1, <2>7, <3>1, WriteKeeps DEF IInv, TypeOK
    <3>5. \A o \in Continues : SpeakerOK(o)'
      BY <2>0, <2>1, <3>1, <3>2, WriteFacts, SpeakersKeep DEF IInv
    <3> QED
      BY <3>3, <3>4, <3>5
  <2>5. CASE ProcessAnswered(r, c, created)
    <3> DEFINE e == IF answer.greet THEN Greet(r, answer) ELSE answer
               first == [e EXCEPT !.state = answer.state]
               said == {first} \cup created
    <3>1. /\ Writes(r, said, e) /\ active' = active \cup {r} /\ idMap' = UpgradedMap(r)
          /\ maxTimers' = maxTimers \cup {r}
          /\ greeting' = IF answer.greet THEN greeting \cup {r} ELSE greeting
          /\ greeted' = IF answer.greet /\ greeted[r] < 2
                        THEN [greeted EXCEPT ![r] = @ + 1] ELSE greeted
          /\ UNCHANGED <<dialing, hanging, notifyTimers, waiter, continue, over>>
      BY <2>5 DEF ProcessAnswered, Writes, answer, talk, said, first, e
    <3>2. e \in Objects /\ e.greet = FALSE /\ (~Ended(answer) => ~Ended(e))
      <4>1. CASE answer.greet
        BY <2>1, <4>1, StateFacts DEF Greet, AfterGreeting, Objects, Ended, TerminalStates
      <4>2. CASE ~answer.greet
        BY <2>1, <4>2 DEF Objects
      <4> QED
        BY <4>1, <4>2
    <3> HIDE DEF e
    <3>8. first \in Objects /\ (~Ended(answer) => ~Ended(first))
      BY <2>1, <3>2 DEF Objects, Ended
    <3> HIDE DEF first
    <3>9. said \in SUBSET Objects /\ IsFiniteSet(said)
      BY <2>0, <3>8, FS_AddElement
    <3>10. r \notin over \cup excused => ~Ended(e) /\ \A b \in said : ~Ended(b)
      BY <2>1, <2>7, <3>2, <3>8
    <3> HIDE DEF said
    <3>3. greeted[r] \in 0..2
      BY DEF IInv, TypeOK
    <3>4. /\ greeted' \in [Records -> 0..2]
          /\ \A q \in Records : q # r => greeted'[q] = greeted[q]
          /\ ~restarted => greeted'[r] <= 1
      <4>1. CASE answer.greet /\ greeted[r] < 2
        BY <2>1, <2>7, <3>1, <3>3, <4>1 DEF IInv, TypeOK
      <4>2. CASE ~(answer.greet /\ greeted[r] < 2)
        BY <2>7, <3>1, <4>2 DEF IInv, TypeOK
      <4> QED
        BY <4>1, <4>2
    <3>5. EventTypes
      BY <2>2, <3>1, <3>2, <3>4, <3>9, WriteFacts DEF IInv, TypeOK, EventTypes
    <3>6. \A q \in Records : RecordOK(q)'
      BY <2>7, <3>1, <3>2, <3>4, <3>9, <3>10, WriteKeeps DEF IInv, TypeOK
    <3>7. \A o \in Continues : SpeakerOK(o)'
      BY <3>1, <3>2, <3>9, WriteFacts, SpeakersKeep DEF IInv
    <3> QED
      BY <3>5, <3>6, <3>7
  <2>6. CASE ProcessEnded(r, c, created)
    <3>1. /\ RemoveCall(r, end, UpgradedMap(r), created)
          /\ UNCHANGED <<dialing, hanging, greeting, notifyTimers, greeted>>
      BY <2>6 DEF ProcessEnded, end, awaited
    <3>2. /\ Writes(r, created, end) /\ active' = active \ {r} /\ over' = over \cup {r}
          /\ idMap' \in [ProviderIds -> Records \cup {None}]
          /\ maxTimers' = maxTimers \ {r}
          /\ waiter' \in [Records -> Continues \cup {None}]
          /\ continue' \in [Continues -> [stage : Stages, on : Records \cup {None}]]
          /\ \A o \in Continues : continue'[o] = continue[o] \/ continue'[o].stage # "speaking"
      BY <2>1, <2>2, <3>1, RemoveFacts DEF IInv
    <3>3. EventTypes
      BY <2>0, <2>1, <3>1, <3>2, WriteFacts DEF IInv, TypeOK, EventTypes
    <3>4. \A q \in Records : RecordOK(q)'
      BY <2>0, <2>1, <2>7, <3>1, <3>2, WriteKeeps DEF IInv, TypeOK
    <3>5. \A o \in Continues : SpeakerOK(o)'
      BY <2>0, <2>1, <3>2, WriteFacts, SpeakersKeep DEF IInv
    <3> QED
      BY <3>3, <3>4, <3>5
  <2> QED
    BY <1>2, <2>3, <2>4, <2>5, <2>6
<1> QED
  BY <1>1, <1>2, EventShape

--------------------------------------------------------------------------------
(* The steps *)

LEMMA InitOK == Init => IInv
<1> SUFFICES ASSUME Init PROVE IInv
  OBVIOUS
<1>1. TypeOK
  <2>1. 1 \in 1..Over /\ 0 \in 0..MaxFaults
    BY BoundsAssumption DEF Over, Phases
  <2>2. NoContinue \in [stage : Stages, on : Records \cup {None}]
    BY DEF NoContinue, Stages
  <2>3. /\ call \in [Records -> Objects \cup {None}] /\ active \in SUBSET Records
        /\ idMap \in [ProviderIds -> Records \cup {None}]
        /\ waiter \in [Records -> Continues \cup {None}]
        /\ continue \in [Continues -> [stage : Stages, on : Records \cup {None}]]
    BY <2>2 DEF Init, Nothing
  <2>4. lines \in [Records -> Pieces]
    <3>1. [last |-> None, flight |-> {}, strays |-> 0] \in Pieces
      BY DEF Pieces
    <3> QED
      BY <3>1 DEF Init, Nothing
  <2>5. /\ phone \in [Calls -> 1..Over] /\ greeted \in [Records -> 0..2]
        /\ faults \in 0..MaxFaults /\ {restarted, unheard} \subseteq BOOLEAN
    <3>1. phone \in [Calls -> 1..Over]
      BY <2>1 DEF Init
    <3>2. greeted \in [Records -> 0..2] /\ faults \in 0..MaxFaults
      BY <2>1 DEF Init, Nothing
    <3>3. {restarted, unheard} \subseteq BOOLEAN
      BY DEF Init, Nothing
    <3> QED
      BY <3>1, <3>2, <3>3
  <2>6. /\ {maxTimers, notifyTimers, dialing, greeting, over, excused} \subseteq SUBSET Records
        /\ hanging \in [Records -> 0..MaxHangUps]
    BY BoundsAssumption DEF Init, Nothing
  <2> QED
    BY <2>3, <2>4, <2>5, <2>6 DEF TypeOK, Pieces
<1>2. \A r \in Records : RecordOK(r)
  BY DEF Init, Nothing, RecordOK, ExistsOK, GreetOK, OverOK, OpenOK, LastLines
<1>3. \A o \in Continues : SpeakerOK(o)
  BY DEF Init, Nothing, SpeakerOK, At, NoContinue
<1> QED
  BY <1>1, <1>2, <1>3 DEF IInv

LEMMA FaultType ==
    ASSUME TypeOK, Fault
    PROVE  faults' \in 0..MaxFaults
  BY BoundsAssumption DEF TypeOK, Fault

LEMMA NothingBefore == {} \in SUBSET Objects /\ IsFiniteSet({})
  BY FS_EmptySet

\* What can be said at once of a step that writes one line and ends no record.
LEMMA WrittenOK ==
    ASSUME IInv, NEW r \in Records, NEW c \in Objects, Writes(r, {}, c),
           active' \subseteq active \cup {r}, dialing' \subseteq dialing \cup {r},
           UNCHANGED <<hanging, over, restarted, greeted>>, excused \subseteq excused',
           ~restarted => greeted[r] <= 1 /\ (c.greet => greeted[r] = 0),
           r \in over /\ (~restarted \/ r \notin excused') => r \notin active',
           r \in over \ excused' => Ended(c),
           r \notin over \cup excused' => ~Ended(c)
    PROVE  \A q \in Records : RecordOK(q)'
  BY NothingBefore, WriteKeeps DEF IInv, TypeOK

LEMMA InitiateKeeps ==
    ASSUME IInv, NEW p \in Outbound, InitiateCall(p)
    PROVE  IInv'
<1> DEFINE r == Dialed(p)
           c == [state |-> "initiated", id |-> None, greet |-> TRUE]
<1>1. /\ r \in Records /\ call[r] = None /\ Writes(r, {}, c)
      /\ active' = active \cup {r} /\ dialing' = dialing \cup {r}
      /\ UNCHANGED <<idMap, hanging, greeting, timers, talk, phone, history>>
  BY RecordFacts DEF InitiateCall, Writes
<1>2. c \in Objects /\ ~Ended(c)
  BY StateFacts DEF Objects, Ended, TerminalStates
<1> HIDE DEF r, c
<1>3. /\ r \notin over
      /\ ~restarted => greeted[r] = 0
  BY <1>1 DEF IInv, RecordOK, ExistsOK, GreetOK
<1>4. TypeOK'
  BY <1>1, <1>2, NothingBefore, WriteFacts DEF IInv, TypeOK, Pieces, timers, talk, history
<1>5. \A q \in Records : RecordOK(q)'
  BY <1>1, <1>2, <1>3, WrittenOK DEF history
<1>6. \A o \in Continues : SpeakerOK(o)'
  BY <1>1, <1>2, NothingBefore, WriteFacts, SpeakersKeep DEF IInv, talk
<1> QED
  BY <1>4, <1>5, <1>6 DEF IInv

\* A record that is written once more: its state or its id changes.
LEMMA RewriteFacts ==
    ASSUME IInv, NEW r \in Records, call[r] # None,
           NEW state \in CallStates, NEW id \in ProviderIds
    PROVE  LET c == [call[r] EXCEPT !.state = state]
               d == [call[r] EXCEPT !.id = id]
           IN  /\ c \in Objects /\ c.greet = call[r].greet /\ c.state = state
               /\ d \in Objects /\ d.greet = call[r].greet /\ d.state = call[r].state
               /\ ~restarted => greeted[r] <= 1 /\ (call[r].greet => greeted[r] = 0)
<1>1. call[r] \in Objects
  BY DEF IInv, TypeOK
<1>2. ~restarted => greeted[r] <= 1 /\ (call[r].greet => greeted[r] = 0)
  BY DEF IInv, RecordOK, GreetOK
<1> QED
  BY <1>1, <1>2 DEF Objects

LEMMA DialReturnsKeeps ==
    ASSUME IInv, NEW r \in Records, DialReturns(r)
    PROVE  IInv'
<1> DEFINE i == RequestId(r.of)
           c == [call[r] EXCEPT !.id = i]
<1>1. /\ r \in dialing /\ dialing' = dialing \ {r} /\ Writes(r, {}, c)
      /\ idMap' = [idMap EXCEPT ![i] = r]
      /\ UNCHANGED <<active, hanging, greeting, timers, talk, phone, history>>
  BY DEF DialReturns, Writes
<1>2. call[r] # None /\ i \in ProviderIds
  BY <1>1, RecordFacts DEF IInv, RecordOK, ExistsOK
<1>3. /\ c \in Objects /\ c.greet = call[r].greet /\ c.state = call[r].state
      /\ ~restarted => greeted[r] <= 1 /\ (call[r].greet => greeted[r] = 0)
  BY <1>2, StateFacts, RewriteFacts
<1> HIDE DEF c, i
<1>4. /\ r \in over /\ (~restarted \/ r \notin excused) => r \notin active
      /\ r \in over \ excused => Ended(c)
      /\ r \notin over \cup excused => ~Ended(c)
  BY <1>2, <1>3 DEF IInv, RecordOK, OverOK, OpenOK, Ended
<1>5. TypeOK'
  BY <1>1, <1>2, <1>3, NothingBefore, WriteFacts DEF IInv, TypeOK, Pieces, timers, talk, history
<1>6. \A q \in Records : RecordOK(q)'
  BY <1>1, <1>3, <1>4, WrittenOK DEF history
<1>7. \A o \in Continues : SpeakerOK(o)'
  BY <1>1, <1>3, NothingBefore, WriteFacts, SpeakersKeep DEF IInv, talk
<1> QED
  BY <1>5, <1>6, <1>7 DEF IInv

LEMMA DialFailsKeeps ==
    ASSUME IInv, NEW r \in Records, DialFails(r)
    PROVE  IInv'
<1> DEFINE c == [call[r] EXCEPT !.state = "failed"]
<1>1. /\ r \in dialing /\ Fault /\ dialing' = dialing \ {r} /\ Writes(r, {}, c)
      /\ active' = active \ {r} /\ over' = over \cup {r}
      /\ idMap' = [i \in ProviderIds |-> IF i = call[r].id THEN None ELSE idMap[i]]
      /\ UNCHANGED <<hanging, greeting, timers, talk, phone, greeted, excused, restarted, unheard>>
  BY DEF DialFails, Writes
<1>2. call[r] # None /\ "failed" \in CallStates
  BY <1>1, StateFacts DEF IInv, RecordOK, ExistsOK, TerminalStates
<1>3. ProviderIds # {}
  BY RecordFacts
<1>4. /\ c \in Objects /\ c.greet = call[r].greet /\ Ended(c)
      /\ ~restarted => greeted[r] <= 1 /\ (call[r].greet => greeted[r] = 0)
  BY <1>2, <1>3, RewriteFacts DEF Ended, TerminalStates
<1> HIDE DEF c
<1>5. idMap' \in [ProviderIds -> Records \cup {None}] /\ faults' \in 0..MaxFaults
  BY <1>1, FaultType DEF IInv, TypeOK
<1>6. TypeOK'
  BY <1>1, <1>4, <1>5, NothingBefore, WriteFacts DEF IInv, TypeOK, Pieces, timers, talk
<1>7. \A q \in Records : RecordOK(q)'
  BY <1>1, <1>4, NothingBefore, WriteKeeps DEF IInv, TypeOK
<1>8. \A o \in Continues : SpeakerOK(o)'
  BY <1>1, <1>4, NothingBefore, WriteFacts, SpeakersKeep DEF IInv, talk
<1> QED
  BY <1>6, <1>7, <1>8 DEF IInv

\* Webhooks in time, late, again.
LEMMA WebhookKeeps ==
    ASSUME IInv, NEW p \in Calls, NEW type, ProcessEvent(p, type),
           UNCHANGED <<excused, restarted, unheard>>, faults' \in 0..MaxFaults,
           phone' \in [Calls -> 1..Over]
    PROVE  IInv'
<1>1. EventTypes /\ (\A q \in Records : RecordOK(q)') /\ \A o \in Continues : SpeakerOK(o)'
  BY EventKeeps
<1>2. TypeOK'
  BY <1>1 DEF IInv, TypeOK, EventTypes, Pieces
<1> QED
  BY <1>1, <1>2 DEF IInv

LEMMA PhoneKeeps ==
    ASSUME IInv, NEW p \in Calls,
           \/ \E n \in 2..Over : PhoneMoves(p, n) \/ EventAgain(p, n)
           \/ Speech(p)
    PROVE  IInv'
<1>0. phone \in [Calls -> 1..Over] /\ faults \in 0..MaxFaults /\ Over \in Nat
  BY DEF IInv, TypeOK, Over, Phases
<1>1. CASE \E n \in 2..Over : PhoneMoves(p, n)
  <2>1. PICK n \in 2..Over : PhoneMoves(p, n)
    BY <1>1
  <2>2. /\ ProcessEvent(p, Phases[n]) /\ phone' = [phone EXCEPT ![p] = n]
        /\ UNCHANGED <<excused, faults, restarted, unheard>>
    BY <2>1 DEF PhoneMoves
  <2>3. phone' \in [Calls -> 1..Over]
    BY <1>0, <2>2
  <2> QED
    BY <1>0, <2>2, <2>3, WebhookKeeps
<1>2. CASE \E n \in 2..Over : EventAgain(p, n)
  <2>1. PICK n \in 2..Over : EventAgain(p, n)
    BY <1>2
  <2>2. /\ ProcessEvent(p, Phases[n]) /\ Fault
        /\ UNCHANGED <<phone, excused, restarted, unheard>>
    BY <2>1 DEF EventAgain
  <2> QED
    BY <1>0, <2>2, FaultType, WebhookKeeps DEF IInv
<1>3. CASE Speech(p)
  <2>1. /\ ProcessEvent(p, "speech")
        /\ UNCHANGED <<phone, excused, faults, restarted, unheard>>
    BY <1>3 DEF Speech
  <2> QED
    BY <1>0, <2>1, WebhookKeeps
<1> QED
  BY <1>1, <1>2, <1>3

\* Speaking, and the prompt of continueCall, before and after.
LEMMA SpeakKeeps ==
    ASSUME IInv, NEW r \in Records, Speak(r)
    PROVE  IInv'
<1> DEFINE c == [call[r] EXCEPT !.state = "speaking"]
<1>1. /\ r \in active /\ call[r].id # None /\ Writes(r, {}, c)
      /\ UNCHANGED <<active, idMap, awaited, timers, talk, phone, history>>
  BY DEF Speak, Connected, Writes
<1>2. call[r] # None /\ "speaking" \in CallStates /\ ProviderIds # {}
  BY <1>1, StateFacts, RecordFacts DEF IInv, RecordOK, ExistsOK
<1>3. /\ c \in Objects /\ c.greet = call[r].greet /\ ~Ended(c)
      /\ ~restarted => greeted[r] <= 1 /\ (call[r].greet => greeted[r] = 0)
  BY <1>2, RewriteFacts DEF Ended, TerminalStates
<1> HIDE DEF c
<1>4. r \in over => restarted /\ r \in excused
  BY <1>1 DEF IInv, RecordOK, OverOK
<1>5. TypeOK'
  BY <1>1, <1>3, NothingBefore, WriteFacts DEF IInv, TypeOK, Pieces, awaited, timers, talk, history
<1>6. \A q \in Records : RecordOK(q)'
  BY <1>1, <1>3, <1>4, WrittenOK DEF awaited, history
<1>7. \A o \in Continues : SpeakerOK(o)'
  BY <1>1, <1>3, NothingBefore, WriteFacts, SpeakersKeep DEF IInv, talk
<1> QED
  BY <1>5, <1>6, <1>7 DEF IInv

LEMMA ContinueCallKeeps ==
    ASSUME IInv, NEW o \in Continues, NEW r \in Records, ContinueCall(o, r)
    PROVE  IInv'
<1> DEFINE c == [call[r] EXCEPT !.state = "speaking"]
           x == [stage |-> "speaking", on |-> r]
<1>1. /\ r \in active /\ Writes(r, {}, c) /\ continue' = [continue EXCEPT ![o] = x]
      /\ UNCHANGED <<active, idMap, awaited, timers, waiter, phone, history>>
  BY DEF ContinueCall, Connected, Writes
<1>2. call[r] # None /\ "speaking" \in CallStates /\ ProviderIds # {}
  BY <1>1, StateFacts, RecordFacts DEF IInv, RecordOK, ExistsOK
<1>3. /\ c \in Objects /\ c.greet = call[r].greet /\ ~Ended(c)
      /\ ~restarted => greeted[r] <= 1 /\ (call[r].greet => greeted[r] = 0)
  BY <1>2, RewriteFacts DEF Ended, TerminalStates
<1> HIDE DEF c
<1>4. r \in over => restarted /\ r \in excused
  BY <1>1 DEF IInv, RecordOK, OverOK
<1>5. /\ continue' \in [Continues -> [stage : Stages, on : Records \cup {None}]]
      /\ continue'[o] = x /\ \A q \in Continues : q # o => continue'[q] = continue[q]
  <2>1. x \in [stage : Stages, on : Records \cup {None}]
    BY DEF Stages
  <2> HIDE DEF x
  <2> QED
    BY <1>1, <2>1 DEF IInv, TypeOK
<1>6. TypeOK'
  BY <1>1, <1>3, <1>5, NothingBefore, WriteFacts DEF IInv, TypeOK, Pieces, awaited, timers, history
<1>7. \A q \in Records : RecordOK(q)'
  BY <1>1, <1>3, <1>4, WrittenOK DEF awaited, history
<1>8. \A q \in Continues : SpeakerOK(q)'
  <2>1. call'[r] # None /\ \A q \in Records : call[q] # None => call'[q] # None
    BY <1>1, <1>3, NothingBefore, WriteFacts DEF IInv
  <2>2. SpeakerOK(o)'
    BY <1>5, <2>1 DEF SpeakerOK
  <2>3. ASSUME NEW q \in Continues, q # o PROVE SpeakerOK(q)'
    BY <1>5, <2>1, <2>3 DEF IInv, SpeakerOK, At
  <2> QED
    BY <2>2, <2>3
<1> QED
  BY <1>6, <1>7, <1>8 DEF IInv

LEMMA MovesFacts ==
    ASSUME TypeOK, NEW o \in Continues, NEW stage \in Stages \ {"speaking"}, Moves(o, stage)
    PROVE  /\ continue' \in [Continues -> [stage : Stages, on : Records \cup {None}]]
           /\ \A q \in Continues : continue'[q] = continue[q] \/ continue'[q].stage # "speaking"
<1> DEFINE x == [continue[o] EXCEPT !.stage = stage]
<1>1. x \in [stage : Stages, on : Records \cup {None}] /\ x.stage # "speaking"
  BY DEF TypeOK, Stages
<1>2. continue' = [continue EXCEPT ![o] = x]
  BY DEF Moves
<1> HIDE DEF x
<1> QED
  BY <1>1, <1>2 DEF TypeOK

LEMMA PromptSpokenKeeps ==
    ASSUME IInv, NEW o \in Continues, PromptSpoken(o)
    PROVE  IInv'
<1> DEFINE r == continue[o].on
           c == [call[r] EXCEPT !.state = "listening"]
<1>1. /\ At(o, "speaking") /\ Moves(o, "asking") /\ Writes(r, {}, c)
      /\ excused' = IF r \in over THEN excused \cup {r} ELSE excused
      /\ UNCHANGED <<active, idMap, awaited, timers, waiter, phone, greeted, over, faults,
                     restarted, unheard>>
  BY DEF PromptSpoken, Writes
<1>2. r \in Records /\ call[r] # None /\ "listening" \in CallStates /\ ProviderIds # {}
  BY <1>1, StateFacts, RecordFacts DEF IInv, SpeakerOK
<1> HIDE DEF r
<1>3. /\ c \in Objects /\ c.greet = call[r].greet /\ ~Ended(c)
      /\ ~restarted => greeted[r] <= 1 /\ (call[r].greet => greeted[r] = 0)
  BY <1>2, RewriteFacts DEF Ended, TerminalStates
<1> HIDE DEF c
<1>4. /\ continue' \in [Continues -> [stage : Stages, on : Records \cup {None}]]
      /\ \A q \in Continues : continue'[q] = continue[q] \/ continue'[q].stage # "speaking"
  BY <1>1, MovesFacts DEF IInv, Stages
<1>5. /\ excused' \in SUBSET Records /\ excused \subseteq excused'
      /\ r \in over /\ (~restarted \/ r \notin excused') => r \notin active
      /\ r \notin over \ excused'
  BY <1>1, <1>2 DEF IInv, TypeOK, RecordOK, OverOK
<1>6. TypeOK'
  BY <1>1, <1>2, <1>3, <1>4, <1>5, NothingBefore, WriteFacts DEF IInv, TypeOK, Pieces, awaited, timers
<1>7. \A q \in Records : RecordOK(q)'
  BY <1>1, <1>2, <1>3, <1>5, WrittenOK DEF awaited
<1>8. \A q \in Continues : SpeakerOK(q)'
  BY <1>1, <1>2, <1>3, <1>4, NothingBefore, WriteFacts, SpeakersKeep DEF IInv
<1> QED
  BY <1>6, <1>7, <1>8 DEF IInv

\* Steps that write no record.
LEMMA QuietKeeps ==
    ASSUME IInv, UNCHANGED <<call, lines, active, idMap, greeted, over, excused, restarted>>,
           dialing' \subseteq dialing,
           \A q \in Records : hanging'[q] > 0 => hanging[q] > 0 \/ call[q] # None,
           {maxTimers', notifyTimers', dialing', greeting'} \subseteq SUBSET Records,
           hanging' \in [Records -> 0..MaxHangUps],
           waiter' \in [Records -> Continues \cup {None}],
           continue' \in [Continues -> [stage : Stages, on : Records \cup {None}]],
           phone' \in [Calls -> 1..Over], faults' \in 0..MaxFaults, unheard' \in BOOLEAN,
           \A o \in Continues : continue'[o] = continue[o] \/ continue'[o].stage # "speaking"
    PROVE  IInv'
<1>1. TypeOK'
  BY DEF IInv, TypeOK
<1>2. \A q \in Records : RecordOK(q)'
  BY NoWriteKeeps
<1>3. \A o \in Continues : SpeakerOK(o)'
  BY SpeakersKeep
<1> QED
  BY <1>1, <1>2, <1>3 DEF IInv

LEMMA EventLostKeeps ==
    ASSUME IInv, NEW p \in Calls, EventLost(p)
    PROVE  IInv'
<1>1. /\ Fault
      /\ UNCHANGED <<objects, awaited, timers, talk, lines, greeted, over, excused, restarted,
                     unheard>>
  BY DEF EventLost
<1>2. PICK n \in phone[p] + 1 .. Over : phone' = [phone EXCEPT ![p] = n]
  BY DEF EventLost
<1>3. phone' \in [Calls -> 1..Over]
  <2>1. phone[p] \in 1..Over /\ Over \in Nat
    BY DEF IInv, TypeOK, Over, Phases
  <2>2. n \in 1..Over
    BY <1>2, <2>1
  <2> QED
    BY <1>2, <2>2 DEF IInv, TypeOK
<1>4. faults' \in 0..MaxFaults
  BY <1>1, FaultType DEF IInv
<1> QED
  BY <1>1, <1>3, <1>4, QuietKeeps DEF IInv, TypeOK, objects, awaited, timers, talk

LEMMA GreetingKeeps ==
    ASSUME IInv, NEW r \in Records, GreetingPlayed(r) \/ GreetingFails(r)
    PROVE  IInv'
<1>1. /\ greeting' = greeting \ {r} /\ notifyTimers' \in SUBSET Records
      /\ faults' \in 0..MaxFaults
      /\ UNCHANGED <<objects, dialing, hanging, maxTimers, talk, lines, phone, greeted, over,
                     excused, restarted, unheard>>
  <2>1. CASE GreetingPlayed(r)
    BY <2>1 DEF GreetingPlayed, history, IInv, TypeOK
  <2>2. CASE GreetingFails(r)
    BY <2>2, FaultType DEF GreetingFails, timers, IInv, TypeOK
  <2> QED
    BY <2>1, <2>2
<1> QED
  BY <1>1, QuietKeeps DEF IInv, TypeOK, objects, talk

\* A hang-up is asked for by a caller or a timer.
LEMMA HangUpFacts ==
    ASSUME TypeOK, NEW r \in Records, HangUp(r)
    PROVE  /\ hanging' \in [Records -> 0..MaxHangUps]
           /\ \A q \in Records : q # r => hanging'[q] = hanging[q]
<1>1. hanging \in [Records -> 0..MaxHangUps] /\ MaxHangUps \in Nat
  BY BoundsAssumption DEF TypeOK
<1> QED
  BY <1>1 DEF HangUp

\* One that returns, with a result or an error.
LEMMA HungUpFacts ==
    ASSUME TypeOK, NEW r \in Records, hanging[r] > 0, hanging' = [hanging EXCEPT ![r] = @ - 1]
    PROVE  /\ hanging' \in [Records -> 0..MaxHangUps]
           /\ \A q \in Records : hanging'[q] > 0 => hanging[q] > 0
<1>1. hanging \in [Records -> 0..MaxHangUps] /\ MaxHangUps \in Nat
  BY BoundsAssumption DEF TypeOK
<1> QED
  BY <1>1

LEMMA HangUpKeeps ==
    ASSUME IInv, NEW r \in Records, EndCall(r) \/ NotifyDelayOver(r)
    PROVE  IInv'
<1>1. /\ notifyTimers' \in SUBSET Records
      /\ UNCHANGED <<objects, dialing, greeting, maxTimers, talk, lines, phone, history>>
  BY DEF EndCall, NotifyDelayOver, timers, IInv, TypeOK
<1>2. hanging' = hanging \/ (r \in active /\ HangUp(r))
  BY DEF EndCall, NotifyDelayOver, Connected, StillOn
<1>3. /\ hanging' \in [Records -> 0..MaxHangUps]
      /\ \A q \in Records : hanging'[q] > 0 => hanging[q] > 0 \/ call[q] # None
  <2>1. CASE hanging' = hanging
    BY <2>1 DEF IInv, TypeOK
  <2>2. CASE r \in active /\ HangUp(r)
    BY <2>2, HangUpFacts DEF IInv, RecordOK, ExistsOK
  <2> QED
    BY <1>2, <2>1, <2>2
<1> QED
  BY <1>1, <1>3, QuietKeeps DEF IInv, TypeOK, objects, talk, history

LEMMA MaxDurationKeeps ==
    ASSUME IInv, NEW r \in Records, MaxDurationReached(r)
    PROVE  IInv'
<1>1. /\ maxTimers' = maxTimers \ {r}
      /\ UNCHANGED <<objects, dialing, greeting, notifyTimers, talk, phone, history>>
  BY DEF MaxDurationReached
<1>2. CASE ~StillOn(r)
  <2>1. UNCHANGED <<hanging, lines>>
    BY <1>2 DEF MaxDurationReached
  <2> QED
    BY <1>1, <2>1, QuietKeeps DEF IInv, TypeOK, objects, talk, history
<1>3. CASE StillOn(r)
  <2> DEFINE c == call[r]
  <2>1. r \in active /\ ~Ended(c) /\ PersistCallRecord(r, {}, c)
    BY <1>3 DEF MaxDurationReached, StillOn
  <2>7. /\ hanging' \in [Records -> 0..MaxHangUps]
        /\ \A q \in Records : q # r => hanging'[q] = hanging[q]
    BY <1>3, HangUpFacts DEF MaxDurationReached, IInv
  <2>2. c \in Objects /\ Writes(r, {}, c)
    <3>1. call' = [call EXCEPT ![r] = call[r]]
      BY <1>1 DEF objects, IInv, TypeOK
    <3> QED
      BY <2>1, <3>1 DEF Writes, IInv, TypeOK, RecordOK, ExistsOK
  <2>3. /\ ~restarted => greeted[r] <= 1 /\ (c.greet => greeted[r] = 0)
        /\ r \in over => restarted /\ r \in excused
    <3>1. RecordOK(r) /\ call[r] # None
      BY <2>1 DEF IInv, RecordOK, ExistsOK
    <3> QED
      BY <2>1, <3>1 DEF RecordOK, GreetOK, OverOK
  <2> HIDE DEF c
  <2>4. TypeOK'
    BY <1>1, <2>2, <2>7, NothingBefore, WriteFacts DEF IInv, TypeOK, Pieces, objects, talk, history
  <2>5. \A q \in Records : RecordOK(q)'
    BY <1>1, <2>1, <2>2, <2>3, <2>7, NothingBefore, WriteKeeps DEF IInv, TypeOK, objects, history
  <2>6. \A o \in Continues : SpeakerOK(o)'
    BY <1>1, <2>2, NothingBefore, WriteFacts, SpeakersKeep DEF IInv, talk
  <2> QED
    BY <2>4, <2>5, <2>6 DEF IInv
<1> QED
  BY <1>2, <1>3

LEMMA HangupReturnsKeeps ==
    ASSUME IInv, NEW r \in Records, HangupReturns(r)
    PROVE  IInv'
<1> DEFINE c == [call[r] EXCEPT !.state = "hangup-bot"]
<1>1. /\ hanging[r] > 0 /\ hanging' = [hanging EXCEPT ![r] = @ - 1]
      /\ RemoveCall(r, c, idMap, {})
      /\ phone' = [phone EXCEPT ![r.of] = IF @ < 4 THEN 4 ELSE @]
      /\ UNCHANGED <<dialing, greeting, notifyTimers, greeted, excused, faults, restarted,
                     unheard>>
  BY DEF HangupReturns
<1>2. call[r] # None /\ "hangup-bot" \in CallStates /\ ProviderIds # {}
  BY <1>1, StateFacts, RecordFacts DEF IInv, RecordOK, ExistsOK, TerminalStates
<1>3. /\ c \in Objects /\ c.greet = call[r].greet /\ Ended(c)
      /\ ~restarted => greeted[r] <= 1 /\ (call[r].greet => greeted[r] = 0)
  BY <1>2, RewriteFacts DEF Ended, TerminalStates
<1> HIDE DEF c
<1>4. phone' \in [Calls -> 1..Over]
  <2>1. 4 \in 1..Over
    BY DEF Over, Phases
  <2> HIDE DEF c
  <2> QED
    BY <1>1, <2>1 DEF IInv, TypeOK
<1>5. idMap \in [ProviderIds -> Records \cup {None}]
  BY DEF IInv, TypeOK
<1>6. /\ Writes(r, {}, c) /\ active' = active \ {r} /\ over' = over \cup {r}
      /\ idMap' \in [ProviderIds -> Records \cup {None}]
      /\ maxTimers' = maxTimers \ {r}
      /\ waiter' \in [Records -> Continues \cup {None}]
      /\ continue' \in [Continues -> [stage : Stages, on : Records \cup {None}]]
      /\ \A o \in Continues : continue'[o] = continue[o] \/ continue'[o].stage # "speaking"
  BY <1>1, <1>3, <1>5, RemoveFacts DEF IInv
<1>10. /\ hanging' \in [Records -> 0..MaxHangUps]
       /\ \A q \in Records : hanging'[q] > 0 => hanging[q] > 0
  BY <1>1, HungUpFacts DEF IInv
<1>7. TypeOK'
  BY <1>1, <1>3, <1>4, <1>6, <1>10, NothingBefore, WriteFacts DEF IInv, TypeOK, Pieces
<1>8. \A q \in Records : RecordOK(q)'
  BY <1>1, <1>3, <1>6, <1>10, NothingBefore, WriteKeeps DEF IInv, TypeOK
<1>9. \A o \in Continues : SpeakerOK(o)'
  BY <1>3, <1>6, NothingBefore, WriteFacts, SpeakersKeep DEF IInv
<1> QED
  BY <1>7, <1>8, <1>9 DEF IInv

LEMMA HangupFailsKeeps ==
    ASSUME IInv, NEW r \in Records, HangupFails(r)
    PROVE  IInv'
<1>1. /\ hanging[r] > 0 /\ hanging' = [hanging EXCEPT ![r] = @ - 1] /\ unheard' = TRUE /\ Fault
      /\ UNCHANGED <<objects, dialing, greeting, timers, talk, lines, phone, greeted, over,
                     excused, restarted>>
  BY DEF HangupFails
<1>2. faults' \in 0..MaxFaults
  BY <1>1, FaultType DEF IInv
<1>3. /\ hanging' \in [Records -> 0..MaxHangUps]
      /\ \A q \in Records : hanging'[q] > 0 => hanging[q] > 0
  BY <1>1, HungUpFacts DEF IInv
<1> QED
  BY <1>1, <1>2, <1>3, QuietKeeps DEF IInv, TypeOK, objects, timers, talk

\* The other steps of continueCall change waiters and stages only.
LEMMA WaitKeeps ==
    ASSUME IInv, NEW o \in Continues,
           \/ WaitForFinalTranscript(o) \/ ListeningFails(o)
           \/ TranscriptTimesOut(o) \/ ContinueSettles(o)
    PROVE  IInv'
<1>1. /\ UNCHANGED <<objects, awaited, timers, lines, phone, greeted, over, excused, restarted,
                     unheard>>
      /\ faults' \in 0..MaxFaults
  BY FaultType DEF WaitForFinalTranscript, ListeningFails, TranscriptTimesOut, ContinueSettles,
                   history, IInv, TypeOK
<1>2. waiter' \in [Records -> Continues \cup {None}]
  BY DEF WaitForFinalTranscript, ListeningFails, TranscriptTimesOut, ContinueSettles, IInv, TypeOK
<1>3. /\ continue' \in [Continues -> [stage : Stages, on : Records \cup {None}]]
      /\ \A q \in Continues : continue'[q] = continue[q] \/ continue'[q].stage # "speaking"
  <2>1. CASE WaitForFinalTranscript(o)
    <3> DEFINE new(q) == IF q = o THEN [continue[q] EXCEPT !.stage = "waiting"]
                         ELSE IF waiter[continue[o].on] = q
                              THEN [continue[q] EXCEPT !.stage = "settling"]
                              ELSE continue[q]
    <3>1. continue' = [q \in Continues |-> new(q)]
      BY <2>1 DEF WaitForFinalTranscript
    <3>2. ASSUME NEW q \in Continues
          PROVE  /\ new(q) \in [stage : Stages, on : Records \cup {None}]
                 /\ new(q) = continue[q] \/ new(q).stage # "speaking"
      <4>1. continue[q] \in [stage : Stages, on : Records \cup {None}]
        BY DEF IInv, TypeOK
      <4> QED
        BY <4>1 DEF Stages
    <3> HIDE DEF new
    <3> QED
      BY <3>1, <3>2
  <2>2. CASE ListeningFails(o) \/ TranscriptTimesOut(o) \/ ContinueSettles(o)
    <3>1. Moves(o, "settling") \/ Moves(o, "done")
      BY <2>2 DEF ListeningFails, TranscriptTimesOut, ContinueSettles
    <3> QED
      BY <3>1, MovesFacts DEF IInv, Stages
  <2> QED
    BY <2>1, <2>2
<1> QED
  BY <1>1, <1>2, <1>3, QuietKeeps DEF IInv, TypeOK, objects, awaited, timers

\* A line comes into the file, or does not: only the line of an open call that comes in
\* behind that of the end can bring the call back, and a record is excused then.
LEMMA LineKeeps ==
    ASSUME IInv, NEW r \in Records, LineLands(r) \/ LineLost(r)
    PROVE  IInv'
<1>1. /\ UNCHANGED <<objects, awaited, timers, talk, phone, greeted, over, restarted, unheard>>
      /\ faults' \in 0..MaxFaults
  BY FaultType DEF LineLands, LineLost, IInv, TypeOK
<1>2. PICK c \in lines[r].flight :
         \/ /\ lines' = [lines EXCEPT ![r].last = c, ![r].flight = @ \ {c}]
            /\ excused' = IF EndIsWritten(r) /\ ~Ended(c) THEN excused \cup {r} ELSE excused
         \/ /\ lines' = [lines EXCEPT ![r].flight = @ \ {c}]
            /\ excused' = excused \cup {r}
  BY DEF LineLands, LineLost
<1> DEFINE landed == [lines[r] EXCEPT !.last = c, !.flight = @ \ {c}]
           lost == [lines[r] EXCEPT !.flight = @ \ {c}]
<1>3. lines[r] \in Pieces /\ c \in Objects /\ c # None
  BY NoneAssumption DEF IInv, TypeOK, Pieces
<1>4. /\ landed \in Pieces /\ landed.last = c /\ landed.flight = lines[r].flight \ {c}
      /\ lost \in Pieces /\ lost.last = lines[r].last /\ lost.flight = lines[r].flight \ {c}
  BY <1>3 DEF Pieces
<1>5. \/ /\ lines' = [lines EXCEPT ![r] = landed]
         /\ excused' = IF EndIsWritten(r) /\ ~Ended(c) THEN excused \cup {r} ELSE excused
      \/ /\ lines' = [lines EXCEPT ![r] = lost]
         /\ excused' = excused \cup {r}
  BY <1>2
<1> HIDE DEF landed, lost
<1>6. /\ lines' \in [Records -> Pieces]
      /\ \A q \in Records : q # r => LastLines(q)' = LastLines(q)
      /\ LastLines(r)' \subseteq LastLines(r)
      /\ excused \subseteq excused' /\ excused' \subseteq excused \cup {r}
      /\ r \notin excused' => c \in LastLines(r)' /\ (EndIsWritten(r) => Ended(c))
  <2>1. lines \in [Records -> Pieces]
    BY DEF IInv, TypeOK, Pieces
  <2> QED
    BY <1>4, <1>5, <2>1 DEF LastLines
<1>7. TypeOK'
  <2>1. excused' \in SUBSET Records
    BY <1>6 DEF IInv, TypeOK
  <2> QED
    BY <1>1, <1>6, <2>1 DEF IInv, TypeOK, Pieces, objects, awaited, timers, talk
<1>8. ASSUME NEW q \in Records PROVE RecordOK(q)'
  <2>1. RecordOK(q) /\ LastLines(q)' \subseteq LastLines(q)
    BY <1>6 DEF IInv
  <2>2. ExistsOK(q)' /\ GreetOK(q)'
    BY <1>1, <2>1 DEF RecordOK, ExistsOK, GreetOK, objects, awaited
  <2>3. q \notin excused' => q \notin excused
    BY <1>6
  <2>4. q \in over' \ excused' => EndIsWritten(q)'
    <3> SUFFICES ASSUME q \in over, q \notin excused' PROVE EndIsWritten(q)'
      BY <1>1
    <3>1. EndIsWritten(q)
      BY <2>1, <2>3 DEF RecordOK, OverOK
    <3> QED
      BY <1>3, <1>6, <3>1 DEF EndIsWritten, Ended
  <2>5. OverOK(q)'
    BY <1>1, <2>1, <2>3, <2>4 DEF RecordOK, OverOK, Ended, objects
  <2>6. OpenOK(q)'
    <3>1. call'[q] = call[q] /\ over' = over
      BY <1>1 DEF objects
    <3>2. ASSUME call[q] # None, q \notin over \cup excused' PROVE LastLines(q)' \ {None} # {}
      BY <1>3, <1>6, <2>1, <2>3, <3>2 DEF RecordOK, OpenOK
    <3> QED
      BY <2>1, <2>3, <3>1, <3>2 DEF RecordOK, OpenOK, Ended
  <2> QED
    BY <2>2, <2>5, <2>6 DEF RecordOK
<1>9. \A o \in Continues : SpeakerOK(o)'
  BY <1>1, SpeakersKeep DEF objects, talk
<1> QED
  BY <1>7, <1>8, <1>9 DEF IInv

\* What a restart finds (read), and what it makes of it.
Kept(read) == {r \in Records : read[r] # None /\ read[r].state \notin TerminalStates}

Reloads(read) ==
    /\ \A r \in Records : read[r] \in LastLines(r)
    /\ active' = Kept(read)
    /\ \A r \in Records : call'[r] = IF r \in Kept(read) THEN read[r] ELSE call[r]
    /\ call' \in [Records -> Objects \cup {None}] /\ lines' \in [Records -> Pieces]
    /\ \A r \in Records : LastLines(r)' = {read[r]}
    /\ over' = over \cup {r \in Records \ Kept(read) : call[r] # None}
    /\ idMap' = [i \in ProviderIds |->
           LET having == {r \in Kept(read) : read[r].id = i}
           IN  IF having = {} THEN None
               ELSE CHOOSE r \in having : \A u \in having : r.nr >= u.nr]

LEMMA RestartFacts ==
    ASSUME TypeOK, Restart
    PROVE  \E read \in [Records -> Objects \cup {None}] : Reloads(read)
<1>1. PICK landed \in [Late -> UNION {LastLines(r) : r \in Late}] :
          LET read == [r \in Records |-> IF r \in Late THEN landed[r] ELSE lines[r].last]
              live == {r \in Records : read[r] # None /\ read[r].state \notin TerminalStates}
          IN  /\ \A r \in Late : landed[r] \in LastLines(r)
              /\ active' = live
              /\ call' = [r \in Records |-> IF r \in live THEN read[r] ELSE call[r]]
              /\ idMap' = [i \in ProviderIds |->
                     LET having == {r \in live : read[r].id = i}
                     IN  IF having = {} THEN None
                         ELSE CHOOSE r \in having : \A u \in having : r.nr >= u.nr]
              /\ lines' = [r \in Records |->
                     [last |-> read[r], flight |-> {}, strays |-> lines[r].strays]]
              /\ over' = over \cup {r \in Records \ live : call[r] # None}
  BY DEF Restart
<1> DEFINE read == [r \in Records |-> IF r \in Late THEN landed[r] ELSE lines[r].last]
<1>2. \A r \in Records : read[r] \in LastLines(r)
  BY <1>1 DEF LastLines
<1>3. \A r \in Records : LastLines(r) \subseteq Objects \cup {None} /\ lines[r].strays \in Nat
  BY DEF TypeOK, LastLines
<1>4. read \in [Records -> Objects \cup {None}]
  BY <1>2, <1>3
<1>5. /\ active' = Kept(read)
      /\ call' = [r \in Records |-> IF r \in Kept(read) THEN read[r] ELSE call[r]]
      /\ idMap' = [i \in ProviderIds |->
             LET having == {r \in Kept(read) : read[r].id = i}
             IN  IF having = {} THEN None
                 ELSE CHOOSE r \in having : \A u \in having : r.nr >= u.nr]
      /\ lines' = [r \in Records |->
             [last |-> read[r], flight |-> {}, strays |-> lines[r].strays]]
      /\ over' = over \cup {r \in Records \ Kept(read) : call[r] # None}
  BY <1>1 DEF Kept
<1> HIDE DEF read
<1>6. /\ \A r \in Records : call'[r] = IF r \in Kept(read) THEN read[r] ELSE call[r]
      /\ call' \in [Records -> Objects \cup {None}]
  BY <1>4, <1>5 DEF TypeOK
<1>7. lines' \in [Records -> Pieces]
  <2>1. ASSUME NEW r \in Records
        PROVE  [last |-> read[r], flight |-> {}, strays |-> lines[r].strays] \in Pieces
    BY <1>3, <1>4 DEF Pieces
  <2> QED
    BY <1>5, <2>1
<1>8. \A r \in Records : LastLines(r)' = {read[r]}
  BY <1>5 DEF LastLines
<1> QED
  BY <1>2, <1>4, <1>5, <1>6, <1>7, <1>8 DEF Reloads

LEMMA ReloadedMap ==
    ASSUME NEW read, Reloads(read), NEW i \in ProviderIds
    PROVE  \/ idMap'[i] = None /\ \A r \in Kept(read) : read[r].id # i
           \/ /\ idMap'[i] \in Kept(read) /\ read[idMap'[i]].id = i
              /\ \A u \in Kept(read) : read[u].id = i => idMap'[i].nr >= u.nr
<1> DEFINE having == {r \in Kept(read) : read[r].id = i}
<1>1. idMap'[i] = IF having = {} THEN None ELSE CHOOSE r \in having : \A u \in having : r.nr >= u.nr
  BY DEF Reloads
<1>2. having \in SUBSET Records
  BY DEF Kept
<1>3. CASE having = {}
  BY <1>1, <1>3
<1>4. CASE having # {}
  <2> HIDE DEF having
  <2>1. \E r \in having : \A u \in having : r.nr >= u.nr
    BY <1>2, <1>4, FirstAndLast
  <2>2. idMap'[i] \in having /\ \A u \in having : idMap'[i].nr >= u.nr
    BY <1>1, <1>4, <2>1
  <2> QED
    BY <2>2 DEF having
<1> QED
  BY <1>3, <1>4

\* A restart keeps what is over out: when no line is under way the last one says so.
LEMMA RestartKeeps ==
    ASSUME IInv, Restart
    PROVE  IInv'
<1>1. PICK read \in [Records -> Objects \cup {None}] : Reloads(read)
  BY RestartFacts DEF IInv
<1>2. Kept(read) \in SUBSET Records
  BY DEF Kept
<1>3. idMap' \in [ProviderIds -> Records \cup {None}]
  <2>1. \A i \in ProviderIds : idMap'[i] \in Records \cup {None}
    BY <1>1, <1>2, ReloadedMap
  <2>2. DOMAIN idMap' = ProviderIds /\ idMap' = [i \in ProviderIds |-> idMap'[i]]
    BY <1>1 DEF Reloads
  <2> QED
    BY <2>1, <2>2
<1>4. /\ dialing' = {} /\ hanging' = [r \in Records |-> 0] /\ greeting' = {} /\ maxTimers' = {}
      /\ notifyTimers' = {} /\ waiter' = [r \in Records |-> None] /\ restarted' = TRUE
      /\ Fault /\ excused' = excused \cup Late
      /\ continue' = [o \in Continues |->
             IF At(o, "new") THEN continue[o] ELSE [continue[o] EXCEPT !.stage = "done"]]
      /\ UNCHANGED <<phone, greeted, unheard>>
  BY DEF Restart
<1>5. /\ continue' \in [Continues -> [stage : Stages, on : Records \cup {None}]]
      /\ \A o \in Continues : continue'[o].stage # "speaking"
  <2>1. ASSUME NEW o \in Continues
        PROVE  LET x == IF At(o, "new") THEN continue[o]
                        ELSE [continue[o] EXCEPT !.stage = "done"]
               IN  x \in [stage : Stages, on : Records \cup {None}] /\ x.stage # "speaking"
    BY DEF IInv, TypeOK, Stages, At
  <2> QED
    BY <1>4, <2>1
<1>6. TypeOK'
  <2>1. excused' \in SUBSET Records /\ faults' \in 0..MaxFaults
    BY <1>4, FaultType DEF IInv, TypeOK, Late
  <2>2. active' \in SUBSET Records /\ over' \in SUBSET Records
    BY <1>1, <1>2 DEF Reloads, IInv, TypeOK
  <2>3. hanging' \in [Records -> 0..MaxHangUps]
    BY <1>4, BoundsAssumption
  <2>4. call' \in [Records -> Objects \cup {None}] /\ lines' \in [Records -> Pieces]
    BY <1>1 DEF Reloads
  <2> QED
    BY <1>3, <1>4, <1>5, <2>1, <2>2, <2>3, <2>4 DEF IInv, TypeOK, Pieces
<1>7. ASSUME NEW r \in Records PROVE RecordOK(r)'
  <2> DEFINE kept == r \in Kept(read)
  <2>1. /\ call'[r] = IF kept THEN read[r] ELSE call[r]
        /\ LastLines(r)' = {read[r]} /\ read[r] \in LastLines(r)
        /\ r \in active' <=> kept
        /\ r \in over' <=> r \in over \/ (~kept /\ call[r] # None)
    BY <1>1 DEF Reloads
  <2>2. kept <=> read[r] # None /\ ~Ended(read[r])
    BY DEF Kept, Ended
  <2>3. RecordOK(r)
    BY DEF IInv
  <2>4. r \notin excused' => r \notin excused /\ LastLines(r) = {read[r]}
    BY <1>4, <2>1 DEF Late, LastLines
  <2>5. kept => call[r] # None
    BY <2>1, <2>2, <2>3 DEF RecordOK, OpenOK
  <2> HIDE DEF kept
  <2>6. ExistsOK(r)'
    BY <1>4, <2>1, <2>2, <2>3, <2>5 DEF RecordOK, ExistsOK
  <2>7. GreetOK(r)'
    BY <1>4 DEF GreetOK
  <2>8. ASSUME r \notin excused', r \in over PROVE ~kept /\ Ended(call[r]) /\ Ended(read[r]) /\ read[r] # None
    BY <2>2, <2>3, <2>4, <2>8 DEF RecordOK, OverOK, EndIsWritten
  <2>9. ASSUME r \notin excused', r \notin over, call[r] # None PROVE kept
    BY <2>2, <2>3, <2>4, <2>9 DEF RecordOK, OpenOK
  <2>10. OverOK(r)'
    <3>1. EndIsWritten(r)' <=> read[r] # None /\ Ended(read[r])
      BY <2>1 DEF EndIsWritten, Ended
    <3>2. r \notin excused' /\ r \in over' => r \in over
      BY <2>1, <2>9
    <3> QED
      BY <1>4, <2>1, <2>8, <3>1, <3>2 DEF OverOK, Ended
  <2>11. OpenOK(r)'
    <3>1. call[r] = None => read[r] = None
      BY <2>1, <2>3 DEF RecordOK, OpenOK
    <3>2. call'[r] # None /\ r \notin over' => kept
      BY <2>1
    <3> QED
      BY <2>1, <2>2, <2>5, <3>1, <3>2 DEF OpenOK, Ended
  <2> QED
    BY <2>6, <2>7, <2>10, <2>11 DEF RecordOK
<1>8. \A o \in Continues : SpeakerOK(o)'
  BY <1>5 DEF SpeakerOK, At
<1> QED
  BY <1>6, <1>7, <1>8 DEF IInv

LEMMA StepOK == IInv /\ [Next]_vars => IInv'
<1> SUFFICES ASSUME IInv, [Next]_vars PROVE IInv'
  OBVIOUS
<1>1. CASE \E p \in Outbound : InitiateCall(p)
  BY <1>1, InitiateKeeps
<1>2. CASE \E p \in Calls : \/ Speech(p) \/ EventLost(p)
                            \/ \E n \in 2..Over : PhoneMoves(p, n) \/ EventAgain(p, n)
  BY <1>2, PhoneKeeps, EventLostKeeps
<1>3. CASE \E r \in Records : \/ Resumes(r) \/ Speak(r) \/ EndCall(r)
                              \/ DialFails(r) \/ GreetingFails(r) \/ HangupFails(r)
                              \/ LineLands(r) \/ LineLost(r)
                              \/ \E o \in Continues : ContinueCall(o, r)
  BY <1>3, DialReturnsKeeps, GreetingKeeps, HangupReturnsKeeps, MaxDurationKeeps, HangUpKeeps,
     SpeakKeeps, DialFailsKeeps, HangupFailsKeeps, ContinueCallKeeps, LineKeeps DEF Resumes
<1>4. CASE \E o \in Continues : ContinueGoesOn(o) \/ ListeningFails(o)
  BY <1>4, PromptSpokenKeeps, WaitKeeps DEF ContinueGoesOn
<1>5. CASE Restart
  BY <1>5, RestartKeeps
<1>6. CASE UNCHANGED vars
  <2>1. /\ UNCHANGED <<call, lines, active, idMap, dialing, hanging, greeting, maxTimers>>
        /\ UNCHANGED <<notifyTimers, waiter, continue, phone, greeted, over, excused>>
        /\ UNCHANGED <<faults, restarted, unheard>>
    BY <1>6 DEF vars, objects, awaited, timers, talk, history
  <2> QED
    BY <2>1, QuietKeeps DEF IInv, TypeOK
<1> QED
  BY <1>1, <1>2, <1>3, <1>4, <1>5, <1>6 DEF Next

LEMMA Invariance == Spec => []IInv
  BY InitOK, StepOK, PTL DEF Spec

--------------------------------------------------------------------------------
(* The theorems *)

\* The records, the indices, the timers and the waiters keep their types.
THEOREM TypeCorrect == Spec => []TypeOK
<1>1. IInv => TypeOK
  BY DEF IInv
<1> QED
  BY <1>1, Invariance, PTL

\* The first message is spoken once, whatever the provider reports and when.
THEOREM GreetsOnce == Spec => []GreetedOnce
<1>1. IInv => GreetedOnce
  BY DEF IInv, RecordOK, GreetOK, GreetedOnce
<1> QED
  BY <1>1, Invariance, PTL

\* No webhook, answer, hang-up or timer brings back a call that is over; a restart does
\* only when a line of it was under way or lost, came into the file behind that of the
\* end, or was written by continueCall after the end.
THEOREM EndsAreFinal == Spec => []EndedStaysEnded
<1>1. IInv => EndedStaysEnded
  BY DEF IInv, TypeOK, RecordOK, OverOK, EndedStaysEnded
<1> QED
  BY <1>1, Invariance, PTL

--------------------------------------------------------------------------------
(* Which record is found under an id *)

\* The ids that a record of r.of may have.
OwnId(r, c) ==
    IF r.of \in Inbound THEN c.id = CallId(r.of)
    ELSE c.id \in {None, RequestId(r.of), CallId(r.of)}

Written(r) == ({call[r]} \cup LastLines(r)) \ {None}

\* A record has an id of its call, in memory and in the file.
OwnIdOK(r) == \A c \in Written(r) : call[r] # None /\ OwnId(r, c)

\* A record that is not over is active, and not ended in any line that may be read.
LiveOK(r) ==
    call[r] # None /\ r \notin over => r \in active /\ \A c \in Written(r) : ~Ended(c)

\* An id leads to a record of its call.
MapOK == \A i \in ProviderIds : idMap[i] # None => call[idMap[i]] # None /\ idMap[i].of = i.of

Older(q, r) == q.of = r.of /\ q.nr < r.nr

\* The id of a call leads to its newer record, or to nothing and the older one is not active.
LeadsTo(r, q) ==
    \/ idMap[CallId(r.of)] = r
    \/ idMap[CallId(r.of)] = None /\ q \notin active

\* A call gets a second record when the first is over.
NewerOK ==
    \A r, q \in Records :
        Older(q, r) /\ call[r] # None => q \in over /\ (r \notin over => LeadsTo(r, q))

FoundInv == (\A r \in Records : OwnIdOK(r) /\ LiveOK(r)) /\ MapOK /\ NewerOK

LEMMA CallFacts ==
    /\ \A r, q \in Records : r.of = q.of /\ r.nr = q.nr => r = q
    /\ \A r \in Records : r.nr = 2 => r.of \in Inbound
    /\ \A p \in Calls : CallId(p).of = p /\ RequestId(p).of = p
    /\ \A i \in ProviderIds : i.of \in Calls
<1>1. \A r, q \in Records : r.of = q.of /\ r.nr = q.nr => r = q
  BY DEF Records
<1>2. \A r \in Records : r.nr = 2 => r.of \in Inbound
  BY DEF Records
<1>3. \A p \in Calls : CallId(p).of = p /\ RequestId(p).of = p
  BY DEF CallId, RequestId
<1>4. \A i \in ProviderIds : i.of \in Calls
  BY DEF ProviderIds
<1> QED
  BY <1>1, <1>2, <1>3, <1>4

\* A call has at most two records.
LEMMA OlderFacts ==
    ASSUME NEW q \in Records, NEW r \in Records, Older(q, r)
    PROVE  /\ q.nr = 1 /\ r.nr = 2 /\ q # r /\ r.of \in Inbound /\ r.of \in Calls
           /\ CallId(r.of) \in ProviderIds /\ CallId(r.of).of = r.of
           /\ \A u \in Records : u.of = r.of => u = q \/ u = r
           /\ \A c : OwnId(r, c) => c.id = CallId(r.of)
           /\ \A c : OwnId(q, c) => c.id = CallId(r.of)
<1>1. q.nr = 1 /\ r.nr = 2 /\ r.of \in Calls /\ q.of = r.of
  BY RecordFacts DEF Older
<1>2. r.of \in Inbound /\ q # r
  BY <1>1, CallFacts
<1>3. \A u \in Records : u.of = r.of => u = q \/ u = r
  BY <1>1, CallFacts, RecordFacts
<1> QED
  BY <1>1, <1>2, <1>3, CallFacts, RecordFacts DEF OwnId

\* The own ids of a record.
LEMMA OwnIdFacts ==
    ASSUME NEW r \in Records, NEW c, OwnId(r, c)
    PROVE  c.id = None \/ (c.id \in ProviderIds /\ c.id.of = r.of)
  BY RecordFacts, CallFacts DEF OwnId

\* The invariant says of an active call that its id leads to it.
LEMMA FoundByInv ==
    ASSUME IInv, FoundInv
    PROVE  ActiveCallsAreFound
<1> SUFFICES ASSUME NEW r \in active \ over, call[r].id # None
             PROVE  GetCallByProviderCallId(call[r].id) = r
  BY DEF ActiveCallsAreFound
<1> DEFINE i == call[r].id
           having == {q \in active : call[q].id = i}
           first == CHOOSE q \in having : \A u \in having : q.nr <= u.nr
<1>1. r \in Records /\ call[r] # None
  BY DEF IInv, TypeOK, RecordOK, ExistsOK
<1>2. OwnId(r, call[r])
  BY <1>1 DEF FoundInv, OwnIdOK, Written
<1>3. i \in ProviderIds /\ i.of = r.of
  BY <1>1, <1>2, OwnIdFacts
<1>4. \A q \in Records : q \in active => call[q] # None /\ OwnId(q, call[q])
  BY DEF IInv, RecordOK, ExistsOK, FoundInv, OwnIdOK, Written
<1>5. having \subseteq {q \in Records : q.of = r.of}
  <2> SUFFICES ASSUME NEW q \in active, call[q].id = i PROVE q \in Records /\ q.of = r.of
    BY <1>3
  <2>1. q \in Records
    BY DEF IInv, TypeOK
  <2>2. OwnId(q, call[q])
    BY <1>4, <2>1
  <2>3. i # None
    OBVIOUS
  <2> QED
    BY <1>3, <2>1, <2>2, <2>3, OwnIdFacts
<1>6. r \in having
  OBVIOUS
<1>7. GetCallByProviderCallId(i) =
          IF idMap[i] # None THEN IF idMap[i] \in active THEN idMap[i] ELSE None
          ELSE IF having = {} THEN None ELSE first
  BY DEF GetCallByProviderCallId
<1>8. ASSUME having = {r} PROVE first = r
  <2>1. \E q \in having : \A u \in having : q.nr <= u.nr
    <3>1. r.nr <= r.nr
      BY <1>1, RecordFacts
    <3> QED
      BY <1>8, <3>1
  <2>2. first \in having
    BY <2>1
  <2> QED
    BY <1>8, <2>2
<1>9. r # None
  BY <1>1, NoneAssumption
<1> HIDE DEF i, having, first
<1>10. idMap[i] = r \/ (idMap[i] = None /\ having = {r})
  <2>1. idMap[i] # None => idMap[i] \in Records /\ call[idMap[i]] # None /\ idMap[i].of = r.of
    BY <1>3 DEF FoundInv, MapOK, IInv, TypeOK
  <2>2. CASE \E q \in Records : Older(q, r)
    <3>1. PICK q \in Records : Older(q, r)
      BY <2>2
    <3>2. /\ q # r /\ i = CallId(r.of)
          /\ \A u \in Records : u.of = r.of => u = q \/ u = r
      BY <1>1, <1>2, <3>1, OlderFacts DEF i
    <3>3. LeadsTo(r, q)
      BY <1>1, <3>1 DEF FoundInv, NewerOK
    <3>4. CASE idMap[i] = r
      BY <3>4
    <3>5. CASE idMap[i] = None /\ q \notin active
      BY <1>5, <1>6, <3>2, <3>5 DEF having
    <3> QED
      BY <3>2, <3>3, <3>4, <3>5 DEF LeadsTo
  <2>3. CASE \A q \in Records : ~Older(q, r)
    <3>1. \A u \in Records : u.of = r.of /\ call[u] # None => u = r
      <4> SUFFICES ASSUME NEW u \in Records, u.of = r.of, call[u] # None, u # r PROVE FALSE
        OBVIOUS
      <4>1. u.nr # r.nr /\ {u.nr, r.nr} \subseteq {1, 2}
        BY <1>1, CallFacts, RecordFacts
      <4>2. Older(r, u)
        BY <1>1, <2>3, <4>1 DEF Older
      <4>3. r \in over
        BY <1>1, <4>2 DEF FoundInv, NewerOK
      <4> QED
        BY <4>3
    <3>2. having = {r}
      <4>1. \A q \in having : call[q] # None
        BY <1>4, <1>5 DEF having
      <4> QED
        BY <1>5, <1>6, <3>1, <4>1
    <3> QED
      BY <2>1, <3>1, <3>2
  <2> QED
    BY <2>2, <2>3
<1>11. GetCallByProviderCallId(i) = r
  BY <1>7, <1>8, <1>9, <1>10
<1> QED
  BY <1>11 DEF i

\* Before anything is dialled or reported there is nothing to be found.
LEMMA FoundInit == Init => FoundInv
  BY DEF Init, Nothing, FoundInv, OwnIdOK, LiveOK, MapOK, NewerOK, Written, LastLines

\* A step that touches neither the records nor what leads to them, and adds no line.
LEMMA LinesFound ==
    ASSUME FoundInv, UNCHANGED <<call, active, idMap, over>>,
           \A r \in Records : LastLines(r)' \subseteq LastLines(r)
    PROVE  FoundInv'
<1>1. \A r \in Records : Written(r)' \subseteq Written(r)
  BY DEF Written
<1>2. \A r \in Records : OwnIdOK(r)' /\ LiveOK(r)'
  BY <1>1 DEF FoundInv, OwnIdOK, LiveOK, Ended, OwnId
<1>3. MapOK'
  BY DEF FoundInv, MapOK
<1>4. NewerOK'
  BY DEF FoundInv, NewerOK, LeadsTo
<1> QED
  BY <1>2, <1>3, <1>4 DEF FoundInv

LEMMA QuietFound ==
    ASSUME FoundInv, UNCHANGED <<call, lines, active, idMap, over>>
    PROVE  FoundInv'
  BY LinesFound DEF LastLines

LEMMA LineFound ==
    ASSUME IInv, FoundInv, NEW r \in Records, LineLands(r) \/ LineLost(r)
    PROVE  FoundInv'
<1>1. UNCHANGED <<call, active, idMap, over>>
  BY DEF LineLands, LineLost, objects
<1>2. lines \in [Records -> Pieces]
  BY DEF IInv, TypeOK, Pieces
<1>3. PICK c \in lines[r].flight :
         \/ lines' = [lines EXCEPT ![r].last = c, ![r].flight = @ \ {c}]
         \/ lines' = [lines EXCEPT ![r].flight = @ \ {c}]
  BY DEF LineLands, LineLost
<1>4. /\ \A q \in Records : q # r => lines'[q] = lines[q]
      /\ lines'[r].flight \subseteq lines[r].flight
      /\ lines'[r].last \in {c, lines[r].last}
  BY <1>2, <1>3 DEF Pieces
<1>5. \A q \in Records : LastLines(q)' \subseteq LastLines(q)
  BY <1>4 DEF LastLines
<1> QED
  BY <1>1, <1>5, LinesFound

\* What the step that writes one record has to see to: its own id, the entries of its
\* call in the map, and the other record of the call.
LEMMA WriteFound ==
    ASSUME IInv, FoundInv, NEW r \in Records, NEW c \in Objects, NEW before \in SUBSET Objects,
           IsFiniteSet(before), Writes(r, before, c), OwnId(r, c),
           \A b \in before : OwnId(r, b) /\ (r \notin over' => ~Ended(b)),
           idMap' \in [ProviderIds -> Records \cup {None}],
           \A i \in ProviderIds : i.of # r.of => idMap'[i] = idMap[i],
           \A i \in ProviderIds : idMap'[i] \in {idMap[i], None, r},
           \A q \in Records : q # r => (q \in active' <=> q \in active),
           \A q \in Records : q # r => (q \in over' <=> q \in over),
           over \subseteq over',
           r \notin over' => r \in active' /\ ~Ended(c),
           call[r] = None => \A q \in Records : Older(q, r) => q \in over,
           r \notin over' => \A q \in Records : Older(q, r) => LeadsTo(r, q)',
           \A u \in Records : Older(r, u) /\ call[u] # None /\ u \notin over => LeadsTo(u, r)'
    PROVE  FoundInv'
<1>1. /\ call'[r] = c /\ c # None
      /\ LastLines(r)' \subseteq LastLines(r) \cup before \cup {c}
      /\ \A q \in Records : q # r => call'[q] = call[q] /\ LastLines(q)' = LastLines(q)
      /\ \A q \in Records : call[q] # None => call'[q] # None
  BY WriteFacts DEF IInv
<1>3. Written(r)' \subseteq {c} \cup before \cup Written(r) /\ \A q \in Records : q # r => Written(q)' = Written(q)
  BY <1>1 DEF Written
<1>4. ASSUME NEW q \in Records PROVE OwnIdOK(q)' /\ LiveOK(q)'
  <2>1. CASE q = r
    <3>1. OwnIdOK(r)'
      BY <1>1, <1>3 DEF OwnIdOK, FoundInv, OwnId
    <3>2. LiveOK(r)'
      <4> SUFFICES ASSUME r \notin over' PROVE \A d \in Written(r)' : ~Ended(d)
        BY <1>1 DEF LiveOK, Ended
      <4>1. CASE call[r] = None
        <5>1. Written(r) = {}
          BY <4>1 DEF FoundInv, OwnIdOK
        <5> QED
          BY <1>3, <5>1
      <4>2. CASE call[r] # None
        BY <1>3, <4>2 DEF FoundInv, LiveOK
      <4> QED
        BY <4>1, <4>2
    <3> QED
      BY <2>1, <3>1, <3>2
  <2>2. CASE q # r
    BY <1>1, <1>3, <2>2 DEF FoundInv, OwnIdOK, LiveOK, Ended, OwnId
  <2> QED
    BY <2>1, <2>2
<1>5. MapOK'
  <2> SUFFICES ASSUME NEW i \in ProviderIds, idMap'[i] # None
               PROVE  call'[idMap'[i]] # None /\ idMap'[i].of = i.of
    BY DEF MapOK
  <2>1. CASE idMap'[i] = idMap[i]
    <3>1. idMap[i] \in Records /\ call[idMap[i]] # None /\ idMap[i].of = i.of
      BY <2>1 DEF FoundInv, MapOK, IInv, TypeOK
    <3> QED
      BY <1>1, <2>1, <3>1
  <2>2. CASE idMap'[i] # idMap[i]
    BY <1>1, <2>2
  <2> QED
    BY <2>1, <2>2
<1>6. ASSUME NEW u \in Records, NEW q \in Records, Older(q, u), call'[u] # None
      PROVE  q \in over' /\ (u \notin over' => LeadsTo(u, q)')
  <2>1. CASE u = r
    <3>1. q \in over
      BY <1>6, <2>1 DEF FoundInv, NewerOK
    <3> QED
      BY <1>6, <2>1, <3>1
  <2>2. CASE q = r
    <3>1. u # r /\ call[u] # None
      BY <1>1, <1>6, <2>2, OlderFacts
    <3>2. q \in over
      BY <1>6, <3>1 DEF FoundInv, NewerOK
    <3> QED
      BY <1>6, <2>2, <3>1, <3>2
  <2>3. CASE u # r /\ q # r
    <3>1. call[u] # None
      BY <1>1, <1>6, <2>3
    <3>2. q \in over /\ (u \notin over => LeadsTo(u, q))
      BY <1>6, <3>1 DEF FoundInv, NewerOK
    <3>3. /\ u.of # r.of /\ CallId(u.of) \in ProviderIds /\ CallId(u.of).of = u.of
      BY <1>6, <2>3, OlderFacts
    <3>4. idMap'[CallId(u.of)] = idMap[CallId(u.of)]
      BY <3>3
    <3> QED
      BY <2>3, <3>2, <3>4 DEF LeadsTo
  <2> QED
    BY <2>1, <2>2, <2>3
<1>7. NewerOK'
  BY <1>6 DEF NewerOK, Older
<1> QED
  BY <1>4, <1>5, <1>7 DEF FoundInv

\* A record that exists is written again and nothing else changes.
LEMMA RewriteFound ==
    ASSUME IInv, FoundInv, NEW r \in Records, call[r] # None, NEW c \in Objects, Writes(r, {}, c),
           c.id = call[r].id, r \notin over => ~Ended(c),
           UNCHANGED <<active, idMap, over>>
    PROVE  FoundInv'
<1>1. OwnId(r, c)
  BY DEF FoundInv, OwnIdOK, Written, OwnId
<1>2. r \notin over => r \in active
  BY DEF FoundInv, LiveOK
<1>3. \A q \in Records : r \notin over /\ Older(q, r) => LeadsTo(r, q)'
  BY DEF FoundInv, NewerOK, LeadsTo
<1>4. \A u \in Records : Older(r, u) /\ call[u] # None /\ u \notin over => LeadsTo(u, r)'
  BY DEF FoundInv, NewerOK, LeadsTo
<1>5. idMap \in [ProviderIds -> Records \cup {None}]
  BY DEF IInv, TypeOK
<1> QED
  BY <1>1, <1>2, <1>3, <1>4, <1>5, NothingBefore, WriteFound

\* A record that ends leaves both indices.
LEMMA RemoveFound ==
    ASSUME IInv, FoundInv, NEW r \in Records, NEW c \in Objects, NEW before \in SUBSET Objects,
           IsFiniteSet(before), Writes(r, before, c), OwnId(r, c), \A b \in before : OwnId(r, b),
           NEW map \in [ProviderIds -> Records \cup {None}],
           idMap' = [i \in ProviderIds |-> IF i = c.id THEN None ELSE map[i]],
           \A i \in ProviderIds : i.of # r.of => map[i] = idMap[i],
           \A i \in ProviderIds : map[i] \in {idMap[i], None, r},
           active' = active \ {r}, over' = over \cup {r},
           call[r] = None => \A q \in Records : Older(q, r) => q \in over
    PROVE  FoundInv'
<1>1. c.id = None \/ (c.id \in ProviderIds /\ c.id.of = r.of)
  BY OwnIdFacts
<1>2. /\ idMap' \in [ProviderIds -> Records \cup {None}]
      /\ \A i \in ProviderIds : idMap'[i] = IF i = c.id THEN None ELSE map[i]
  OBVIOUS
<1>3. \A i \in ProviderIds : i.of # r.of => idMap'[i] = idMap[i]
  BY <1>1, <1>2, NoneAssumption
<1>4. \A i \in ProviderIds : idMap'[i] \in {idMap[i], None, r}
  BY <1>2
<1>5. \A u \in Records : Older(r, u) => LeadsTo(u, r)'
  <2> SUFFICES ASSUME NEW u \in Records, Older(r, u) PROVE LeadsTo(u, r)'
    OBVIOUS
  <2>1. c.id = CallId(u.of) /\ c.id \in ProviderIds
    BY OlderFacts
  <2> QED
    BY <1>2, <2>1 DEF LeadsTo
<1> QED
  BY <1>2, <1>3, <1>4, <1>5, WriteFound

LEMMA UpgradedFacts ==
    ASSUME IInv, FoundInv, NEW r \in Records
    PROVE  /\ UpgradedMap(r) \in [ProviderIds -> Records \cup {None}]
           /\ \A i \in ProviderIds : i.of # r.of => UpgradedMap(r)[i] = idMap[i]
           /\ \A i \in ProviderIds : UpgradedMap(r)[i] \in {idMap[i], None, r}
           /\ \/ UpgradedMap(r)[CallId(r.of)] = r
              \/ call[r] # None /\ UpgradedMap(r) = idMap
<1> DEFINE i == CallId(r.of)
           old == IF call[r] = None THEN None ELSE call[r].id
<1>1. /\ UpgradedMap(r) \in [ProviderIds -> Records \cup {None}]
      /\ idMap \in [ProviderIds -> Records \cup {None}]
  BY MapType DEF IInv, TypeOK
<1>2. i \in ProviderIds /\ i.of = r.of /\ i # None
  BY RecordFacts, CallFacts, NoneAssumption
<1>3. UpgradedMap(r) = IF old = i THEN idMap
                       ELSE [k \in ProviderIds |-> IF k = i THEN r
                               ELSE IF k = old /\ idMap[k] = r THEN None ELSE idMap[k]]
  BY DEF UpgradedMap
<1>4. old = None \/ (old \in ProviderIds /\ old.of = r.of)
  <2>1. call[r] # None => OwnId(r, call[r])
    BY DEF FoundInv, OwnIdOK, Written
  <2> QED
    BY <2>1, OwnIdFacts
<1>5. old = i => call[r] # None
  BY <1>2
<1> HIDE DEF i, old
<1>6. CASE old = i
  BY <1>1, <1>3, <1>5, <1>6
<1>7. CASE old # i
  <2>1. \A k \in ProviderIds : UpgradedMap(r)[k] = IF k = i THEN r
            ELSE IF k = old /\ idMap[k] = r THEN None ELSE idMap[k]
    BY <1>3, <1>7
  <2>2. \A k \in ProviderIds : k.of # r.of => UpgradedMap(r)[k] = idMap[k]
    BY <1>2, <1>4, <2>1, NoneAssumption
  <2> QED
    BY <1>1, <1>2, <2>1, <2>2 DEF i
<1> QED
  BY <1>6, <1>7

\* A webhook that leads to a record leads to one of the call, and to the newer one if
\* that is not over; one that leads to none makes a new record when no other can be found.
LEMMA FoundFacts ==
    ASSUME IInv, FoundInv, NEW p \in Calls, FindCall(p) # None
    PROVE  LET r == FindCall(p)
           IN  /\ r \in active /\ r \in Records /\ call[r] # None /\ r.of = p
               /\ \A u \in Records : Older(r, u) /\ call[u] # None => u \in over
               /\ \A q \in Records : r \notin over /\ Older(q, r) /\ idMap[CallId(p)] # r
                     => q \notin active /\ idMap[CallId(p)] = None
<1> DEFINE r == FindCall(p)
           i == CallId(p)
           having == {q \in active : call[q].id = i}
           first == CHOOSE q \in having : \A u \in having : q.nr <= u.nr
<1>1. r \in active /\ r \in Records /\ call[r] # None
  BY FoundIsActive DEF IInv, TypeOK, RecordOK, ExistsOK
<1>2. \A q \in Records : r \notin over /\ Older(q, r) => LeadsTo(r, q)
  BY <1>1 DEF FoundInv, NewerOK
<1>3. CASE p \in Outbound
  <2>1. r.of = p /\ r.nr = 1
    BY <1>3, RecordFacts DEF FindCall, Dialed
  <2>2. ~\E u \in Records : Older(r, u)
    BY <1>1, <1>3, <2>1, OlderFacts, CallsAssumption DEF Older
  <2>3. ~\E q \in Records : Older(q, r)
    BY <1>1, <2>1, OlderFacts
  <2> QED
    BY <1>1, <2>1, <2>2, <2>3
<1>4. CASE p \notin Outbound
  <2>1. r = IF idMap[i] # None THEN IF idMap[i] \in active THEN idMap[i] ELSE None
            ELSE IF having = {} THEN None ELSE first
    BY <1>4 DEF FindCall, GetCallByProviderCallId
  <2>2. i \in ProviderIds /\ i.of = p
    BY RecordFacts, CallFacts
  <2>3. having # {} => first \in having
    <3> SUFFICES ASSUME having # {} PROVE first \in having
      OBVIOUS
    <3>1. having \in SUBSET Records
      BY DEF IInv, TypeOK
    <3> HIDE DEF having
    <3>2. \E q \in having : \A u \in having : q.nr <= u.nr
      BY <3>1, FirstAndLast
    <3> QED
      BY <3>2
  <2> HIDE DEF first
  <2>4. r.of = p
    <3>1. CASE idMap[i] # None
      BY <2>1, <2>2, <3>1 DEF FoundInv, MapOK
    <3>2. CASE idMap[i] = None
      <4>1. r \in having
        BY <2>1, <2>3, <3>2
      <4>2. OwnId(r, call[r]) /\ call[r].id = i
        BY <1>1, <4>1 DEF FoundInv, OwnIdOK, Written
      <4>3. i # None
        BY <2>2, NoneAssumption
      <4> QED
        BY <1>1, <2>2, <4>2, <4>3, OwnIdFacts
    <3> QED
      BY <3>1, <3>2
  <2>5. ASSUME NEW u \in Records, Older(r, u), call[u] # None PROVE u \in over
    <3> SUFFICES ASSUME u \notin over PROVE FALSE
      OBVIOUS
    <3>1. LeadsTo(u, r) /\ u \in active /\ u # r /\ u.of = p
      BY <1>1, <2>4, <2>5, OlderFacts DEF FoundInv, NewerOK, LiveOK, Older
    <3>2. u # None
      BY NoneAssumption
    <3> QED
      BY <1>1, <2>1, <3>1, <3>2 DEF LeadsTo
  <2> QED
    BY <1>1, <1>2, <2>4, <2>5 DEF LeadsTo
<1> QED
  BY <1>3, <1>4

LEMMA NotFoundFacts ==
    ASSUME IInv, FoundInv, NEW p \in Calls \ Outbound, FindCall(p) = None, Unused(p) # {}
    PROVE  LET r == CreateInboundCall(p)
           IN  /\ r \in Records /\ call[r] = None /\ r.of = p
               /\ \A q \in Records : Older(q, r) => q \in over /\ q \notin active
               /\ \A u \in Records : Older(r, u) => call[u] = None
<1> DEFINE r == CreateInboundCall(p)
           i == CallId(p)
           having == {q \in active : call[q].id = i}
           first == CHOOSE q \in having : \A u \in having : q.nr <= u.nr
<1>1. r \in Records /\ call[r] = None /\ r.of = p
  BY NewIsUnused
<1>2. ASSUME NEW u \in Records, Older(r, u) PROVE call[u] = None
  BY <1>1, <1>2 DEF FoundInv, NewerOK, IInv, RecordOK, ExistsOK
<1>3. \A q \in Unused(p) : r.nr <= q.nr
  <2>1. Unused(p) \in SUBSET Records
    BY DEF Unused
  <2>2. \E q \in Unused(p) : \A u \in Unused(p) : q.nr <= u.nr
    BY <2>1, FirstAndLast
  <2> QED
    BY <2>2 DEF CreateInboundCall
<1> HIDE DEF r
<1>4. ASSUME NEW q \in Records, Older(q, r) PROVE q \in over /\ q \notin active
  <2>1. q.of = p /\ q.nr = 1 /\ r.nr = 2 /\ \A c : OwnId(q, c) => c.id = i
    BY <1>1, <1>4, OlderFacts DEF Older
  <2>2. \A x \in Records : x.of = p => x = q \/ x = r
    BY <1>1, <1>4, OlderFacts
  <2>3. call[q] # None
    BY <1>3, <2>1 DEF Unused
  <2>4. q \notin over => q \in active
    BY <2>3 DEF FoundInv, LiveOK
  <2>5. q \notin active
    <3> SUFFICES ASSUME q \in active PROVE FALSE
      OBVIOUS
    <3>1. FindCall(p) = IF idMap[i] # None THEN IF idMap[i] \in active THEN idMap[i] ELSE None
                        ELSE IF having = {} THEN None ELSE first
      BY DEF FindCall, GetCallByProviderCallId
    <3>2. OwnId(q, call[q])
      BY <2>3 DEF FoundInv, OwnIdOK, Written
    <3>3. q \in having
      BY <2>1, <3>2
    <3>4. first \in having
      <4>1. having \in SUBSET Records
        BY DEF IInv, TypeOK
      <4> HIDE DEF having
      <4>2. \E x \in having : \A u \in having : x.nr <= u.nr
        BY <3>3, <4>1, FirstAndLast
      <4> QED
        BY <4>2
    <3>5. first \in Records /\ having # {}
      BY <3>3, <3>4 DEF IInv, TypeOK
    <3> HIDE DEF first, having
    <3>6. CASE idMap[i] = None
      BY <3>1, <3>5, <3>6, NoneAssumption
    <3>7. CASE idMap[i] # None
      <4>1. i \in ProviderIds /\ i.of = p
        BY RecordFacts, CallFacts
      <4>2. idMap[i] \in Records /\ call[idMap[i]] # None /\ idMap[i].of = p
        BY <3>7, <4>1 DEF FoundInv, MapOK, IInv, TypeOK
      <4>3. idMap[i] = q
        BY <1>1, <2>2, <4>2
      <4> QED
        BY <3>1, <3>7, <4>3
    <3> QED
      BY <3>6, <3>7
  <2> QED
    BY <2>4, <2>5
<1> QED
  BY <1>1, <1>2, <1>4 DEF r

\* What the record of a webhook is like that is not dropped.
EventRecord(p, r, c) ==
    /\ r.of = p /\ c.id = CallId(p)
    /\ r \notin over => ~Ended(c)
    /\ call[r] = None => \A q \in Records : Older(q, r) => q \in over
    /\ \A u \in Records : Older(r, u) /\ call[u] # None => u \in over
    /\ \A q \in Records : r \notin over /\ Older(q, r) =>
           q \notin active \/ (call[r] # None /\ idMap[CallId(p)] = r)
    /\ \A q \in Records : r \notin over /\ Older(q, r) /\ call[r] # None /\ idMap[CallId(p)] # r
           => idMap[CallId(p)] = None

LEMMA EventRecordShape ==
    ASSUME IInv, FoundInv, NEW p \in Calls, NEW type, ProcessEvent(p, type)
    PROVE  \/ UNCHANGED <<objects, over, lines>>
           \/ \E r \in Records, c \in Objects, created \in SUBSET Objects :
                 /\ EventRecord(p, r, c) /\ created \subseteq {c}
                 /\ \/ ProcessRinging(r, c, created) \/ ProcessAnswered(r, c, created)
                    \/ ProcessSpeech(r, c, created) \/ ProcessEnded(r, c, created)
<1> DEFINE found == FindCall(p)
           r == IF found # None THEN found ELSE CreateInboundCall(p)
           c == IF found # None THEN [call[r] EXCEPT !.id = CallId(p)]
                ELSE [state |-> "ringing", id |-> CallId(p), greet |-> TRUE]
           created == IF found # None THEN {} ELSE {c}
           written == \/ ProcessRinging(r, c, created) \/ ProcessAnswered(r, c, created)
                      \/ ProcessSpeech(r, c, created) \/ ProcessEnded(r, c, created)
<1>1. \/ UNCHANGED <<objects, over, lines>>
      \/ (found # None \/ (p \notin Outbound /\ Unused(p) # {})) /\ written
  BY DEF ProcessEvent
<1>2. CallId(p) \in ProviderIds
  BY RecordFacts
<1>3. ASSUME found # None PROVE r \in Records /\ c \in Objects /\ EventRecord(p, r, c)
  <2>1. /\ r \in active /\ r \in Records /\ call[r] # None /\ r.of = p
        /\ \A u \in Records : Older(r, u) /\ call[u] # None => u \in over
        /\ \A q \in Records : r \notin over /\ Older(q, r) /\ idMap[CallId(p)] # r
              => q \notin active /\ idMap[CallId(p)] = None
    BY <1>3, FoundFacts
  <2>2. call[r] \in Objects /\ c = [call[r] EXCEPT !.id = CallId(p)]
    BY <1>3, <2>1 DEF IInv, TypeOK
  <2>3. r \notin over => ~Ended(call[r])
    BY <2>1 DEF FoundInv, LiveOK, Written
  <2> HIDE DEF r, found
  <2>4. c \in Objects /\ c.id = CallId(p) /\ c.state = call[r].state
    BY <1>2, <2>2 DEF Objects
  <2> HIDE DEF c
  <2> QED
    BY <2>1, <2>3, <2>4 DEF EventRecord, Ended
<1>4. ASSUME found = None, p \notin Outbound, Unused(p) # {}
      PROVE  r \in Records /\ c \in Objects /\ EventRecord(p, r, c)
  <2>1. /\ r \in Records /\ call[r] = None /\ r.of = p
        /\ \A q \in Records : Older(q, r) => q \in over /\ q \notin active
        /\ \A u \in Records : Older(r, u) => call[u] = None
    BY <1>4, NotFoundFacts
  <2>2. c \in Objects /\ c.id = CallId(p) /\ c.state = "ringing"
    BY <1>2, <1>4, StateFacts DEF Objects
  <2> HIDE DEF r, c
  <2> QED
    BY <2>1, <2>2 DEF EventRecord, Ended, TerminalStates
<1>5. created \subseteq {c}
  OBVIOUS
<1> HIDE DEF r, c, created
<1> QED
  BY <1>1, <1>3, <1>4, <1>5

\* The state goes on and does not become an end by itself; the id stays.
LEMMA TransitionKeeps ==
    ASSUME NEW c \in Objects, NEW new \in CallStates
    PROVE  /\ TransitionState(c, new).id = c.id
           /\ ~Ended(c) /\ new \notin TerminalStates => ~Ended(TransitionState(c, new))
  BY DEF TransitionState, Objects, Ended

\* A webhook that does not end the call.
LEMMA GoesOnFound ==
    ASSUME IInv, FoundInv, NEW p \in Calls, NEW r \in Records, NEW c \in Objects,
           EventRecord(p, r, c), NEW d \in Objects, d.id = c.id, ~Ended(c) => ~Ended(d),
           NEW before \in SUBSET Objects, IsFiniteSet(before),
           \A b \in before : b.id = c.id /\ (~Ended(c) => ~Ended(b)),
           Writes(r, before, d), active' = active \cup {r}, idMap' = UpgradedMap(r), over' = over
    PROVE  FoundInv'
<1>1. r.of = p /\ OwnId(r, d) /\ \A b \in before : OwnId(r, b)
  BY DEF EventRecord, OwnId
<1>2. \A q \in Records : r \notin over /\ Older(q, r) => LeadsTo(r, q)'
  <2> SUFFICES ASSUME NEW q \in Records, r \notin over, Older(q, r) PROVE LeadsTo(r, q)'
    OBVIOUS
  <2>1. q # r
    BY OlderFacts
  <2>2. CASE UpgradedMap(r)[CallId(r.of)] = r
    BY <2>2 DEF LeadsTo
  <2>3. CASE call[r] # None /\ UpgradedMap(r) = idMap
    BY <1>1, <2>1, <2>3 DEF EventRecord, LeadsTo
  <2> QED
    BY <2>2, <2>3, UpgradedFacts
<1>3. ~\E u \in Records : Older(r, u) /\ call[u] # None /\ u \notin over
  BY DEF EventRecord
<1>4. call[r] = None => \A q \in Records : Older(q, r) => q \in over
  BY DEF EventRecord
<1>5. r \notin over => ~Ended(d) /\ \A b \in before : ~Ended(b)
  BY DEF EventRecord
<1> QED
  BY <1>1, <1>2, <1>3, <1>4, <1>5, UpgradedFacts, WriteFound

LEMMA EventFound ==
    ASSUME IInv, FoundInv, NEW p \in Calls, NEW type, ProcessEvent(p, type)
    PROVE  FoundInv'
<1>1. CASE UNCHANGED <<objects, over, lines>>
  BY <1>1, QuietFound DEF objects
<1>2. ASSUME NEW r \in Records, NEW c \in Objects, NEW created \in SUBSET Objects,
             EventRecord(p, r, c), created \subseteq {c},
             \/ ProcessRinging(r, c, created) \/ ProcessAnswered(r, c, created)
             \/ ProcessSpeech(r, c, created) \/ ProcessEnded(r, c, created)
      PROVE  FoundInv'
  <2> DEFINE ring == TransitionState(c, "ringing")
             hear == TransitionState(c, "listening")
             answer == TransitionState(c, "answered")
             end == TransitionState(c, "completed")
             e == IF answer.greet THEN Greet(r, answer) ELSE answer
             first == [e EXCEPT !.state = answer.state]
             said == {first} \cup created
  <2>7. IsFiniteSet(created)
    BY <1>2, FS_Singleton, FS_Subset
  <2>1. /\ {ring, hear, answer, end} \subseteq Objects
        /\ ring.id = c.id /\ hear.id = c.id /\ answer.id = c.id /\ end.id = c.id
        /\ ~Ended(c) => ~Ended(ring) /\ ~Ended(hear) /\ ~Ended(answer)
    <3>1. /\ {"ringing", "listening", "answered", "completed"} \subseteq CallStates
          /\ "ringing" \notin TerminalStates /\ "listening" \notin TerminalStates
          /\ "answered" \notin TerminalStates
      BY StateFacts DEF TerminalStates
    <3>2. {ring, hear, answer, end} \subseteq Objects
      BY <3>1, TransitionFacts
    <3>3. ring.id = c.id /\ hear.id = c.id /\ answer.id = c.id /\ end.id = c.id
      BY <3>1, TransitionKeeps
    <3>4. ~Ended(c) => ~Ended(ring) /\ ~Ended(hear) /\ ~Ended(answer)
      BY <3>1, TransitionKeeps
    <3> QED
      BY <3>2, <3>3, <3>4
  <2> HIDE DEF ring, hear, answer, end
  <2>2. e \in Objects /\ e.id = c.id /\ (~Ended(c) => ~Ended(e))
    BY <2>1, StateFacts DEF Greet, AfterGreeting, Objects, Ended, TerminalStates
  <2> HIDE DEF e
  <2>8. first \in Objects /\ first.id = c.id /\ (~Ended(c) => ~Ended(first))
    BY <2>1, <2>2 DEF Objects, Ended
  <2> HIDE DEF first
  <2>9. /\ said \in SUBSET Objects /\ IsFiniteSet(said)
        /\ \A b \in said : b.id = c.id /\ (~Ended(c) => ~Ended(b))
    BY <1>2, <2>7, <2>8, FS_AddElement
  <2> HIDE DEF said
  <2>3. CASE ProcessRinging(r, c, created)
    <3>1. Writes(r, created, ring) /\ active' = active \cup {r} /\ idMap' = UpgradedMap(r) /\ over' = over
      BY <2>3 DEF ProcessRinging, Writes, ring
    <3> QED
      BY <1>2, <2>1, <2>7, <3>1, GoesOnFound
  <2>4. CASE ProcessSpeech(r, c, created)
    <3>1. Writes(r, created, hear) /\ active' = active \cup {r} /\ idMap' = UpgradedMap(r) /\ over' = over
      BY <2>4 DEF ProcessSpeech, Writes, hear
    <3> QED
      BY <1>2, <2>1, <2>7, <3>1, GoesOnFound
  <2>5. CASE ProcessAnswered(r, c, created)
    <3>1. Writes(r, said, e) /\ active' = active \cup {r} /\ idMap' = UpgradedMap(r) /\ over' = over
      BY <2>5 DEF ProcessAnswered, Writes, answer, said, first, e
    <3> QED
      BY <1>2, <2>2, <2>9, <3>1, GoesOnFound
  <2>6. CASE ProcessEnded(r, c, created)
    <3>1. /\ Writes(r, created, end) /\ active' = active \ {r} /\ over' = over \cup {r}
          /\ idMap' = [i \in ProviderIds |-> IF i = end.id THEN None ELSE UpgradedMap(r)[i]]
      BY <2>6 DEF ProcessEnded, RemoveCall, Remembers, Writes, end
    <3>2. OwnId(r, end) /\ \A b \in created : OwnId(r, b)
      BY <1>2, <2>1 DEF EventRecord, OwnId
    <3>3. call[r] = None => \A q \in Records : Older(q, r) => q \in over
      BY <1>2 DEF EventRecord
    <3> QED
      BY <2>1, <2>7, <3>1, <3>2, <3>3, UpgradedFacts, RemoveFound
  <2> QED
    BY <1>2, <2>3, <2>4, <2>5, <2>6
<1> QED
  BY <1>1, <1>2, EventRecordShape

LEMMA DialFound ==
    ASSUME IInv, FoundInv, NEW p \in Outbound, InitiateCall(p)
    PROVE  FoundInv'
<1> DEFINE r == Dialed(p)
           c == [state |-> "initiated", id |-> None, greet |-> TRUE]
<1>1. /\ r \in Records /\ r.of = p /\ r.nr = 1 /\ call[r] = None /\ Writes(r, {}, c)
      /\ active' = active \cup {r} /\ UNCHANGED <<idMap, over>>
  BY RecordFacts DEF InitiateCall, Writes, history, Dialed
<1>2. c \in Objects /\ c.id = None /\ ~Ended(c)
  BY StateFacts DEF Objects, Ended, TerminalStates
<1> HIDE DEF r, c
<1>3. OwnId(r, c)
  BY <1>1, <1>2, CallsAssumption DEF OwnId
<1>4. \A q \in Records : ~Older(q, r) /\ ~Older(r, q)
  BY <1>1, OlderFacts, CallsAssumption DEF Older
<1>5. idMap \in [ProviderIds -> Records \cup {None}]
  BY DEF IInv, TypeOK
<1> QED
  BY <1>1, <1>2, <1>3, <1>4, <1>5, NothingBefore, WriteFound

LEMMA DialledFound ==
    ASSUME IInv, FoundInv, NEW r \in Records, DialReturns(r), r.of \in Outbound
    PROVE  FoundInv'
<1> DEFINE i == RequestId(r.of)
           c == [call[r] EXCEPT !.id = i]
<1>1. /\ r \in dialing /\ Writes(r, {}, c) /\ idMap' = [idMap EXCEPT ![i] = r]
      /\ UNCHANGED <<active, over>>
  BY DEF DialReturns, Writes, history
<1>2. call[r] \in Objects /\ call[r] # None /\ i \in ProviderIds /\ i.of = r.of
  BY <1>1, RecordFacts, CallFacts DEF IInv, TypeOK, RecordOK, ExistsOK
<1>3. c \in Objects /\ c.id = i /\ c.state = call[r].state
  BY <1>2 DEF Objects
<1>4. OwnId(r, c)
  BY <1>3, CallsAssumption DEF OwnId
<1> HIDE DEF c
<1>5. r \notin over => r \in active /\ ~Ended(c)
  BY <1>2, <1>3 DEF FoundInv, LiveOK, Written, Ended
<1>6. \A q \in Records : ~Older(q, r) /\ ~Older(r, q)
  BY OlderFacts, CallsAssumption DEF Older
<1>7. /\ idMap' \in [ProviderIds -> Records \cup {None}]
      /\ \A k \in ProviderIds : k.of # r.of => idMap'[k] = idMap[k]
      /\ \A k \in ProviderIds : idMap'[k] \in {idMap[k], None, r}
  <2> HIDE DEF i
  <2> QED
    BY <1>1, <1>2 DEF IInv, TypeOK
<1> QED
  BY <1>1, <1>2, <1>3, <1>4, <1>5, <1>6, <1>7, NothingBefore, WriteFound

LEMMA DialFailedFound ==
    ASSUME IInv, FoundInv, NEW r \in Records, DialFails(r)
    PROVE  FoundInv'
<1> DEFINE c == [call[r] EXCEPT !.state = "failed"]
<1>1. /\ r \in dialing /\ Writes(r, {}, c) /\ active' = active \ {r} /\ over' = over \cup {r}
      /\ idMap' = [i \in ProviderIds |-> IF i = call[r].id THEN None ELSE idMap[i]]
  BY DEF DialFails, Writes
<1>2. call[r] \in Objects /\ call[r] # None /\ OwnId(r, call[r])
  BY <1>1 DEF IInv, TypeOK, RecordOK, ExistsOK, FoundInv, OwnIdOK, Written
<1>3. c \in Objects /\ c.id = call[r].id
  BY <1>2, StateFacts DEF Objects, TerminalStates
<1>4. OwnId(r, c)
  BY <1>2, <1>3 DEF OwnId
<1> HIDE DEF c
<1>5. idMap \in [ProviderIds -> Records \cup {None}]
  BY DEF IInv, TypeOK
<1> QED
  BY <1>1, <1>2, <1>3, <1>4, <1>5, NothingBefore, RemoveFound

LEMMA HungUpFound ==
    ASSUME IInv, FoundInv, NEW r \in Records, HangupReturns(r)
    PROVE  FoundInv'
<1> DEFINE c == [call[r] EXCEPT !.state = "hangup-bot"]
<1>1. /\ hanging[r] > 0 /\ Writes(r, {}, c) /\ active' = active \ {r} /\ over' = over \cup {r}
      /\ idMap' = [i \in ProviderIds |-> IF i = c.id THEN None ELSE idMap[i]]
  BY DEF HangupReturns, RemoveCall, Remembers, Writes
<1>2. call[r] \in Objects /\ call[r] # None /\ OwnId(r, call[r])
  BY <1>1 DEF IInv, TypeOK, RecordOK, ExistsOK, FoundInv, OwnIdOK, Written
<1>3. c \in Objects /\ c.id = call[r].id
  BY <1>2, StateFacts DEF Objects, TerminalStates
<1>4. OwnId(r, c)
  BY <1>2, <1>3 DEF OwnId
<1> HIDE DEF c
<1>5. idMap \in [ProviderIds -> Records \cup {None}]
  BY DEF IInv, TypeOK
<1> QED
  BY <1>1, <1>2, <1>3, <1>4, <1>5, NothingBefore, RemoveFound

\* Speaking, listening and the line of the timer leave the indices alone.
LEMMA SpokenFound ==
    ASSUME IInv, FoundInv, NEW r \in Records, call[r] # None, NEW state \in CallStates \ TerminalStates,
           Writes(r, {}, [call[r] EXCEPT !.state = state]), UNCHANGED <<active, idMap, over>>
    PROVE  FoundInv'
<1> DEFINE c == [call[r] EXCEPT !.state = state]
<1>1. c \in Objects /\ c.id = call[r].id /\ ~Ended(c)
  BY DEF IInv, TypeOK, Objects, Ended
<1> HIDE DEF c
<1>2. Writes(r, {}, c)
  BY DEF c
<1> QED
  BY <1>1, <1>2, RewriteFound

LEMMA TalkFound ==
    ASSUME IInv, FoundInv,
           \/ \E r \in Records : Speak(r) \/ \E o \in Continues : ContinueCall(o, r)
           \/ \E o \in Continues : PromptSpoken(o)
    PROVE  FoundInv'
<1>0. "speaking" \in CallStates \ TerminalStates /\ "listening" \in CallStates \ TerminalStates
  BY StateFacts DEF TerminalStates
<1>1. ASSUME NEW r \in Records, Speak(r) \/ \E o \in Continues : ContinueCall(o, r) PROVE FoundInv'
  <2>1. /\ r \in active /\ Writes(r, {}, [call[r] EXCEPT !.state = "speaking"])
        /\ UNCHANGED <<active, idMap, over>>
    BY <1>1 DEF Speak, ContinueCall, Connected, Writes, history
  <2>2. call[r] # None
    BY <2>1 DEF IInv, RecordOK, ExistsOK
  <2> QED
    BY <1>0, <2>1, <2>2, SpokenFound
<1>2. ASSUME NEW o \in Continues, PromptSpoken(o) PROVE FoundInv'
  <2> DEFINE r == continue[o].on
  <2>1. /\ At(o, "speaking") /\ Writes(r, {}, [call[r] EXCEPT !.state = "listening"])
        /\ UNCHANGED <<active, idMap, over>>
    BY <1>2 DEF PromptSpoken, Writes
  <2>2. r \in Records /\ call[r] # None
    BY <2>1 DEF IInv, SpeakerOK
  <2> HIDE DEF r
  <2> QED
    BY <1>0, <2>1, <2>2, SpokenFound
<1> QED
  BY <1>1, <1>2

LEMMA TimeUpFound ==
    ASSUME IInv, FoundInv, NEW r \in Records, MaxDurationReached(r)
    PROVE  FoundInv'
<1>1. UNCHANGED <<call, active, idMap, over>>
  BY DEF MaxDurationReached, objects, history
<1>2. CASE ~StillOn(r)
  BY <1>1, <1>2, QuietFound DEF MaxDurationReached
<1>3. CASE StillOn(r)
  <2>1. PersistCallRecord(r, {}, call[r]) /\ ~Ended(call[r]) /\ call[r] \in Objects /\ call[r] # None
    BY <1>3 DEF MaxDurationReached, StillOn, IInv, TypeOK, RecordOK, ExistsOK
  <2>2. call' = [call EXCEPT ![r] = call[r]]
    BY <1>1 DEF IInv, TypeOK
  <2>3. Writes(r, {}, call[r])
    BY <2>1, <2>2 DEF Writes
  <2> QED
    BY <1>1, <2>1, <2>3, RewriteFound
<1> QED
  BY <1>2, <1>3

\* After a restart the id of a call leads to the newest record that the file keeps open.
LEMMA RestartFound ==
    ASSUME IInv, FoundInv, Restart
    PROVE  FoundInv'
<1>1. PICK read \in [Records -> Objects \cup {None}] : Reloads(read)
  BY RestartFacts DEF IInv
<1> DEFINE live == Kept(read)
<1>2. \A r \in Records : /\ r \in active' <=> r \in live
                         /\ call'[r] = IF r \in live THEN read[r] ELSE call[r]
                         /\ LastLines(r)' = {read[r]} /\ read[r] \in LastLines(r)
                         /\ r \in over' <=> r \in over \/ (r \notin live /\ call[r] # None)
  BY <1>1 DEF Reloads
<1>3. \A r \in Records : r \in live <=> read[r] # None /\ ~Ended(read[r])
  BY DEF Ended, Kept
<1>4. live \in SUBSET Records
  BY DEF Kept
<1>5. \A i \in ProviderIds :
         \/ idMap'[i] = None /\ \A r \in live : read[r].id # i
         \/ /\ idMap'[i] \in live /\ read[idMap'[i]].id = i
            /\ \A u \in live : read[u].id = i => idMap'[i].nr >= u.nr
  BY <1>1, ReloadedMap
<1> HIDE DEF live
<1>6. \A r \in Records : Written(r)' \subseteq Written(r)
  BY <1>2, <1>3 DEF Written
<1>7. \A r \in Records : r \in live => call[r] # None /\ OwnId(r, read[r])
  BY <1>2, <1>3 DEF FoundInv, OwnIdOK, Written
<1>8. \A r \in Records : call[r] # None <=> call'[r] # None
  BY <1>2, <1>3, <1>7
<1>9. ASSUME NEW r \in Records PROVE OwnIdOK(r)'
  BY <1>6, <1>8 DEF FoundInv, OwnIdOK, OwnId
<1>10. ASSUME NEW r \in Records PROVE LiveOK(r)'
  BY <1>2, <1>6, <1>8 DEF FoundInv, LiveOK, Ended
<1>11. MapOK'
  <2> SUFFICES ASSUME NEW i \in ProviderIds, idMap'[i] # None
               PROVE  call'[idMap'[i]] # None /\ idMap'[i].of = i.of
    BY DEF MapOK
  <2>1. idMap'[i] \in live /\ read[idMap'[i]].id = i
    BY <1>5
  <2>2. call'[idMap'[i]] # None /\ OwnId(idMap'[i], read[idMap'[i]])
    BY <1>4, <1>7, <1>8, <2>1
  <2>3. i # None
    BY NoneAssumption
  <2> QED
    BY <1>4, <2>1, <2>2, <2>3, OwnIdFacts
<1>12. ASSUME NEW r \in Records, NEW q \in Records, Older(q, r), call'[r] # None
       PROVE  q \in over' /\ (r \notin over' => LeadsTo(r, q)')
  <2>1. q \in over /\ q \in over' /\ call[r] # None
    BY <1>2, <1>8, <1>12 DEF FoundInv, NewerOK
  <2>2. ASSUME r \notin over' PROVE idMap'[CallId(r.of)] = r
    <3> DEFINE i == CallId(r.of)
    <3>1. r \in live /\ read[r].id = i
      BY <1>2, <1>7, <1>12, <2>1, <2>2, OlderFacts
    <3>2. i \in ProviderIds /\ i.of = r.of /\ q.nr = 1 /\ r.nr = 2
          /\ \A u \in Records : u.of = r.of => u = q \/ u = r
      BY <1>12, OlderFacts
    <3> HIDE DEF i
    <3>3. idMap'[i] \in live /\ idMap'[i].nr >= r.nr /\ read[idMap'[i]].id = i
      BY <1>5, <3>1, <3>2
    <3>4. idMap'[i] \in Records /\ idMap'[i].of = r.of
      <4>1. OwnId(idMap'[i], read[idMap'[i]]) /\ i # None
        BY <1>4, <1>7, <3>2, <3>3, NoneAssumption
      <4> QED
        BY <1>4, <3>2, <3>3, <4>1, OwnIdFacts
    <3>5. idMap'[i] = r
      BY <3>2, <3>3, <3>4
    <3> QED
      BY <3>5 DEF i
  <2> QED
    BY <2>1, <2>2 DEF LeadsTo
<1>13. NewerOK'
  BY <1>12 DEF NewerOK, Older
<1> QED
  BY <1>9, <1>10, <1>11, <1>13 DEF FoundInv

\* Outbound calls only are dialled.
DialOK == \A r \in dialing : r.of \in Outbound

LEMMA DialStep ==
    ASSUME IInv, DialOK, [Next]_vars
    PROVE  DialOK'
<1>1. ASSUME NEW p \in Outbound, InitiateCall(p) PROVE DialOK'
  BY <1>1, RecordFacts DEF InitiateCall, DialOK
<1>2. ASSUME NEW p \in Calls, NEW type, ProcessEvent(p, type) PROVE DialOK'
  <2>1. dialing' = dialing
    BY <1>2 DEF ProcessEvent, ProcessRinging, ProcessAnswered, ProcessSpeech, ProcessEnded, awaited
  <2> QED
    BY <2>1 DEF DialOK
<1>3. ASSUME NEW p \in Calls, \/ Speech(p) \/ EventLost(p)
                              \/ \E n \in 2..Over : PhoneMoves(p, n) \/ EventAgain(p, n)
      PROVE  DialOK'
  <2>1. CASE EventLost(p)
    BY <2>1 DEF EventLost, awaited, DialOK
  <2>2. CASE Speech(p) \/ \E n \in 2..Over : PhoneMoves(p, n) \/ EventAgain(p, n)
    BY <1>2, <2>2 DEF Speech, PhoneMoves, EventAgain
  <2> QED
    BY <1>3, <2>1, <2>2
<1>4. ASSUME NEW r \in Records, \/ Resumes(r) \/ Speak(r) \/ EndCall(r)
                                \/ DialFails(r) \/ GreetingFails(r) \/ HangupFails(r)
                                \/ LineLands(r) \/ LineLost(r)
                                \/ \E o \in Continues : ContinueCall(o, r)
      PROVE  dialing' \subseteq dialing
  BY <1>4 DEF Resumes, DialReturns, GreetingPlayed, HangupReturns, MaxDurationReached,
              NotifyDelayOver, Speak, EndCall, DialFails, GreetingFails, HangupFails,
              ContinueCall, LineLands, LineLost, awaited
<1>5. ASSUME NEW o \in Continues, ContinueGoesOn(o) \/ ListeningFails(o)
      PROVE  dialing' = dialing
  BY <1>5 DEF ContinueGoesOn, PromptSpoken, WaitForFinalTranscript, TranscriptTimesOut,
              ContinueSettles, ListeningFails, awaited
<1>6. CASE Restart
  BY <1>6 DEF Restart, DialOK
<1>7. CASE UNCHANGED vars
  BY <1>7 DEF vars, awaited, DialOK
<1>8. (dialing' \subseteq dialing) => DialOK'
  BY DEF DialOK
<1> QED
  BY <1>1, <1>3, <1>4, <1>5, <1>6, <1>7, <1>8 DEF Next

LEMMA FoundStep ==
    ASSUME IInv, DialOK, FoundInv, [Next]_vars
    PROVE  FoundInv'
<1>1. CASE \E p \in Outbound : InitiateCall(p)
  BY <1>1, DialFound
<1>2. ASSUME NEW p \in Calls, \/ Speech(p) \/ EventLost(p)
                              \/ \E n \in 2..Over : PhoneMoves(p, n) \/ EventAgain(p, n)
      PROVE  FoundInv'
  <2>1. CASE EventLost(p)
    BY <2>1, QuietFound DEF EventLost, objects
  <2>2. CASE Speech(p) \/ \E n \in 2..Over : PhoneMoves(p, n) \/ EventAgain(p, n)
    BY <2>2, EventFound DEF Speech, PhoneMoves, EventAgain
  <2> QED
    BY <1>2, <2>1, <2>2
<1>3. ASSUME NEW r \in Records, \/ Resumes(r) \/ Speak(r) \/ EndCall(r)
                                \/ DialFails(r) \/ GreetingFails(r) \/ HangupFails(r)
                                \/ LineLands(r) \/ LineLost(r)
                                \/ \E o \in Continues : ContinueCall(o, r)
      PROVE  FoundInv'
  <2>1. CASE GreetingPlayed(r) \/ GreetingFails(r) \/ EndCall(r) \/ NotifyDelayOver(r) \/ HangupFails(r)
    BY <2>1, QuietFound DEF GreetingPlayed, GreetingFails, EndCall, NotifyDelayOver, HangupFails,
                            objects, history
  <2>2. CASE DialReturns(r)
    BY <2>2, DialledFound DEF DialReturns, DialOK
  <2>3. CASE HangupReturns(r) \/ MaxDurationReached(r) \/ DialFails(r)
    BY <2>3, HungUpFound, TimeUpFound, DialFailedFound
  <2>4. CASE Speak(r) \/ \E o \in Continues : ContinueCall(o, r)
    BY <2>4, TalkFound
  <2>5. CASE LineLands(r) \/ LineLost(r)
    BY <2>5, LineFound
  <2> QED
    BY <1>3, <2>1, <2>2, <2>3, <2>4, <2>5 DEF Resumes
<1>4. ASSUME NEW o \in Continues, ContinueGoesOn(o) \/ ListeningFails(o)
      PROVE  FoundInv'
  <2>1. CASE PromptSpoken(o)
    BY <2>1, TalkFound
  <2>2. CASE \/ WaitForFinalTranscript(o) \/ TranscriptTimesOut(o) \/ ContinueSettles(o)
             \/ ListeningFails(o)
    BY <2>2, QuietFound DEF WaitForFinalTranscript, TranscriptTimesOut, ContinueSettles,
                            ListeningFails, objects, history
  <2> QED
    BY <1>4, <2>1, <2>2 DEF ContinueGoesOn
<1>5. CASE Restart
  BY <1>5, RestartFound
<1>6. CASE UNCHANGED vars
  BY <1>6, QuietFound DEF vars, objects, history
<1> QED
  BY <1>1, <1>2, <1>3, <1>4, <1>5, <1>6 DEF Next

\* Whatever hang-up returns and whatever is loaded after a restart, an active call is
\* found under the id that its record has.
THEOREM FindsActiveCalls == Spec => []ActiveCallsAreFound
<1> DEFINE Inv == IInv /\ DialOK /\ FoundInv
<1>1. Init => Inv
  BY InitOK, FoundInit DEF Init, Nothing, DialOK
<1>2. Inv /\ [Next]_vars => Inv'
  BY StepOK, DialStep, FoundStep
<1>3. Inv => ActiveCallsAreFound
  BY FoundByInv
<1> QED
  BY <1>1, <1>2, <1>3, PTL DEF Spec

================================================================================
