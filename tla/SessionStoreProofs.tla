--------------------------- MODULE SessionStoreProofs ---------------------------
(***************************************************************************)
(* What is changed under the lock of the store is not lost, for all        *)
(* processes, calls, entries and crashes.  The argument rests on three     *)
(* things: who believes to hold the lock holds it, a copy with the date of *)
(* the file has its content, and the copy that is about to be saved by a   *)
(* call that loaded under the lock covers the file.  All three end when a  *)
(* lock is taken from a call at work or a content gets a wrong date, which *)
(* is why the invariant speaks of the time before.                         *)
(***************************************************************************)
EXTENDS SessionStore, TLAPS

CallRecords == [stage : Stages, copy : Loaded]

\* A change is noted in the entry it is made in.
Placed(store) == \A k \in Keys, c \in Calls : c \in store[k] => Key[c] = k

\* What has the date of the file has its content; nothing is from the future.
Fresh(loaded, f) ==
    /\ loaded.mtime <= f.mtime
    /\ loaded.mtime = f.mtime => loaded.store = f.store

\* No change in the file is missing in the copy.
Covers(loaded, f) == \A k \in Keys, c \in Calls : c \in f.store[k] => c \in loaded.store[k]

\* The stages in which the copy of a call has its change.
Carries(c, stage) ==
    \/ stage \in {"edits", "saves", "writes"}
    \/ stage \in {"asks", "judges"} /\ Kind[c] = "whole"

CallOK(c, x, f, o) ==
    /\ Placed(x.copy.store)
    /\ x.stage = "loading" => Fresh(x.copy, f)
    /\ Carries(c, x.stage) => c \in x.copy.store[Key[c]]
    /\ Kind[c] # "whole" /\ x.stage \in {"updates", "saves", "writes"} => Covers(x.copy, f)
    /\ x.stage \in {"saved", "done"} => c \in f.store[Key[c]] \/ c \in o

\* A call that is at work under the lock.
Under(c, stage) == stage \in Holding /\ ~(Kind[c] = "whole" /\ stage = "loading")

LockOK == \A c \in Calls : Under(c, call[c].stage) => lock = c
FileOK == Placed(file.store) /\ file.mtime >= 1
CacheOK == \A p \in Processes : Placed(cache[p].store) /\ Fresh(cache[p], file)
CallsOK == \A c \in Calls : CallOK(c, call[c], file, overwritten)

Sound == LockOK /\ FileOK /\ CacheOK /\ CallsOK
Spoiled == broken \/ misdated

IInv == TypeOK /\ (Spoiled \/ Sound)

--------------------------------------------------------------------------------
(* Types *)

LEMMA NoEntryFacts ==
    /\ NoEntry \notin SUBSET Calls
    /\ \A c \in Calls : c \notin NoEntry
    /\ NotCached \in Loaded /\ NotCached.mtime = 0
    /\ \A k \in Keys : NotCached.store[k] = NoEntry
  BY NobodyAssumption DEF NoEntry, NotCached, Loaded, Stores

LEMMA ChangedFacts ==
    ASSUME NEW c \in Calls, NEW store \in Stores
    PROVE  /\ Changed(store, c) \in Stores
           /\ c \in Changed(store, c)[Key[c]]
           /\ \A k \in Keys, d \in Calls :
                 d \in Changed(store, c)[k] <=> d \in store[k] \/ (d = c /\ k = Key[c])
<1>1. Key[c] \in Keys
  BY CallsAssumption
<1> DEFINE new == IF store[Key[c]] = NoEntry THEN {c} ELSE store[Key[c]] \cup {c}
<1>2. new \in SUBSET Calls
  BY <1>1 DEF Stores
<1>3. \A d \in Calls : d \in new <=> d \in store[Key[c]] \/ d = c
  BY NoEntryFacts
<1>4. Changed(store, c) = [store EXCEPT ![Key[c]] = new]
  BY DEF Changed
<1> HIDE DEF new
<1>5. /\ Changed(store, c) \in Stores
      /\ Changed(store, c)[Key[c]] = new
      /\ \A k \in Keys : k # Key[c] => Changed(store, c)[k] = store[k]
  BY <1>1, <1>2, <1>4 DEF Stores
<1> QED
  BY <1>3, <1>5

\* What a call gets from a load, and what becomes of it.
LEMMA GivenFacts ==
    ASSUME NEW c \in Calls, NEW loaded \in Loaded, call \in [Calls -> CallRecords],
           Given(c, loaded)
    PROVE  \E x \in CallRecords :
              /\ call' = [call EXCEPT ![c] = x]
              /\ \/ /\ x.stage = IF Kind[c] = "whole" THEN "edits" ELSE "saves"
                    /\ x.copy = [loaded EXCEPT !.store = Changed(@, c)]
                 \/ x.stage = "unsaved" /\ x.copy = NotCached /\ Kind[c] # "whole"
                 \/ x.stage = "updates" /\ x.copy = loaded /\ Kind[c] # "whole"
<1>1. Kind[c] \in {"entry", "route", "whole"}
  BY CallsAssumption
<1>2. /\ [loaded EXCEPT !.store = Changed(@, c)] \in Loaded
      /\ NotCached \in Loaded /\ {"edits", "saves", "unsaved", "updates"} \subseteq Stages
  BY ChangedFacts, NoEntryFacts DEF Loaded, Stages
<1> DEFINE copy == [loaded EXCEPT !.store = Changed(@, c)]
<1>3. CASE Kind[c] = "whole"
  <2>1. call' = [call EXCEPT ![c] = [stage |-> "edits", copy |-> copy]]
    BY <1>3 DEF Given
  <2> DEFINE x == [stage |-> "edits", copy |-> copy]
  <2>2. x \in CallRecords /\ x.stage = "edits" /\ x.copy = copy
    BY <1>2 DEF CallRecords
  <2> QED
    BY <1>3, <2>1, <2>2
<1>4. CASE Kind[c] = "route"
  <2>1. call' = [call EXCEPT ![c] = [stage |-> "saves", copy |-> copy]]
    BY <1>4 DEF Given
  <2> DEFINE x == [stage |-> "saves", copy |-> copy]
  <2>2. x \in CallRecords /\ x.stage = "saves" /\ x.copy = copy
    BY <1>2 DEF CallRecords
  <2> QED
    BY <1>4, <2>1, <2>2
<1>5. CASE Kind[c] = "entry"
  <2>1. \/ call' = [call EXCEPT ![c] = [stage |-> "unsaved", copy |-> NotCached]]
        \/ call' = [call EXCEPT ![c] = [stage |-> "updates", copy |-> loaded]]
    BY <1>5 DEF Given, Left
  <2> QED
    BY <1>2, <1>5, <2>1 DEF CallRecords
<1> QED
  BY <1>1, <1>3, <1>4, <1>5

\* The type of a state after a step of one call that changes no file.
LEMMA OneCallTypes ==
    ASSUME TypeOK, NEW c \in Calls, NEW x \in CallRecords, call' = [call EXCEPT ![c] = x],
           UNCHANGED <<file, overwritten>>,
           cache' \in [Processes -> Loaded], reading' \in [Processes -> Calls \cup {Nobody}],
           lock' \in Calls \cup {Nobody}, {old', broken', misdated'} \subseteq BOOLEAN,
           faults' \in 0..MaxFaults
    PROVE  TypeOK'
<1>1. call' \in [Calls -> CallRecords]
  BY DEF TypeOK, CallRecords
<1> QED
  BY <1>1 DEF TypeOK, CallRecords

\* A call that moves on without a new copy of the store, or leaves.
LEMMA StageTypes ==
    ASSUME TypeOK, NEW c \in Calls, NEW stage \in Stages
    PROVE  /\ Moves(c, stage) => \E x \in CallRecords :
                  call' = [call EXCEPT ![c] = x] /\ x.stage = stage /\ x.copy = call[c].copy
           /\ Leaves(c, stage) => \E x \in CallRecords :
                  call' = [call EXCEPT ![c] = x] /\ x.stage = stage /\ x.copy = NotCached
<1>1. call[c] \in CallRecords
  BY DEF TypeOK, CallRecords
<1> DEFINE x == [call[c] EXCEPT !.stage = stage]
           y == Left(stage)
<1>2. x \in CallRecords /\ x.stage = stage /\ x.copy = call[c].copy
  BY <1>1 DEF CallRecords
<1>3. y \in CallRecords /\ y.stage = stage /\ y.copy = NotCached
  BY NoEntryFacts DEF CallRecords, Left
<1>4. Moves(c, stage) => call' = [call EXCEPT ![c] = x]
  BY DEF Moves
<1>5. Leaves(c, stage) => call' = [call EXCEPT ![c] = y]
  BY DEF Leaves
<1> HIDE DEF x, y
<1> QED
  BY <1>2, <1>3, <1>4, <1>5

\* The steps of one call that leave the file alone, by what the call becomes.
Becomes(c, x) ==
    \/ Asks(c) /\ x.stage = "asks" /\ x.copy = call[c].copy
    \/ TakesLock(c) /\ x.copy = call[c].copy
       /\ x.stage = IF Kind[c] = "whole" THEN "saves" ELSE "holds"
    \/ GivesUp(c) /\ x.stage = "failed" /\ x.copy = NotCached
    \/ JudgesStale(c) /\ x.stage = "judges" /\ x.copy = call[c].copy
    \/ EvictsLock(c) /\ x.stage = "asks" /\ x.copy = call[c].copy
    \/ ReleasesLock(c) /\ x.copy = call[c].copy
       /\ x.stage = IF At(c, "saved") THEN "done" ELSE "failed"
    \/ EditDone(c) /\ x.stage = "asks" /\ x.copy = call[c].copy
    \/ SaveBegins(c) /\ x.stage = "writes" /\ x.copy = call[c].copy
    \/ SaveFails(c) /\ x.stage = "unsaved" /\ x.copy = NotCached
    \/ Updated(c) /\ x.stage = "unsaved" /\ x.copy = NotCached
    \/ Updated(c) /\ x.stage = "saves"
       /\ x.copy = [call[c].copy EXCEPT !.store = Changed(@, c)]
    \/ ReadsFile(c) /\ x.stage = "loading" /\ x.copy = file

Step(c) ==
    \/ Asks(c) \/ Waits(c) \/ ReadsFile(c) \/ Updated(c) \/ EditDone(c) \/ SaveBegins(c)
    \/ ReleasesLock(c) \/ SaveFails(c)

LEMMA StepBecomes ==
    ASSUME TypeOK, NEW c \in Calls, Step(c)
    PROVE  \E x \in CallRecords : call' = [call EXCEPT ![c] = x] /\ Becomes(c, x)
<1>1. {"asks", "saves", "holds", "failed", "judges", "done", "writes", "unsaved", "loading"}
          \subseteq Stages
  BY DEF Stages
<1>2. call[c] \in CallRecords /\ file \in Loaded
  BY DEF TypeOK, CallRecords
<1>3. CASE Asks(c)
  BY <1>1, <1>3, StageTypes DEF Asks, Becomes
<1>4. CASE TakesLock(c)
  BY <1>1, <1>4, StageTypes DEF TakesLock, Becomes
<1>5. CASE GivesUp(c)
  BY <1>1, <1>5, StageTypes DEF GivesUp, Becomes
<1>6. CASE JudgesStale(c)
  BY <1>1, <1>6, StageTypes DEF JudgesStale, Becomes
<1>7. CASE EvictsLock(c)
  BY <1>1, <1>7, StageTypes DEF EvictsLock, Becomes
<1>8. CASE ReleasesLock(c)
  BY <1>1, <1>8, StageTypes DEF ReleasesLock, Becomes
<1>9. CASE EditDone(c)
  BY <1>1, <1>9, StageTypes DEF EditDone, Becomes
<1>10. CASE SaveBegins(c)
  BY <1>1, <1>10, StageTypes DEF SaveBegins, Becomes
<1>11. CASE SaveFails(c)
  BY <1>1, <1>11, StageTypes DEF SaveFails, Becomes
<1>12. CASE Updated(c)
  <2>1. CASE Leaves(c, "unsaved")
    BY <1>1, <1>12, <2>1, StageTypes DEF Becomes
  <2>2. CASE LET copy == [call[c].copy EXCEPT !.store = Changed(@, c)]
             IN  call' = [call EXCEPT ![c] = [stage |-> "saves", copy |-> copy]]
    <3> DEFINE copy == [call[c].copy EXCEPT !.store = Changed(@, c)]
               x == [stage |-> "saves", copy |-> copy]
    <3>1. copy \in Loaded
      BY <1>2, ChangedFacts DEF CallRecords, Loaded
    <3>2. x \in CallRecords /\ x.stage = "saves" /\ x.copy = copy
      BY <1>1, <3>1 DEF CallRecords
    <3>3. call' = [call EXCEPT ![c] = x]
      BY <2>2
    <3> QED
      BY <1>12, <3>2, <3>3 DEF Becomes
  <2> QED
    BY <1>12, <2>1, <2>2 DEF Updated
<1>13. CASE ReadsFile(c)
  <2> DEFINE x == [stage |-> "loading", copy |-> file]
  <2>1. x \in CallRecords /\ x.stage = "loading" /\ x.copy = file
    BY <1>1, <1>2 DEF CallRecords
  <2> QED
    BY <1>13, <2>1 DEF ReadsFile, Becomes
<1> QED
  BY <1>3, <1>4, <1>5, <1>6, <1>7, <1>8, <1>9, <1>10, <1>11, <1>12, <1>13 DEF Step, Waits

\* What a step of a call does to the other variables.
LEMMA StepTypes ==
    ASSUME TypeOK, NEW c \in Calls, Step(c)
    PROVE  /\ UNCHANGED <<file, history>> /\ (broken => broken')
           /\ cache' \in [Processes -> Loaded]
           /\ \A p \in Processes : cache'[p] \in {cache[p], NotCached}
           /\ TypeOK'
<1>1. UNCHANGED <<file, history>> /\ (broken => broken')
  <2>1. UNCHANGED <<file, history>>
    BY DEF Step, Waits, Asks, TakesLock, GivesUp, JudgesStale, EvictsLock, ReadsFile,
       Updated, EditDone, SaveBegins, ReleasesLock, SaveFails
  <2>2. broken' = broken \/ Removes(c)
    BY DEF Step, Waits, Asks, TakesLock, GivesUp, JudgesStale, EvictsLock, ReadsFile,
       Updated, EditDone, SaveBegins, ReleasesLock, SaveFails, lockVars
  <2>3. Removes(c) => (broken => broken')
    BY DEF Removes
  <2> QED
    BY <2>1, <2>2, <2>3
<1>2. In[c] \in Processes
  BY CallsAssumption
<1>3. cache' \in {cache, [cache EXCEPT ![In[c]] = NotCached]}
  BY DEF Step, Waits, Asks, TakesLock, GivesUp, JudgesStale, EvictsLock, Removes, ReadsFile,
     Updated, EditDone, SaveBegins, ReleasesLock, SaveFails
<1>4. /\ cache' \in [Processes -> Loaded]
      /\ \A p \in Processes : cache'[p] \in {cache[p], NotCached}
  BY <1>2, <1>3, NoEntryFacts DEF TypeOK
<1>5. reading' \in {reading, [reading EXCEPT ![In[c]] = c]}
  BY DEF Step, Waits, Asks, TakesLock, GivesUp, JudgesStale, EvictsLock, Removes, ReadsFile,
     Updated, EditDone, SaveBegins, ReleasesLock, SaveFails
<1>6. reading' \in [Processes -> Calls \cup {Nobody}]
  BY <1>2, <1>5 DEF TypeOK
<1>7. lock' \in Calls \cup {Nobody} /\ {old', broken', misdated'} \subseteq BOOLEAN
  BY DEF TypeOK, Step, Waits, Asks, TakesLock, GivesUp, JudgesStale, EvictsLock, Removes,
     ReadsFile, Updated, EditDone, SaveBegins, ReleasesLock, SaveFails, lockVars, history
<1>8. faults' \in 0..MaxFaults
  <2>1. faults' = faults \/ Fault
    BY DEF Step, Waits, Asks, TakesLock, GivesUp, JudgesStale, EvictsLock, ReadsFile,
       Updated, EditDone, SaveBegins, ReleasesLock, SaveFails
  <2> QED
    BY <2>1, BoundAssumption DEF TypeOK, Fault
<1>9. PICK x \in CallRecords : call' = [call EXCEPT ![c] = x]
  BY StepBecomes
<1>10. UNCHANGED <<file, overwritten>>
  BY <1>1 DEF history
<1>11. TypeOK'
  BY <1>4, <1>6, <1>7, <1>8, <1>9, <1>10, OneCallTypes
<1> QED
  BY <1>1, <1>4, <1>11

--------------------------------------------------------------------------------
(* The steps that leave the file alone *)

\* An empty copy is all right at the end of a call that changed nothing.
LEMMA NotCachedFacts ==
    ASSUME NEW f \in Loaded, f.mtime >= 1
    PROVE  Placed(NotCached.store) /\ Fresh(NotCached, f)
<1>1. f.mtime \in Nat /\ NotCached.mtime = 0
  BY NoEntryFacts DEF Loaded
<1>2. Placed(NotCached.store)
  BY NoEntryFacts DEF Placed
<1>3. Fresh(NotCached, f)
  BY <1>1 DEF Fresh
<1> QED
  BY <1>2, <1>3

\* What a change leaves of a copy.
LEMMA ChangedCopy ==
    ASSUME NEW c \in Calls, NEW l \in Loaded, NEW new, Placed(l.store),
           new = [l EXCEPT !.store = Changed(@, c)]
    PROVE  /\ Placed(new.store) /\ c \in new.store[Key[c]]
           /\ \A f : Covers(l, f) => Covers(new, f)
<1>1. l.store \in Stores /\ new.store = Changed(l.store, c)
  BY DEF Loaded
<1> QED
  BY <1>1, ChangedFacts DEF Placed, Covers

\* One call goes on: the others, the file and the cached copies are what they were.
LEMMA OneCallIsSound ==
    ASSUME TypeOK, Sound, NEW c \in Calls, NEW x \in CallRecords,
           call' = [call EXCEPT ![c] = x], UNCHANGED <<file, overwritten>>,
           CacheOK', LockOK', CallOK(c, x, file, overwritten)
    PROVE  Sound'
<1>1. call'[c] = x /\ \A d \in Calls \ {c} : call'[d] = call[d]
  BY DEF TypeOK
<1>2. CallsOK'
  BY <1>1 DEF Sound, CallsOK
<1>3. FileOK'
  BY DEF Sound, FileOK
<1> QED
  BY <1>2, <1>3 DEF Sound

\* The copy of a call stays good when it asks, holds, saves or leaves.
LEMMA BecomesOK ==
    ASSUME TypeOK, Sound, NEW c \in Calls, NEW x \in CallRecords, Becomes(c, x)
    PROVE  CallOK(c, x, file, overwritten)
<1>1. /\ CallOK(c, call[c], file, overwritten)
      /\ file \in Loaded /\ file.mtime \in Nat /\ Placed(file.store) /\ file.mtime >= 1
      /\ call[c].copy \in Loaded
  BY DEF Sound, CallsOK, FileOK, TypeOK, Loaded
<1>2. CASE x.copy = NotCached /\ x.stage \in {"failed", "unsaved"}
  BY <1>1, <1>2, NotCachedFacts DEF CallOK, Carries
<1>3. CASE x.copy = call[c].copy
  <2>1. Placed(x.copy.store)
    BY <1>1, <1>3 DEF CallOK
  <2>2. CASE Asks(c) /\ x.stage = "asks"
    BY <2>1, <2>2 DEF CallOK, Carries, Asks
  <2>3. CASE TakesLock(c) /\ x.stage = IF Kind[c] = "whole" THEN "saves" ELSE "holds"
    BY <1>1, <1>3, <2>1, <2>3 DEF CallOK, Carries, TakesLock, At
  <2>4. CASE JudgesStale(c) /\ x.stage = "judges"
    BY <1>1, <1>3, <2>1, <2>4 DEF CallOK, Carries, JudgesStale, At
  <2>5. CASE EvictsLock(c) /\ x.stage = "asks"
    BY <1>1, <1>3, <2>1, <2>5 DEF CallOK, Carries, EvictsLock, At
  <2>6. CASE ReleasesLock(c) /\ x.stage = IF At(c, "saved") THEN "done" ELSE "failed"
    BY <1>1, <1>3, <2>1, <2>6 DEF CallOK, Carries, ReleasesLock, At
  <2>7. CASE EditDone(c) /\ x.stage = "asks"
    BY <1>1, <1>3, <2>1, <2>7 DEF CallOK, Carries, EditDone, At
  <2>8. CASE SaveBegins(c) /\ x.stage = "writes"
    BY <1>1, <1>3, <2>1, <2>8 DEF CallOK, Carries, SaveBegins, At
  <2>9. CASE x.copy = NotCached /\ x.stage \in {"failed", "unsaved"}
    BY <1>2, <2>9
  <2>10. CASE /\ Updated(c) /\ x.stage = "saves"
              /\ x.copy = [call[c].copy EXCEPT !.store = Changed(@, c)]
    BY <1>1, <2>10, ChangedCopy DEF CallOK, Carries, Updated, At
  <2>11. CASE x.stage = "loading" /\ x.copy = file
    BY <1>1, <2>11 DEF CallOK, Carries, Fresh
  <2> QED
    BY <2>2, <2>3, <2>4, <2>5, <2>6, <2>7, <2>8, <2>9, <2>10, <2>11 DEF Becomes
<1>4. CASE /\ Updated(c) /\ x.stage = "saves"
           /\ x.copy = [call[c].copy EXCEPT !.store = Changed(@, c)]
  <2>1. At(c, "updates") /\ Placed(call[c].copy.store)
    BY <1>1, <1>4 DEF CallOK, Updated
  <2>2. /\ Placed(x.copy.store) /\ c \in x.copy.store[Key[c]]
        /\ \A f : Covers(call[c].copy, f) => Covers(x.copy, f)
    BY <1>1, <1>4, <2>1, ChangedCopy
  <2>3. Kind[c] # "whole" => Covers(call[c].copy, file)
    BY <1>1, <2>1 DEF CallOK, At
  <2> QED
    BY <1>4, <2>2, <2>3 DEF CallOK, Carries
<1>5. CASE x.stage = "loading" /\ x.copy = file
  BY <1>1, <1>5 DEF CallOK, Carries, Fresh
<1> QED
  BY <1>2, <1>3, <1>4, <1>5 DEF Becomes

\* Nobody but the owner of the lock is at work under it, unless it was broken.
LEMMA StepKeepsLock ==
    ASSUME TypeOK, Sound, NEW c \in Calls, Step(c), ~broken'
    PROVE  LockOK'
<1>1. PICK x \in CallRecords : call' = [call EXCEPT ![c] = x] /\ Becomes(c, x)
  BY StepBecomes
<1>2. call'[c].stage = x.stage /\ \A d \in Calls \ {c} : call'[d].stage = call[d].stage
  BY <1>1 DEF TypeOK
<1>3. \A d \in Calls : Under(d, call[d].stage) => lock = d
  BY DEF Sound, LockOK
<1>4. CASE TakesLock(c)
  <2>1. lock = Nobody /\ lock' = c
    BY <1>4 DEF TakesLock
  <2>2. \A d \in Calls \ {c} : ~Under(d, call[d].stage)
    BY <1>3, <2>1, NobodyAssumption
  <2> QED
    BY <1>2, <2>1, <2>2 DEF LockOK
<1>5. CASE EvictsLock(c) \/ ReleasesLock(c)
  <2>1. Removes(c) /\ ~Under(c, x.stage)
    <3>1. CASE EvictsLock(c)
      BY <1>1, <1>2, <3>1 DEF EvictsLock, Moves, TypeOK, Under, Holding
    <3>2. CASE ReleasesLock(c)
      <4>1. call'[c].stage \in {"done", "failed"} /\ Removes(c)
        BY <3>2 DEF ReleasesLock, Moves, TypeOK
      <4> QED
        BY <1>2, <4>1 DEF Under, Holding
    <3> QED
      BY <1>5, <3>1, <3>2
  <2>2. \A d \in Calls \ {c} : ~HoldsLock(d)
    BY <2>1 DEF Removes
  <2>3. \A d \in Calls \ {c} : ~Under(d, call[d].stage)
    BY <1>3, <2>2 DEF HoldsLock, Under
  <2> QED
    BY <1>2, <2>1, <2>3 DEF LockOK
<1>6. CASE \/ Asks(c) \/ GivesUp(c) \/ JudgesStale(c) \/ EditDone(c) \/ SaveBegins(c)
           \/ SaveFails(c) \/ Updated(c) \/ ReadsFile(c)
  <2>1. lock' = lock
    BY <1>6 DEF Asks, GivesUp, JudgesStale, EditDone, SaveBegins, SaveFails, Updated,
       ReadsFile, lockVars
  <2>2. Under(c, x.stage) => Under(c, call[c].stage)
    <3>1. CASE Asks(c) \/ GivesUp(c) \/ JudgesStale(c) \/ EditDone(c)
      <4>1. call'[c].stage \in {"asks", "failed", "judges"}
        BY <3>1 DEF Asks, GivesUp, JudgesStale, EditDone, Moves, Leaves, Left, TypeOK
      <4> QED
        BY <1>2, <4>1 DEF Under, Holding
    <3>2. CASE SaveBegins(c) \/ SaveFails(c) \/ Updated(c)
      <4>1. call[c].stage \in {"saves", "writes", "updates"}
        BY <3>2 DEF SaveBegins, SaveFails, Updated, At
      <4> QED
        BY <4>1 DEF Under, Holding
    <3>3. CASE ReadsFile(c)
      <4>1. call'[c].stage = "loading" /\ (At(c, "holds") \/ Kind[c] = "whole")
        BY <3>3 DEF ReadsFile, Loads, TypeOK
      <4> QED
        BY <1>2, <4>1 DEF Under, Holding, At
    <3> QED
      BY <1>6, <3>1, <3>2, <3>3
  <2> QED
    BY <1>2, <1>3, <2>1, <2>2 DEF LockOK
<1> QED
  BY <1>4, <1>5, <1>6 DEF Step, Waits

LEMMA StepIsSound ==
    ASSUME TypeOK, Sound, NEW c \in Calls, Step(c), ~broken'
    PROVE  Sound'
<1>1. PICK x \in CallRecords : call' = [call EXCEPT ![c] = x] /\ Becomes(c, x)
  BY StepBecomes
<1>2. UNCHANGED <<file, overwritten>>
  BY StepTypes DEF history
<1>3. CacheOK'
  <2>1. Placed(NotCached.store) /\ Fresh(NotCached, file)
    BY NotCachedFacts DEF Sound, FileOK, TypeOK
  <2>2. \A p \in Processes : cache'[p] \in {cache[p], NotCached}
    BY StepTypes
  <2>3. \A p \in Processes : Placed(cache'[p].store) /\ Fresh(cache'[p], file)
    BY <2>1, <2>2 DEF Sound, CacheOK
  <2> QED
    BY <1>2, <2>3 DEF CacheOK
<1> QED
  BY <1>1, <1>2, <1>3, BecomesOK, StepKeepsLock, OneCallIsSound

--------------------------------------------------------------------------------
(* Loading *)

\* What is loaded is the content of the file, so it covers every change in it.
LEMMA LoadIsSound ==
    ASSUME TypeOK, Sound, NEW c \in Calls, NEW l \in Loaded, Given(c, l),
           Placed(l.store), l.store = file.store,
           Loads(c) \/ At(c, "loading"),
           UNCHANGED <<file, overwritten, lock>>, CacheOK'
    PROVE  Sound'
<1>1. PICK x \in CallRecords :
          /\ call' = [call EXCEPT ![c] = x]
          /\ \/ /\ x.stage = IF Kind[c] = "whole" THEN "edits" ELSE "saves"
                /\ x.copy = [l EXCEPT !.store = Changed(@, c)]
             \/ x.stage = "unsaved" /\ x.copy = NotCached /\ Kind[c] # "whole"
             \/ x.stage = "updates" /\ x.copy = l /\ Kind[c] # "whole"
  BY GivenFacts DEF TypeOK, CallRecords
<1>2. Covers(l, file)
  BY DEF Covers
<1>3. CallOK(c, x, file, overwritten)
  <2>1. CASE /\ x.stage = IF Kind[c] = "whole" THEN "edits" ELSE "saves"
             /\ x.copy = [l EXCEPT !.store = Changed(@, c)]
    <3>1. Placed(x.copy.store) /\ c \in x.copy.store[Key[c]] /\ Covers(x.copy, file)
      BY <1>2, <2>1, ChangedCopy
    <3> QED
      BY <2>1, <3>1 DEF CallOK, Carries
  <2>2. CASE x.stage = "unsaved" /\ x.copy = NotCached
    BY <2>2, NotCachedFacts DEF CallOK, Carries, Sound, FileOK, TypeOK
  <2>3. CASE x.stage = "updates" /\ x.copy = l
    BY <1>2, <2>3 DEF CallOK, Carries
  <2> QED
    BY <1>1, <2>1, <2>2, <2>3
<1>4. LockOK'
  <2>1. call'[c].stage = x.stage /\ \A d \in Calls \ {c} : call'[d].stage = call[d].stage
    BY <1>1 DEF TypeOK
  <2>2. Under(c, x.stage) => Under(c, call[c].stage)
    BY <1>1 DEF Under, Holding, Loads, At
  <2> QED
    BY <2>1, <2>2 DEF Sound, LockOK
<1> QED
  BY <1>1, <1>3, <1>4, OneCallIsSound

LEMMA LoadTypes ==
    ASSUME TypeOK, NEW c \in Calls, LoadsFromCache(c) \/ StatsFile(c)
    PROVE  TypeOK'
<1>1. In[c] \in Processes /\ call[c].copy \in Loaded /\ file \in Loaded
  BY CallsAssumption DEF TypeOK
<1> DEFINE l == [call[c].copy EXCEPT !.mtime = file.mtime]
<1>2. l \in Loaded /\ cache[In[c]] \in Loaded
  BY <1>1 DEF TypeOK, Loaded
<1>3. Given(c, l) \/ Given(c, cache[In[c]])
  BY DEF LoadsFromCache, StatsFile
<1>4. PICK x \in CallRecords : call' = [call EXCEPT ![c] = x]
  BY <1>2, <1>3, GivenFacts DEF TypeOK, CallRecords
<1>5. cache' = cache \/ cache' = [cache EXCEPT ![In[c]] = l]
  BY DEF LoadsFromCache, StatsFile
<1>6. reading' = reading \/ reading' = [reading EXCEPT ![In[c]] = Nobody]
  BY DEF LoadsFromCache, StatsFile
<1>7. /\ UNCHANGED <<file, overwritten, lock, old, broken, faults>>
      /\ misdated' \in BOOLEAN
  BY DEF TypeOK, LoadsFromCache, StatsFile, lockVars, history
<1>8. cache' \in [Processes -> Loaded] /\ reading' \in [Processes -> Calls \cup {Nobody}]
  BY <1>1, <1>2, <1>5, <1>6 DEF TypeOK
<1> QED
  BY <1>4, <1>7, <1>8, OneCallTypes DEF TypeOK

LEMMA LoadingIsSound ==
    ASSUME TypeOK, Sound, NEW c \in Calls, LoadsFromCache(c) \/ StatsFile(c), ~misdated'
    PROVE  Sound'
<1>1. /\ In[c] \in Processes /\ call[c].copy \in Loaded /\ file \in Loaded
      /\ file.mtime \in Nat /\ file.mtime >= 1 /\ cache \in [Processes -> Loaded]
  BY CallsAssumption DEF TypeOK, Sound, FileOK, Loaded
<1>2. CASE LoadsFromCache(c)
  <2>1. /\ Given(c, cache[In[c]]) /\ Loads(c) /\ cache[In[c]].mtime = file.mtime
        /\ UNCHANGED <<file, overwritten, lock, cache>>
    BY <1>2 DEF LoadsFromCache, IsFresh, lockVars, history
  <2>2. Placed(cache[In[c]].store) /\ cache[In[c]].store = file.store
    BY <1>1, <2>1 DEF Sound, CacheOK, Fresh
  <2>3. CacheOK'
    BY <2>1 DEF Sound, CacheOK
  <2> QED
    BY <1>1, <2>1, <2>2, <2>3, LoadIsSound
<1>3. CASE StatsFile(c)
  <2> DEFINE l == [call[c].copy EXCEPT !.mtime = file.mtime]
  <2>1. /\ At(c, "loading") /\ Given(c, l) /\ cache' = [cache EXCEPT ![In[c]] = l]
        /\ file.mtime = call[c].copy.mtime
        /\ UNCHANGED <<file, overwritten, lock>>
    BY <1>3 DEF StatsFile, lockVars
  <2>2. CallOK(c, call[c], file, overwritten)
    BY DEF Sound, CallsOK
  <2>3. Placed(call[c].copy.store) /\ call[c].copy.store = file.store
    BY <2>1, <2>2 DEF CallOK, At, Fresh
  <2>4. l \in Loaded /\ l.store = file.store /\ l.mtime = file.mtime
    BY <1>1, <2>3 DEF Loaded
  <2>5. Placed(l.store) /\ Fresh(l, file)
    BY <1>1, <2>3, <2>4 DEF Fresh
  <2>6. CacheOK'
    BY <1>1, <2>1, <2>5 DEF Sound, CacheOK
  <2> QED
    BY <2>1, <2>4, <2>5, <2>6, LoadIsSound
<1> QED
  BY <1>2, <1>3

--------------------------------------------------------------------------------
(* Saving *)

LEMMA ChangesFacts ==
    ASSUME NEW store \in Stores
    PROVE  /\ ChangesOf(store) \subseteq Calls
           /\ \A c \in Calls :
                 c \in ChangesOf(store) <=> \E k \in Keys : c \in store[k]
<1>1. \A k \in Keys : store[k] \in (SUBSET Calls) \cup {NoEntry}
  BY DEF Stores
<1>2. \A k \in Keys, c \in Calls : c \in store[k] => store[k] # NoEntry
  BY NoEntryFacts
<1> QED
  BY <1>1, <1>2 DEF ChangesOf

LEMMA RenameTypes ==
    ASSUME TypeOK, NEW c \in Calls, Renames(c)
    PROVE  TypeOK'
<1>1. file \in Loaded /\ call[c].copy \in Loaded
  BY DEF TypeOK
<1>2. file' \in Loaded
  BY <1>1 DEF Renames, Loaded
<1>3. overwritten' \subseteq Calls
  <2>1. ChangesOf(file.store) \subseteq Calls /\ overwritten \subseteq Calls
    BY <1>1, ChangesFacts DEF TypeOK, Loaded
  <2> QED
    BY <2>1 DEF Renames
<1>4. call' \in [Calls -> CallRecords]
  <2>1. Leaves(c, "saved") /\ "saved" \in Stages
    BY DEF Renames, Stages
  <2>2. PICK x \in CallRecords : call' = [call EXCEPT ![c] = x]
    BY <2>1, StageTypes
  <2> QED
    BY <2>2 DEF TypeOK, CallRecords
<1> QED
  BY <1>2, <1>3, <1>4 DEF TypeOK, Renames, lockVars, CallRecords

\* A saved copy has every change of the file, but for those a whole copy overwrites;
\* nobody else is at work under the lock, so no other copy has to cover the new file.
LEMMA RenameIsSound ==
    ASSUME TypeOK, Sound, NEW c \in Calls, Renames(c)
    PROVE  Sound'
<1>1. /\ file \in Loaded /\ file.store \in Stores /\ file.mtime \in Nat
      /\ call[c].copy \in Loaded /\ call[c].copy.store \in Stores
      /\ cache \in [Processes -> Loaded] /\ call \in [Calls -> CallRecords]
  BY DEF TypeOK, Loaded, CallRecords
<1>2. /\ At(c, "writes") /\ CallOK(c, call[c], file, overwritten)
      /\ UNCHANGED <<cache, lock>>
  BY DEF Renames, Sound, CallsOK, lockVars
<1>3. file'.store = call[c].copy.store /\ file'.mtime = file.mtime + 1
  BY DEF Renames
<1>4. /\ overwritten \subseteq overwritten'
      /\ Kind[c] = "whole" => ChangesOf(file.store) \ ChangesOf(file'.store) \subseteq overwritten'
  BY <1>3 DEF Renames
<1>5. /\ call'[c].stage = "saved" /\ call'[c].copy = NotCached
      /\ \A d \in Calls \ {c} : call'[d] = call[d]
  BY <1>1 DEF Renames, Leaves, Left
<1>6. Placed(file'.store) /\ c \in file'.store[Key[c]]
  BY <1>2, <1>3 DEF CallOK, Carries, At
<1>7. ASSUME NEW d \in Calls, d \in file.store[Key[d]] \/ d \in overwritten
      PROVE  d \in file'.store[Key[d]] \/ d \in overwritten'
  <2>1. CASE d \in overwritten
    BY <1>4, <2>1
  <2>2. CASE d \in file.store[Key[d]] /\ Kind[c] # "whole"
    <3>1. Covers(call[c].copy, file) /\ Key[d] \in Keys
      BY <1>2, <2>2, CallsAssumption DEF CallOK, At
    <3> QED
      BY <1>3, <2>2, <3>1 DEF Covers
  <2>3. CASE d \in file.store[Key[d]] /\ Kind[c] = "whole"
    <3>1. d \in ChangesOf(file.store) /\ Key[d] \in Keys
      BY <1>1, <2>3, ChangesFacts, CallsAssumption
    <3>2. d \in ChangesOf(file'.store) => d \in file'.store[Key[d]]
      BY <1>1, <1>3, <1>6, ChangesFacts DEF Placed
    <3> QED
      BY <1>4, <2>3, <3>1, <3>2
  <2> QED
    BY <1>7, <2>1, <2>2, <2>3
<1>8. \A l \in Loaded : Fresh(l, file) => Fresh(l, file')
  BY <1>1, <1>3 DEF Fresh, Loaded
<1>9. CacheOK'
  BY <1>1, <1>2, <1>8 DEF Sound, CacheOK
<1>10. FileOK'
  BY <1>1, <1>3, <1>6 DEF FileOK
<1>11. ASSUME NEW d \in Calls \ {c}
       PROVE  CallOK(d, call[d], file', overwritten')
  <2>1. CallOK(d, call[d], file, overwritten) /\ call[d].copy \in Loaded
    BY <1>1 DEF Sound, CallsOK, CallRecords
  <2>2. ~Under(d, call[d].stage)
    BY <1>2 DEF Sound, LockOK, Under, Holding, At
  <2>3. Kind[d] # "whole" => call[d].stage \notin {"updates", "saves", "writes"}
    BY <2>2 DEF Under, Holding
  <2>4. call[d].stage \in {"saved", "done"} => d \in file'.store[Key[d]] \/ d \in overwritten'
    BY <1>7, <2>1 DEF CallOK
  <2> QED
    BY <1>8, <2>1, <2>3, <2>4 DEF CallOK
<1>12. CallOK(c, call'[c], file', overwritten')
  <2>1. Placed(NotCached.store)
    BY <1>1, NotCachedFacts DEF Sound, FileOK
  <2> QED
    BY <1>5, <1>6, <2>1 DEF CallOK, Carries
<1>13. CallsOK'
  BY <1>5, <1>11, <1>12 DEF CallsOK
<1>14. LockOK'
  <2>1. Under(c, call[c].stage)
    BY <1>2 DEF Under, Holding, At
  <2> QED
    BY <1>2, <1>5, <2>1 DEF Sound, LockOK
<1> QED
  BY <1>9, <1>10, <1>13, <1>14 DEF Sound

--------------------------------------------------------------------------------
(* Crashes *)

\* A process that dies leaves its lock, and no copy that could be saved.
LEMMA DeathIsSound ==
    ASSUME TypeOK, NEW p \in Processes, Dies(p)
    PROVE  TypeOK' /\ (Sound => Sound')
<1>1. /\ UNCHANGED <<file, lock, old, broken, overwritten, misdated>>
      /\ cache' = [cache EXCEPT ![p] = NotCached]
      /\ reading' = [reading EXCEPT ![p] = Nobody]
      /\ faults < MaxFaults /\ faults' = faults + 1
  BY DEF Dies, Fault, lockVars, history
<1>2. \A c \in Calls : call'[c] = call[c] \/ call'[c] = Left("dead")
  BY DEF Dies
<1>3. Left("dead") \in CallRecords /\ Left("dead").stage = "dead"
      /\ Left("dead").copy = NotCached
  BY NoEntryFacts DEF Left, CallRecords, Stages
<1>4. TypeOK'
  <2>1. call' \in [Calls -> CallRecords]
    <3>1. \A c \in Calls : call[c] \in CallRecords
      BY DEF TypeOK, CallRecords
    <3>2. call' = [c \in Calls |-> call'[c]]
      BY DEF Dies
    <3> QED
      BY <1>2, <1>3, <3>1, <3>2
  <2>2. cache' \in [Processes -> Loaded] /\ reading' \in [Processes -> Calls \cup {Nobody}]
    BY <1>1, NoEntryFacts DEF TypeOK
  <2>3. faults' \in 0..MaxFaults
    BY <1>1, BoundAssumption DEF TypeOK
  <2> QED
    BY <1>1, <2>1, <2>2, <2>3 DEF TypeOK, CallRecords
<1>5. ASSUME Sound PROVE Sound'
  <2>1. Placed(NotCached.store) /\ Fresh(NotCached, file)
    BY <1>5, NotCachedFacts DEF Sound, FileOK, TypeOK
  <2>2. CacheOK'
    <3>1. \A q \in Processes : cache'[q] \in {cache[q], NotCached}
      BY <1>1 DEF TypeOK
    <3> QED
      BY <1>1, <1>5, <2>1, <3>1 DEF Sound, CacheOK
  <2>3. CallsOK'
    BY <1>1, <1>2, <1>3, <1>5, <2>1 DEF Sound, CallsOK, CallOK, Carries
  <2>4. LockOK'
    BY <1>1, <1>2, <1>3, <1>5 DEF Sound, LockOK, Under, Holding
  <2> QED
    BY <1>1, <1>5, <2>2, <2>3, <2>4 DEF Sound, FileOK
<1> QED
  BY <1>4, <1>5

--------------------------------------------------------------------------------
(* The theorems *)

LEMMA InitOK == Init => IInv
<1> SUFFICES ASSUME Init PROVE IInv
  OBVIOUS
<1>1. file.store \in [Keys -> {{}, NoEntry}] /\ file.mtime = 1
      /\ file = [store |-> file.store, mtime |-> file.mtime]
  BY DEF Init
<1>2. file \in Loaded
  BY <1>1 DEF Loaded, Stores
<1>3. Placed(file.store)
  BY <1>1, NoEntryFacts DEF Placed
<1>4. Placed(NotCached.store) /\ Fresh(NotCached, file)
  BY <1>1, <1>2, NotCachedFacts
<1>5. /\ \A p \in Processes : cache[p] = NotCached
      /\ \A c \in Calls : call[c].stage = "new" /\ call[c].copy = NotCached
      /\ cache \in [Processes -> Loaded] /\ reading \in [Processes -> Calls \cup {Nobody}]
      /\ call \in [Calls -> CallRecords]
  BY NoEntryFacts DEF Init, CallRecords, Stages
<1>6. TypeOK
  <2>1. /\ lock = Nobody /\ overwritten = {} /\ faults \in 0..MaxFaults
        /\ old = FALSE /\ broken = FALSE /\ misdated = FALSE
    BY BoundAssumption DEF Init
  <2> QED
    BY <1>2, <1>5, <2>1 DEF TypeOK, CallRecords
<1>7. Sound
  BY <1>1, <1>3, <1>4, <1>5 DEF Sound, LockOK, Under, Holding, FileOK, CacheOK, CallsOK, CallOK,
     Carries
<1> QED
  BY <1>6, <1>7 DEF IInv

LEMMA StepOK == IInv /\ [Next]_vars => IInv'
<1> SUFFICES ASSUME TypeOK, Spoiled \/ Sound, [Next]_vars
             PROVE  TypeOK' /\ (Spoiled' \/ Sound')
  BY DEF IInv
<1>1. ASSUME NEW c \in Calls, Step(c)
      PROVE  TypeOK' /\ (Spoiled' \/ Sound')
  <2>1. TypeOK' /\ (broken => broken') /\ misdated' = misdated
    BY <1>1, StepTypes DEF history
  <2> QED
    BY <1>1, <2>1, StepIsSound DEF Spoiled
<1>2. ASSUME NEW c \in Calls, LoadsFromCache(c) \/ StatsFile(c)
      PROVE  TypeOK' /\ (Spoiled' \/ Sound')
  <2>1. broken' = broken
    BY <1>2 DEF LoadsFromCache, StatsFile, lockVars
  <2>2. LoadsFromCache(c) => misdated' = misdated
    BY DEF LoadsFromCache, history
  <2>3. StatsFile(c) => (misdated => misdated')
    BY DEF StatsFile
  <2> QED
    BY <1>2, <2>1, <2>2, <2>3, LoadTypes, LoadingIsSound DEF Spoiled
<1>3. ASSUME NEW c \in Calls, Renames(c)
      PROVE  TypeOK' /\ (Spoiled' \/ Sound')
  <2>1. broken' = broken /\ misdated' = misdated
    BY <1>3 DEF Renames, lockVars
  <2> QED
    BY <1>3, <2>1, RenameTypes, RenameIsSound DEF Spoiled
<1>4. CASE LockAges
  <2>1. /\ UNCHANGED <<file, cache, reading, lock, call, broken, overwritten, misdated>>
        /\ old' = TRUE /\ (faults' = faults \/ Fault)
    BY <1>4 DEF LockAges, history
  <2>2. faults' \in 0..MaxFaults
    BY <2>1, BoundAssumption DEF TypeOK, Fault
  <2>3. TypeOK'
    BY <2>1, <2>2 DEF TypeOK
  <2> QED
    BY <2>1, <2>3 DEF Spoiled, Sound, LockOK, FileOK, CacheOK, CallsOK
<1>5. ASSUME NEW p \in Processes, Dies(p)
      PROVE  TypeOK' /\ (Spoiled' \/ Sound')
  <2>1. broken' = broken /\ misdated' = misdated
    BY <1>5 DEF Dies, lockVars, history
  <2> QED
    BY <1>5, <2>1, DeathIsSound DEF Spoiled
<1>6. CASE UNCHANGED vars
  <2>1. TypeOK'
    BY <1>6 DEF vars, TypeOK
  <2> QED
    BY <1>6, <2>1 DEF vars, Spoiled, Sound, LockOK, FileOK, CacheOK, CallsOK
<1> QED
  BY <1>1, <1>2, <1>3, <1>4, <1>5, <1>6 DEF Next, Works, Step

LEMMA Invariance == Spec => []IInv
  BY InitOK, StepOK, PTL DEF Spec

\* The file, the caches, the lock and the calls keep their types.
THEOREM TypeCorrect == Spec => []TypeOK
<1>1. IInv => TypeOK
  BY DEF IInv
<1> QED
  BY <1>1, Invariance, PTL

\* A change that was saved is in the file or was overwritten by a whole copy, as long as
\* no lock was taken from a call at work and no content got a wrong date.
THEOREM SavedChangesStay == Spec => []NoUpdateIsLost
<1>1. IInv => NoUpdateIsLost
  <2> SUFFICES ASSUME IInv, ~broken, ~misdated,
                      NEW c \in Calls, call[c].stage \in {"saved", "done"}
               PROVE  InFile(c) \/ c \in overwritten
    BY DEF NoUpdateIsLost
  <2>1. c \in file.store[Key[c]] \/ c \in overwritten
    BY DEF IInv, Spoiled, Sound, CallsOK, CallOK
  <2> QED
    BY <2>1, NoEntryFacts DEF InFile
<1> QED
  BY <1>1, Invariance, PTL

================================================================================
