----------------------------- MODULE SessionStore ------------------------------
(***************************************************************************)
(* The file of session entries (config/sessions/store.ts).  The gateway    *)
(* and the command line change it from several processes.  A change of one *)
(* entry (updateSessionStoreEntry, updateLastRoute) loads, changes and     *)
(* saves under a lock file.  Most callers load the whole store, change     *)
(* their copy, await, and save the copy (saveSessionStore): only the save  *)
(* is under the lock.  A load is answered from a cache while the file has  *)
(* the modification time that was noted.                                   *)
(*                                                                         *)
(* The lock file is removed by whoever finds it older than thirty seconds. *)
(* A process may die anywhere; another one may rename the file in the      *)
(* middle of a load.                                                       *)
(***************************************************************************)
EXTENDS Naturals, FiniteSets

CONSTANTS
    Processes,
    Calls,        \* calls that change the store, each once
    In,           \* [Calls -> Processes]
    Kind,         \* [Calls -> {"entry", "route", "whole"}]
    Keys,
    Key,          \* [Calls -> Keys]  the entry that the call changes
    MaxFaults,    \* bound: deaths, failing writes and holders slower than thirty seconds
    Nobody

ASSUME CallsAssumption ==
    /\ In \in [Calls -> Processes]
    /\ Kind \in [Calls -> {"entry", "route", "whole"}]
    /\ Key \in [Calls -> Keys]
ASSUME BoundAssumption == MaxFaults \in Nat
ASSUME NobodyAssumption == Nobody \notin Calls

VARIABLES
    file,         \* sessions.json: an entry is the set of the changes it has
    cache,        \* SESSION_STORE_CACHE of each process
    reading,      \* the call for which a process is in the middle of a load
    lock,         \* sessions.json.lock, by the call that made it
    old,          \* the lock file is older than staleMs
    call,         \* where a call is, and its copy of the store
    \* history
    overwritten,  \* changes that were not in a whole copy that was saved
    broken,       \* somebody removed the lock of a call that was still at work
    misdated,     \* the file was renamed between the two halves of a load
    faults

vars == <<file, cache, reading, lock, old, call, overwritten, broken, misdated, faults>>
lockVars == <<lock, old, broken>>
history == <<overwritten, misdated>>

NoEntry == {Nobody}
Stores == [Keys -> (SUBSET Calls) \cup {NoEntry}]
Loaded == [store : Stores, mtime : Nat]
NotCached == [store |-> [k \in Keys |-> NoEntry], mtime |-> 0]
Stages == {"new", "loading", "edits", "asks", "judges", "holds", "updates", "saves", "writes",
           "saved", "unsaved", "done", "failed", "dead"}
\* A call in one of these has the lock, as far as it knows.
Holding == {"holds", "loading", "updates", "saves", "writes", "saved", "unsaved"}

Init ==
    /\ file \in [store : [Keys -> {{}, NoEntry}], mtime : {1}]
    /\ cache = [p \in Processes |-> NotCached]
    /\ reading = [p \in Processes |-> Nobody]
    /\ lock = Nobody /\ old = FALSE
    /\ call = [c \in Calls |-> [stage |-> "new", copy |-> NotCached]]
    /\ overwritten = {} /\ broken = FALSE /\ misdated = FALSE /\ faults = 0

Fault == faults < MaxFaults /\ faults' = faults + 1
At(c, stage) == call[c].stage = stage
Moves(c, stage) == call' = [call EXCEPT ![c].stage = stage]
\* The copy of the store is not needed any more.
Left(stage) == [stage |-> stage, copy |-> NotCached]
Leaves(c, stage) == call' = [call EXCEPT ![c] = Left(stage)]
\* A load is synchronous: meanwhile nothing else happens in its process.
CanRun(c) == reading[In[c]] = Nobody
HoldsLock(c) == lock = c /\ call[c].stage \in Holding

--------------------------------------------------------------------------------
(* withSessionStoreLock *)

Asks(c) ==
    /\ At(c, "new") /\ Kind[c] # "whole" /\ CanRun(c)
    /\ Moves(c, "asks")
    /\ UNCHANGED <<file, cache, reading, lockVars, history, faults>>

\* open(lockPath, "wx").  A whole copy is saved at once.
TakesLock(c) ==
    /\ At(c, "asks") /\ lock = Nobody /\ CanRun(c)
    /\ lock' = c /\ old' = FALSE
    /\ Moves(c, IF Kind[c] = "whole" THEN "saves" ELSE "holds")
    /\ UNCHANGED <<file, cache, reading, broken, history, faults>>

\* Fault: the time is looked at for old locks only.
GivesUp_OnOldLock(c) ==
    /\ At(c, "asks") /\ lock # Nobody /\ old /\ CanRun(c)
    /\ Leaves(c, "failed")
    /\ UNCHANGED <<file, cache, reading, lockVars, history, faults>>

\* Ten seconds are over.
GivesUp(c) ==
    /\ At(c, "asks") /\ lock # Nobody /\ CanRun(c)
    /\ Leaves(c, "failed")
    /\ UNCHANGED <<file, cache, reading, lockVars, history, faults>>

\* stat says that the lock is old ...
JudgesStale(c) ==
    /\ At(c, "asks") /\ lock # Nobody /\ old /\ CanRun(c)
    /\ Moves(c, "judges")
    /\ UNCHANGED <<file, cache, reading, lockVars, history, faults>>

\* ... and the one that is there by then is removed.
Removes(c) ==
    /\ lock' = Nobody /\ old' = FALSE
    /\ broken' = (broken \/ \E d \in Calls \ {c} : HoldsLock(d))

EvictsLock(c) ==
    /\ At(c, "judges") /\ CanRun(c)
    /\ Removes(c) /\ Moves(c, "asks")
    /\ UNCHANGED <<file, cache, reading, history, faults>>

\* The finally block.
ReleasesLock(c) ==
    /\ call[c].stage \in {"saved", "unsaved"} /\ CanRun(c)
    /\ Removes(c) /\ Moves(c, IF At(c, "saved") THEN "done" ELSE "failed")
    /\ UNCHANGED <<file, cache, reading, history, faults>>

--------------------------------------------------------------------------------
(* loadSessionStore *)

\* Fault: the cache is used for as long as its time to live.
IsFresh_UntilExpiry(p) == cache[p] # NotCached

IsFresh(p) == cache[p] # NotCached /\ cache[p].mtime = file.mtime

\* What a call does with the store it was given, up to its next await.  An entry
\* that is not there is not made by updateSessionStoreEntry.
Changed(store, c) ==
    [store EXCEPT ![Key[c]] = IF @ = NoEntry THEN {c} ELSE @ \cup {c}]
Given(c, loaded) ==
    call' = [call EXCEPT ![c] =
        CASE Kind[c] = "whole" ->
               [stage |-> "edits", copy |-> [loaded EXCEPT !.store = Changed(@, c)]]
          [] Kind[c] = "route" ->
               [stage |-> "saves", copy |-> [loaded EXCEPT !.store = Changed(@, c)]]
          [] Kind[c] = "entry" ->
               IF loaded.store[Key[c]] = NoEntry THEN Left("unsaved")
               ELSE [stage |-> "updates", copy |-> loaded]]

Loads(c) == (At(c, "new") /\ Kind[c] = "whole") \/ At(c, "holds")

LoadsFromCache(c) ==
    /\ Loads(c) /\ CanRun(c) /\ IsFresh(In[c])
    /\ Given(c, cache[In[c]])
    /\ UNCHANGED <<file, cache, reading, lockVars, history, faults>>

\* The time to live of the cache is over, or the file has another date: it is read ...
ReadsFile(c) ==
    /\ Loads(c) /\ CanRun(c)
    /\ reading' = [reading EXCEPT ![In[c]] = c]
    /\ call' = [call EXCEPT ![c] = [stage |-> "loading", copy |-> file]]
    /\ UNCHANGED <<file, cache, lockVars, history, faults>>

\* ... and then asked for its date, which goes with the content into the cache.
StatsFile(c) ==
    LET loaded == [call[c].copy EXCEPT !.mtime = file.mtime]
    IN  /\ At(c, "loading")
        /\ reading' = [reading EXCEPT ![In[c]] = Nobody]
        /\ cache' = [cache EXCEPT ![In[c]] = loaded]
        /\ Given(c, loaded)
        /\ misdated' = (misdated \/ file.mtime # call[c].copy.mtime)
        /\ UNCHANGED <<file, lockVars, overwritten, faults>>

--------------------------------------------------------------------------------
(* The change and the save *)

\* The patch is ready, or there is nothing to change.
Updated(c) ==
    /\ At(c, "updates") /\ CanRun(c)
    /\ \/ LET copy == [call[c].copy EXCEPT !.store = Changed(@, c)]
          IN  call' = [call EXCEPT ![c] = [stage |-> "saves", copy |-> copy]]
       \/ Leaves(c, "unsaved")
    /\ UNCHANGED <<file, cache, reading, lockVars, history, faults>>

\* A caller with a whole copy comes to its saveSessionStore.
EditDone(c) ==
    /\ At(c, "edits") /\ CanRun(c)
    /\ Moves(c, "asks")
    /\ UNCHANGED <<file, cache, reading, lockVars, history, faults>>

\* saveSessionStoreUnlocked forgets the cache before its first await ...
SaveBegins(c) ==
    /\ At(c, "saves") /\ CanRun(c)
    /\ cache' = [cache EXCEPT ![In[c]] = NotCached]
    /\ Moves(c, "writes")
    /\ UNCHANGED <<file, reading, lockVars, history, faults>>

ChangesOf(store) == UNION {store[k] : k \in {k \in Keys : store[k] # NoEntry}}

\* ... and renames a new file into place.
Renames(c) ==
    /\ At(c, "writes") /\ CanRun(c)
    /\ file' = [store |-> call[c].copy.store, mtime |-> file.mtime + 1]
    /\ overwritten' = IF Kind[c] = "whole"
                      THEN overwritten \cup (ChangesOf(file.store) \ ChangesOf(call[c].copy.store))
                      ELSE overwritten
    /\ Leaves(c, "saved")
    /\ UNCHANGED <<cache, reading, lockVars, misdated, faults>>

SaveFails(c) ==
    /\ At(c, "writes") /\ CanRun(c) /\ Fault
    /\ Leaves(c, "unsaved")
    /\ UNCHANGED <<file, cache, reading, lockVars, history>>

--------------------------------------------------------------------------------
(* Time and crashes *)

\* A lock that was left behind gets old; one that is in use may.
LockAges ==
    /\ lock # Nobody /\ ~old /\ old' = TRUE
    /\ IF HoldsLock(lock) THEN Fault ELSE UNCHANGED faults
    /\ UNCHANGED <<file, cache, reading, lock, call, broken, history>>

\* A process dies; what it had in memory is gone, and its lock stays.
Dies(p) ==
    /\ Fault
    /\ call' = [c \in Calls |->
          IF In[c] = p /\ call[c].stage \notin {"new", "done", "failed"}
          THEN Left("dead") ELSE call[c]]
    /\ cache' = [cache EXCEPT ![p] = NotCached]
    /\ reading' = [reading EXCEPT ![p] = Nobody]
    /\ UNCHANGED <<file, lockVars, history>>

Waits(c) == TakesLock(c) \/ GivesUp(c) \/ JudgesStale(c) \/ EvictsLock(c)
Works(c) ==
    \/ LoadsFromCache(c) \/ ReadsFile(c) \/ StatsFile(c) \/ Updated(c) \/ EditDone(c)
    \/ SaveBegins(c) \/ Renames(c) \/ ReleasesLock(c)

Next ==
    \/ \E c \in Calls : Asks(c) \/ Waits(c) \/ Works(c) \/ SaveFails(c)
    \/ LockAges
    \/ \E p \in Processes : Dies(p)

\* A call goes on: the file system answers, and a waiting call looks at the lock again.
Spec ==
    /\ Init /\ [][Next]_vars
    /\ \A c \in Calls : WF_vars(Waits(c)) /\ WF_vars(~At(c, "new") /\ Works(c))

--------------------------------------------------------------------------------
(* Properties *)

TypeOK ==
    /\ file \in Loaded /\ cache \in [Processes -> Loaded]
    /\ reading \in [Processes -> Calls \cup {Nobody}]
    /\ lock \in Calls \cup {Nobody}
    /\ call \in [Calls -> [stage : Stages, copy : Loaded]]
    /\ overwritten \subseteq Calls
    /\ {old, broken, misdated} \subseteq BOOLEAN /\ faults \in 0..MaxFaults

InFile(c) == file.store[Key[c]] # NoEntry /\ c \in file.store[Key[c]]

\* A change that was made under the lock stays in the file, whatever other calls and
\* processes do, cached copies and crashes included, except for three things: a whole
\* copy that was loaded before it and saved after it, a lock that is taken from a
\* call at work, and a cached content that got the date of a newer file.
NoUpdateIsLost ==
    \/ broken \/ misdated
    \/ \A c \in Calls : call[c].stage \in {"saved", "done"} =>
           InFile(c) \/ c \in overwritten

\* Every call comes to an end, with its change saved or with an error, though the
\* process that holds the lock dies: nobody waits for a lock for ever.
EveryCallEnds ==
    \A c \in Calls : At(c, "asks") ~> call[c].stage \in {"done", "failed", "dead"}

\* What config/sessions.test.ts expects of updateSessionStoreEntry ("merges concurrent
\* patches"), also when another process loads and saves at the same time.
PatchesAreMerged ==
    broken \/
    \A c \in Calls : Kind[c] # "whole" /\ call[c].stage \in {"saved", "done"} =>
        InFile(c) \/ c \in overwritten
================================================================================
