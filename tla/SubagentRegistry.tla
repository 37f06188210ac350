---------------------------- MODULE SubagentRegistry ----------------------------
(***************************************************************************)
(* The registry of sub-agent runs (agents/subagent-registry.ts) and the    *)
(* step that announces the result of each (subagent-announce.ts).          *)
(*                                                                         *)
(* A run is started through the gateway and registered afterwards.  The    *)
(* registry learns of its end twice: from the events of the process and    *)
(* from agent.wait, which also knows the runs that ended before they were  *)
(* registered.  Whichever comes first starts the announcement.  A sweep    *)
(* archives old entries; the entries survive a restart on disk, the runs   *)
(* do not.                                                                 *)
(***************************************************************************)
EXTENDS Naturals, FiniteSets

CONSTANTS
    Runs,
    Deleting,     \* the runs that were spawned with cleanup "delete"
    MaxFaults,    \* bound: restarts, failing sends and attempts that are retried
    NoEntry

ASSUME DeletingAssumption == Deleting \subseteq Runs
ASSUME BoundsAssumption == MaxFaults \in Nat

VARIABLES
    child,       \* [Runs -> the run at the gateway]
    cached,      \* agentRunCache: the runs agent.wait answers for
    entry,       \* subagentRuns
    disk,        \* the registry file; announceHandled is not in it
    waiting,     \* runs for which agent.wait is awaited
    flow,        \* [Runs -> where runSubagentAnnounceFlow is]
    sweeping,    \* a sweep took entries and has not saved yet
    \* history
    announced,   \* [Runs -> Nat]  messages sent to the requester
    doubted,     \* [Runs -> Nat]  of these, the ones whose end was not recorded
    missed,      \* runs that will not be announced for a reason the code accepts
    faults

vars == <<child, cached, entry, disk, waiting, flow, sweeping, announced, doubted, missed, faults>>
gateway == <<child, cached>>
history == <<announced, doubted, missed>>

Entries == [ended : BOOLEAN, handled : BOOLEAN, completed : BOOLEAN]
ASSUME NoEntryAssumption == NoEntry \notin Entries

NewEntry == [ended |-> FALSE, handled |-> FALSE, completed |-> FALSE]

Init ==
    /\ child = [r \in Runs |-> "none"] /\ cached = {}
    /\ entry = [r \in Runs |-> NoEntry] /\ disk = entry
    /\ waiting = {} /\ sweeping = FALSE
    /\ flow = [r \in Runs |-> "none"]
    /\ announced = [r \in Runs |-> 0] /\ doubted = [r \in Runs |-> 0]
    /\ missed = {} /\ faults = 0

Fault == faults < MaxFaults /\ faults' = faults + 1
Known(r) == entry[r] # NoEntry

\* A change of the map and persistSubagentRuns.
Persist(entries) == disk' = entries
Becomes(entries) == entry' = entries /\ Persist(entries)

--------------------------------------------------------------------------------
(* A run starts, is registered and ends *)

\* The gateway accepts the run; the answer is still on its way to the tool.
ChildStarts(r) ==
    /\ child[r] = "none"
    /\ child' = [child EXCEPT ![r] = "running"]
    /\ UNCHANGED <<cached, entry, disk, waiting, flow, sweeping, history, faults>>

RegisterSubagentRun(r) ==
    /\ child[r] \in {"running", "over"} /\ ~Known(r) /\ announced[r] = 0 /\ r \notin missed
    /\ Becomes([entry EXCEPT ![r] = NewEntry])
    /\ waiting' = waiting \cup {r}
    /\ UNCHANGED <<gateway, flow, sweeping, history, faults>>

\* Fault: an announcement that was begun may be begun again.
MayBegin_Again(e) == ~e.completed

\* beginSubagentAnnounce
MayBegin(e) == ~e.completed /\ ~e.handled

\* What both informants do: note the end and begin the announcement if nobody did.
NoteEnd(r) ==
    LET e == [entry[r] EXCEPT !.ended = TRUE]
    IN  IF MayBegin(e)
        THEN /\ Becomes([entry EXCEPT ![r] = [e EXCEPT !.handled = TRUE]])
             /\ flow' = [flow EXCEPT ![r] = "asking"]
        ELSE Becomes([entry EXCEPT ![r] = e]) /\ UNCHANGED flow

\* The lifecycle event of the end reaches the listener if the run is registered.
EndIsHeard(r) ==
    /\ cached' = cached \cup {r}
    /\ IF Known(r) THEN NoteEnd(r) ELSE UNCHANGED <<entry, disk, flow>>

ChildEnds(r) ==
    /\ child[r] = "running"
    /\ child' = [child EXCEPT ![r] = "over"]
    /\ EndIsHeard(r)
    /\ UNCHANGED <<waiting, sweeping, history, faults>>

\* An attempt ends with the event of an end, and the run tries again.
AttemptEnds(r) ==
    /\ child[r] = "running" /\ Fault
    /\ EndIsHeard(r)
    /\ UNCHANGED <<child, waiting, sweeping, history>>

\* agent.wait answers from the cache first.
WaitReturns(r) ==
    /\ r \in waiting /\ r \in cached
    /\ waiting' = waiting \ {r}
    /\ IF Known(r) THEN NoteEnd(r) ELSE UNCHANGED <<entry, disk, flow>>
    /\ UNCHANGED <<gateway, sweeping, history, faults>>

\* The run takes longer than agent.wait does, or the gateway does not know it.
WaitTimesOut(r) ==
    /\ r \in waiting /\ r \notin cached
    /\ waiting' = waiting \ {r}
    /\ UNCHANGED <<gateway, entry, disk, flow, sweeping, history, faults>>

--------------------------------------------------------------------------------
(* The announcement: runSubagentAnnounceFlow and finalizeSubagentAnnounce *)

At(r, stage) == flow[r] = stage
Moves(r, stage) == flow' = [flow EXCEPT ![r] = stage]

\* The child is asked for a summary, in its own session: a run that goes on there
\* comes first.
AnnounceStep(r) ==
    /\ At(r, "asking") /\ child[r] # "running"
    /\ Moves(r, "sending")
    /\ UNCHANGED <<gateway, entry, disk, waiting, sweeping, history, faults>>

\* There is no answer in time, it says ANNOUNCE_SKIP, or there is no target.
AnnounceSkipped(r) ==
    /\ At(r, "asking")
    /\ Moves(r, "unsent") /\ missed' = missed \cup {r}
    /\ UNCHANGED <<gateway, entry, disk, waiting, sweeping, announced, doubted, faults>>

Announces(r) == announced' = [announced EXCEPT ![r] = @ + 1]
Doubts(r) == doubted' = [doubted EXCEPT ![r] = @ + 1]

Send(r) ==
    /\ At(r, "sending") /\ Announces(r) /\ Moves(r, "sent")
    /\ UNCHANGED <<gateway, entry, disk, waiting, sweeping, doubted, missed, faults>>

\* The send fails, though the message may have gone out.
SendFails(r) ==
    /\ At(r, "sending") /\ Fault /\ Moves(r, "unsent")
    /\ (Announces(r) /\ Doubts(r)) \/ UNCHANGED <<announced, doubted>>
    /\ missed' = missed \cup {r}
    /\ UNCHANGED <<gateway, entry, disk, waiting, sweeping>>

\* An entry to delete goes, announced or not; another is marked if it was announced.
FinalizeSubagentAnnounce(r) ==
    /\ flow[r] \in {"sent", "unsent"}
    /\ Moves(r, "none")
    /\ IF ~Known(r) \/ (r \notin Deleting /\ At(r, "unsent"))
       THEN UNCHANGED <<entry, disk>>
       ELSE LET left == IF r \in Deleting THEN NoEntry
                        ELSE [entry[r] EXCEPT !.completed = TRUE]
            IN  Becomes([entry EXCEPT ![r] = left])
    /\ IF At(r, "sent") /\ ~Known(r) THEN Doubts(r) ELSE UNCHANGED doubted
    /\ UNCHANGED <<gateway, waiting, sweeping, announced, missed, faults>>

--------------------------------------------------------------------------------
(* The sweep, which awaits the deletion of each session, and the restart *)

SweepTakes(r) ==
    /\ Known(r)
    /\ entry' = [entry EXCEPT ![r] = NoEntry] /\ sweeping' = TRUE
    /\ missed' = missed \cup {r}
    /\ UNCHANGED <<gateway, disk, waiting, flow, announced, doubted, faults>>

SweepEnds ==
    /\ sweeping /\ sweeping' = FALSE
    /\ Persist(entry)
    /\ UNCHANGED <<gateway, entry, waiting, flow, history, faults>>

\* Fault: announceHandled is believed when it is read from the disk.
Restored_Handled(e) == e

\* Only a completed announcement counts as handled.
Restored(e) == [e EXCEPT !.handled = e.completed]

\* restoreSubagentRunsOnce.  A crash inside the write of the file leaves nothing.
Restart ==
    /\ Fault
    /\ \E torn \in BOOLEAN :
          LET read == [r \in Runs |-> IF torn \/ disk[r] = NoEntry THEN NoEntry ELSE Restored(disk[r])]
              resume == {r \in Runs : read[r] # NoEntry /\ read[r].ended /\ MayBegin(read[r])}
          IN  /\ entry' = [r \in Runs |->
                     IF r \in resume THEN [read[r] EXCEPT !.handled = TRUE] ELSE read[r]]
              /\ disk' = IF resume = {} THEN read ELSE entry'
              /\ flow' = [r \in Runs |-> IF r \in resume THEN "asking" ELSE "none"]
              /\ waiting' = {r \in Runs : read[r] # NoEntry /\ ~read[r].completed /\ ~read[r].ended}
              /\ missed' = missed \cup
                     {r \in Runs : child[r] # "none" /\ (read[r] = NoEntry \/ ~read[r].ended)}
    /\ child' = [r \in Runs |-> IF child[r] = "running" THEN "lost" ELSE child[r]]
    /\ cached' = {} /\ sweeping' = FALSE
    /\ doubted' = [r \in Runs |-> IF At(r, "sent") THEN doubted[r] + 1 ELSE doubted[r]]
    /\ UNCHANGED announced

GoesOn(r) ==
    \/ WaitReturns(r) \/ AnnounceStep(r) \/ AnnounceSkipped(r) \/ Send(r)
    \/ FinalizeSubagentAnnounce(r)

Next ==
    \/ \E r \in Runs :
          \/ ChildStarts(r) \/ RegisterSubagentRun(r) \/ ChildEnds(r) \/ AttemptEnds(r)
          \/ WaitTimesOut(r) \/ GoesOn(r) \/ SendFails(r) \/ SweepTakes(r)
    \/ SweepEnds \/ Restart

\* The gateway answers every call, in time or with an error.
Spec ==
    /\ Init /\ [][Next]_vars
    /\ \A r \in Runs : WF_vars(GoesOn(r))
    /\ WF_vars(SweepEnds)

--------------------------------------------------------------------------------
(* Properties *)

TypeOK ==
    /\ child \in [Runs -> {"none", "running", "over", "lost"}]
    /\ {cached, waiting, missed} \subseteq SUBSET Runs
    /\ entry \in [Runs -> Entries \cup {NoEntry}]
    /\ disk \in [Runs -> Entries \cup {NoEntry}]
    /\ flow \in [Runs -> {"none", "asking", "sending", "sent", "unsent"}]
    /\ sweeping \in BOOLEAN /\ faults \in 0..MaxFaults
    /\ announced \in [Runs -> Nat] /\ doubted \in [Runs -> Nat]

\* The requester hears of a run once, though its end is noticed twice and the run is
\* resumed after a restart; only a message whose end was not recorded, because its
\* send seemed to fail or the process died, can be followed by another.
AnnouncedOnce == \A r \in Runs : announced[r] <= 1 + doubted[r]

\* A registered run whose end the gateway or the registry knows is announced, also
\* after a restart and when it ended before it was registered, unless the announce
\* step is skipped or fails, the entry is archived first, or a restart loses the end.
EveryEndIsAnnounced ==
    \A r \in Runs : (Known(r) /\ (r \in cached \/ entry[r].ended))
                        ~> (announced[r] > 0 \/ r \in missed)

================================================================================
