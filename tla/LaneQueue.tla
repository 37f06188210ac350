------------------------------- MODULE LaneQueue -------------------------------
(***************************************************************************)
(* What a command lane promises to the code that uses it: tasks wait in    *)
(* the order they were enqueued, the oldest one starts whenever the lane   *)
(* has room, a task that has started finishes at most once, and only the   *)
(* tasks that still wait can be dropped.  CommandQueue, which follows      *)
(* src/process/command-queue.ts step by step, implements this.             *)
(***************************************************************************)
EXTENDS Integers, Sequences, FiniteSets

CONSTANTS Lanes, Tasks, Widths

VARIABLES
    waiting,    \* [Lanes -> Seq(Tasks)]      tasks not started, oldest first
    running,    \* [Lanes -> SUBSET Tasks]    tasks started and not finished
    limit,      \* [Lanes -> Widths]          how many may run at once
    outcome     \* [Tasks -> STRING]          what the caller will see

vars == <<waiting, running, limit, outcome>>

Init ==
    /\ waiting = [l \in Lanes |-> <<>>]
    /\ running = [l \in Lanes |-> {}]
    /\ limit = [l \in Lanes |-> 1]
    /\ outcome = [t \in Tasks |-> "new"]

Submit(l, t) ==
    /\ outcome[t] = "new"
    /\ outcome' = [outcome EXCEPT ![t] = "open"]
    /\ waiting' = [waiting EXCEPT ![l] = Append(@, t)]
    /\ UNCHANGED <<running, limit>>

HasRoom(l) == waiting[l] # <<>> /\ Cardinality(running[l]) < limit[l]

Start(l) ==
    /\ HasRoom(l)
    /\ running' = [running EXCEPT ![l] = @ \cup {Head(waiting[l])}]
    /\ waiting' = [waiting EXCEPT ![l] = Tail(@)]
    /\ UNCHANGED <<limit, outcome>>

Finish(l, t) ==
    /\ t \in running[l]
    /\ running' = [running EXCEPT ![l] = @ \ {t}]
    /\ \E o \in {"ok", "error"} : outcome' = [outcome EXCEPT ![t] = o]
    /\ UNCHANGED <<waiting, limit>>

Resize(l) ==
    /\ \E n \in Widths : limit' = [limit EXCEPT ![l] = n]
    /\ UNCHANGED <<waiting, running, outcome>>

\* The tasks that wait are forgotten: nobody ever answers their callers.
Drop(l) ==
    /\ waiting' = [waiting EXCEPT ![l] = <<>>]
    /\ outcome' = [t \in Tasks |->
                     IF \E i \in DOMAIN waiting[l] : waiting[l][i] = t
                     THEN "dropped" ELSE outcome[t]]
    /\ UNCHANGED <<running, limit>>

Next ==
    \E l \in Lanes :
        \/ Start(l) \/ Resize(l) \/ Drop(l)
        \/ \E t \in Tasks : Submit(l, t) \/ Finish(l, t)

SafetySpec == Init /\ [][Next]_vars
Spec == SafetySpec /\ \A l \in Lanes : WF_vars(Start(l))
================================================================================
