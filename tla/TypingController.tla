---------------------------- MODULE TypingController ----------------------------
(***************************************************************************)
(* The typing indicator of one reply (auto-reply/reply/typing.ts).  A loop *)
(* tells the chat every few seconds that the assistant is typing.  It      *)
(* starts at the first sign of activity and stops when the run is complete *)
(* and the reply dispatcher is idle, or when nothing happened for the time *)
(* to live.  Once stopped, the controller is sealed.                       *)
(*                                                                         *)
(* Starting the loop waits for the first call to the chat, so calls of     *)
(* startTypingLoop overlap with each other and with the end of the reply.  *)
(* The steps here are composed with those of a reply by ReplyDelivery.     *)
(***************************************************************************)
EXTENDS Naturals

CONSTANT MaxIntervals   \* bound: interval timers that exist at once

ASSUME MaxIntervalsAssumption == MaxIntervals \in Nat \ {0}

VARIABLES
    started,        \* the first call to the chat was made
    active,
    runComplete,
    dispatchIdle,
    sealed,
    typingTimer,    \* whether typingTimer holds an interval
    ttlTimer,       \* whether the time to live is counted
    intervals,      \* interval timers that exist, held or not
    waiting,        \* a call of startTypingLoop waits for the chat
    resuming        \* calls of startTypingLoop that found the loop started

typingVars == <<started, active, runComplete, dispatchIdle, sealed, typingTimer,
                ttlTimer, intervals, waiting, resuming>>

TypingTypeOK ==
    /\ {started, active, runComplete, dispatchIdle, sealed, typingTimer, ttlTimer,
        waiting} \subseteq BOOLEAN
    /\ intervals \in 0..MaxIntervals + 1
    /\ resuming \in 0..MaxIntervals
    /\ active => started /\ ~sealed
    /\ typingTimer => intervals > 0

TypingInit ==
    /\ started = FALSE /\ active = FALSE
    /\ runComplete = FALSE /\ dispatchIdle = FALSE /\ sealed = FALSE
    /\ typingTimer = FALSE /\ ttlTimer = FALSE
    /\ intervals = 0 /\ waiting = FALSE /\ resuming = 0

\* Whether the chat is told that the assistant is typing.
Typing == ~sealed /\ (waiting \/ intervals > 0)

(***************************************************************************)
(* Cleanup stops the timers that the controller holds and seals it.        *)
(***************************************************************************)
Cleanup ==
    \/ sealed /\ UNCHANGED typingVars
    \/ /\ ~sealed
       /\ sealed' = TRUE
       /\ typingTimer' = FALSE /\ ttlTimer' = FALSE
       /\ intervals' = IF typingTimer THEN intervals - 1 ELSE intervals
       /\ started' = FALSE /\ active' = FALSE
       /\ runComplete' = FALSE /\ dispatchIdle' = FALSE
       /\ UNCHANGED <<waiting, resuming>>

\* Fault: the end of the run also ends the time to live.
MarkRunComplete_EndsTtl ==
    IF active /\ dispatchIdle
    THEN Cleanup
    ELSE /\ runComplete' = TRUE /\ ttlTimer' = FALSE
         /\ UNCHANGED <<started, active, dispatchIdle, sealed, typingTimer, intervals,
                        waiting, resuming>>

MarkRunComplete ==
    IF active /\ dispatchIdle
    THEN Cleanup
    ELSE /\ runComplete' = TRUE
         /\ UNCHANGED <<started, active, dispatchIdle, sealed, typingTimer, ttlTimer,
                        intervals, waiting, resuming>>

MarkDispatchIdle ==
    IF active /\ runComplete
    THEN Cleanup
    ELSE /\ dispatchIdle' = TRUE
         /\ UNCHANGED <<started, active, runComplete, sealed, typingTimer, ttlTimer,
                        intervals, waiting, resuming>>

\* Fault: a late callback starts the loop after the run.
MayStart_Late == ~sealed

(***************************************************************************)
(* startTypingLoop.  The first call tells the chat and waits; a call that  *)
(* comes while it waits finds no interval yet and sets one of its own.     *)
(* Nothing starts after the end of the run.                                *)
(***************************************************************************)
MayStart == ~sealed /\ ~runComplete

StartTypingLoop ==
    \/ ~MayStart /\ UNCHANGED typingVars
    \/ /\ MayStart
       /\ ttlTimer' = TRUE
       /\ \/ /\ typingTimer
             /\ UNCHANGED <<started, active, waiting, resuming>>
          \/ /\ ~typingTimer /\ ~started
             /\ started' = TRUE /\ active' = TRUE /\ waiting' = TRUE
             /\ UNCHANGED resuming
          \/ /\ ~typingTimer /\ started
             /\ intervals + resuming < MaxIntervals
             /\ resuming' = resuming + 1
             /\ UNCHANGED <<started, active, waiting>>
       /\ UNCHANGED <<runComplete, dispatchIdle, sealed, typingTimer, intervals>>

RefreshTypingTtl ==
    /\ ~sealed
    /\ ttlTimer' = TRUE
    /\ UNCHANGED <<started, active, runComplete, dispatchIdle, sealed, typingTimer,
                   intervals, waiting, resuming>>

(***************************************************************************)
(* The continuations of startTypingLoop.  Nothing is checked again after   *)
(* the wait.                                                               *)
(***************************************************************************)
SetInterval ==
    /\ typingTimer' = TRUE
    /\ intervals' = intervals + 1
    /\ UNCHANGED <<started, active, runComplete, dispatchIdle, sealed, ttlTimer>>

ChatAnswers ==
    /\ waiting
    /\ waiting' = FALSE
    /\ UNCHANGED resuming
    /\ SetInterval

\* The chat refuses the indicator: the caller gets the error, no interval is set.
ChatRefuses ==
    /\ waiting
    /\ waiting' = FALSE
    /\ UNCHANGED <<started, active, runComplete, dispatchIdle, sealed, typingTimer,
                   ttlTimer, intervals, resuming>>

LoopResumes ==
    /\ resuming > 0
    /\ resuming' = resuming - 1
    /\ UNCHANGED waiting
    /\ SetInterval

(***************************************************************************)
(* The time to live ends.  It is minutes long: a call to the chat ends     *)
(* before it does.                                                         *)
(***************************************************************************)
TtlFires ==
    /\ ttlTimer
    /\ ~waiting /\ resuming = 0
    /\ IF typingTimer
       THEN Cleanup
       ELSE /\ ttlTimer' = FALSE
            /\ UNCHANGED <<started, active, runComplete, dispatchIdle, sealed,
                           typingTimer, intervals, waiting, resuming>>

TypingSteps == ChatAnswers \/ ChatRefuses \/ LoopResumes \/ TtlFires
================================================================================
