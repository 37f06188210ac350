------------------------------ MODULE ReplyDelivery ------------------------------
(***************************************************************************)
(* How one reply gets to its chat, from the first block that the agent     *)
(* streams to the return of the dispatch: the block reply pipeline         *)
(* (block-reply-pipeline.ts, block-reply-coalescer.ts), the end of the run *)
(* (agent-runner.ts, agent-runner-payloads.ts), the reply dispatcher       *)
(* (reply-dispatcher.ts, dispatch-from-config.ts) and the typing           *)
(* controller.  The agent, both promise chains and the chat take turns.    *)
(*                                                                         *)
(* The text of a payload is the sequence of blocks it carries; the pipeline*)
(* recognizes a payload by its text.  Blocks are numbered in the order the *)
(* agent says them.                                                        *)
(***************************************************************************)
EXTENDS TypingController, Sequences, SequencesExt

CONSTANTS
    MaxBlocks,      \* bound: blocks that a run says
    Configs,        \* the settings a reply may have, and the blocks its run has to say
    MinChars,       \* coalescing: what an idle flush sends at least, in blocks
    MaxChars,       \* coalescing: what the buffer holds at most, in blocks
    MaxTools,       \* bound: tool results
    MaxAttempts     \* bound: runs of the agent for one reply, by model fallback

ToolResult == 0
Error == MaxBlocks + 1

IsConfig(c) ==
    /\ c.kinds \in Seq({"text", "media", "audio"}) /\ Len(c.kinds) <= MaxBlocks
    /\ {c.routed, c.coalescing, c.quiet} \subseteq BOOLEAN

ASSUME BlocksAssumption == MaxBlocks \in Nat
ASSUME ConfigsAssumption == \A c \in Configs : IsConfig(c)
ASSUME CharsAssumption == MinChars \in Nat \ {0} /\ MaxChars \in Nat /\ MinChars <= MaxChars
ASSUME BoundsAssumption == MaxTools \in Nat /\ MaxAttempts \in Nat \ {0}

VARIABLES
    config,     \* kinds: of the blocks to say; routed: replies go to the originating channel, not
                \* the dispatcher; coalescing: texts are merged; quiet: the typing mode is "never"
    phase,      \* where the reply is
    outcome,    \* how the run ended
    attempts,   \* runs of the agent
    said,       \* blocks of this attempt so far
    withError,  \* the payloads of the run start with an error text
    buffer,     \* bufferText, of the coalescer
    audio,      \* bufferedPayloads
    seenKeys,
    sentKeys,   \* didStream is that one was sent
    chain,      \* the texts on sendChain, of the pipeline: pendingKeys
    inFlight,   \* the head of the chain is being sent
    aborted,
    toolCalls,  \* tool results so far
    toolTasks,  \* pendingToolTasks
    queue,      \* the payloads on sendChain, of the dispatcher
    awaited,    \* how many of them waitForIdle waits for
    finals,     \* final payloads that are still to be sent
    tried       \* the payloads that were sent to a chat, in this order

runVars == <<outcome, attempts, said, withError>>
pipelineVars == <<buffer, audio, seenKeys, sentKeys, chain, inFlight, aborted>>
toolVars == <<toolCalls, toolTasks>>
sendVars == <<queue, awaited, finals, tried>>
vars == <<config, phase, runVars, pipelineVars, toolVars, sendVars, typingVars>>

Text == Seq(0..Error)
Payload(k, text) == [kind |-> k, text |-> text]
Payloads == [kind : {"tool", "block", "final"}, text : Text]

\* The state keeps its types; a text is marked as sent only after it was seen.
TypeOK ==
    /\ config \in Configs
    /\ phase \in {"running", "flushing", "sending", "waiting", "done", "threw"}
    /\ outcome \in {"none", "success", "failed", "queued"}
    /\ attempts \in 1..MaxAttempts /\ said \in 0..MaxBlocks /\ withError \in BOOLEAN
    /\ buffer \in Text /\ Len(buffer) < MaxChars
    /\ audio \in Seq(Text) /\ ToSet(audio) \subseteq seenKeys /\ IsInjective(audio)
    /\ seenKeys \subseteq Text /\ chain \in Seq(Text)
    /\ sentKeys \subseteq seenKeys /\ ToSet(chain) \subseteq seenKeys
    /\ sentKeys \cap ToSet(chain) = {} /\ IsInjective(chain)
    /\ inFlight \in BOOLEAN /\ (inFlight => chain # <<>>) /\ aborted \in BOOLEAN
    /\ toolTasks \in 0..toolCalls /\ toolCalls \in 0..MaxTools
    /\ queue \in Seq(Payloads) /\ tried \in Seq(Payloads) /\ awaited \in 0..Len(queue)
    /\ finals \in Seq(Text)
    /\ TypingTypeOK

Init ==
    /\ config \in Configs
    /\ phase = "running" /\ outcome = "none"
    /\ attempts = 1 /\ said = 0 /\ withError = FALSE
    /\ buffer = <<>> /\ audio = <<>>
    /\ seenKeys = {} /\ sentKeys = {} /\ chain = <<>>
    /\ inFlight = FALSE /\ aborted = FALSE
    /\ toolCalls = 0 /\ toolTasks = 0
    /\ queue = <<>> /\ awaited = 0 /\ finals = <<>> /\ tried = <<>>
    /\ TypingInit

(***************************************************************************)
(* The pipeline as a value: what was seen and what is on the chain.        *)
(* Chained is sendPayload of a text that was seen before, SendPayload of a *)
(* new one.                                                                *)
(***************************************************************************)
Pipe == [seen |-> seenKeys, chain |-> chain]

Chained(p, key) ==
    IF key \in sentKeys \cup ToSet(p.chain) THEN p
    ELSE [p EXCEPT !.chain = Append(@, key)]

SendPayload(p, key) ==
    IF aborted \/ key \in p.seen THEN p
    ELSE Chained([p EXCEPT !.seen = @ \cup {key}], key)

\* flush of the coalescer: sends what is buffered.
Flushed(p, text) == IF text = <<>> THEN p ELSE SendPayload(p, text)

\* flushBuffered: sends the audio that was kept back, one payload after the other.
AudioFlushed(p) ==
    LET sent[n \in 0..Len(audio)] == IF n = 0 THEN p ELSE Chained(sent[n - 1], audio[n])
    IN IF aborted THEN p ELSE sent[Len(audio)]

PipeBecomes(p) == seenKeys' = p.seen /\ chain' = p.chain

FlushAll ==
    /\ PipeBecomes(AudioFlushed(Flushed(Pipe, buffer)))
    /\ buffer' = <<>> /\ audio' = <<>>
    /\ UNCHANGED <<sentKeys, inFlight, aborted>>

(***************************************************************************)
(* enqueue, for each kind of block.                                        *)
(***************************************************************************)
IsNew(key) == key \notin seenKeys \cup ToSet(chain)

EnqueueAudio(key) ==
    /\ IF IsNew(key)
       THEN seenKeys' = seenKeys \cup {key} /\ audio' = Append(audio, key)
       ELSE UNCHANGED <<seenKeys, audio>>
    /\ UNCHANGED <<buffer, chain>>

\* Fault: the merged text that waits is overtaken.
EnqueueMedia_Overtakes(key) ==
    /\ PipeBecomes(SendPayload(Pipe, key))
    /\ UNCHANGED <<buffer, audio>>

EnqueueMedia(key) ==
    /\ PipeBecomes(SendPayload(Flushed(Pipe, buffer), key))
    /\ buffer' = <<>>
    /\ UNCHANGED audio

EnqueueText(key) ==
    /\ UNCHANGED audio
    /\ \/ ~config.coalescing /\ PipeBecomes(SendPayload(Pipe, key)) /\ UNCHANGED buffer
       \/ /\ config.coalescing
          /\ LET merged == buffer \o key IN
             \/ /\ ~IsNew(key) \/ ToSet(key) \subseteq ToSet(buffer)
                /\ UNCHANGED <<buffer, seenKeys, chain>>
             \/ /\ IsNew(key) /\ ~(ToSet(key) \subseteq ToSet(buffer))
                /\ IF Len(merged) >= MaxChars
                   THEN PipeBecomes(Flushed(Pipe, merged)) /\ buffer' = <<>>
                   ELSE buffer' = merged /\ UNCHANGED <<seenKeys, chain>>

Enqueue(b) ==
    /\ UNCHANGED <<sentKeys, inFlight, aborted>>
    /\ \/ aborted /\ UNCHANGED <<buffer, audio, seenKeys, chain>>
       \/ /\ ~aborted
          /\ \/ config.kinds[b] = "audio" /\ EnqueueAudio(<<b>>)
             \/ config.kinds[b] = "media" /\ EnqueueMedia(<<b>>)
             \/ config.kinds[b] = "text" /\ EnqueueText(<<b>>)

(***************************************************************************)
(* The agent.  What it does may start the typing loop or refresh its time  *)
(* to live, as the typing mode has it.                                     *)
(***************************************************************************)
SignalTyping ==
    \/ ~config.quiet /\ (StartTypingLoop \/ RefreshTypingTtl)
    \/ UNCHANGED typingVars

EmitBlock ==
    /\ phase = "running" /\ said < Len(config.kinds)
    /\ said' = said + 1
    /\ Enqueue(said + 1)
    /\ SignalTyping
    /\ UNCHANGED <<config, phase, outcome, attempts, withError, toolVars, sendVars>>

\* A signal of its own: a partial text, a reasoning delta, a late tool event.
Signal ==
    /\ ~config.quiet
    /\ StartTypingLoop \/ (phase = "running" /\ RefreshTypingTtl)
    /\ UNCHANGED <<config, phase, runVars, pipelineVars, toolVars, sendVars>>

\* A tool starts: what was said so far is sent first.
ToolStarts ==
    /\ phase = "running"
    /\ buffer # <<>> \/ audio # <<>>
    /\ FlushAll
    /\ SignalTyping
    /\ UNCHANGED <<config, phase, runVars, toolVars, sendVars>>

ToolReports ==
    /\ phase = "running" /\ toolCalls < MaxTools
    /\ toolCalls' = toolCalls + 1 /\ toolTasks' = toolTasks + 1
    /\ SignalTyping
    /\ UNCHANGED <<config, phase, runVars, pipelineVars, sendVars>>

\* The run failed, or its tools did, and starts again with another model.
FallBack ==
    /\ phase = "running" /\ attempts < MaxAttempts
    /\ attempts' = attempts + 1 /\ said' = 0
    /\ UNCHANGED <<config, phase, outcome, withError, pipelineVars, toolVars, sendVars, typingVars>>

\* The idle timer of the coalescer; a short buffer waits for more.
IdleFlush ==
    /\ phase = "running" /\ buffer # <<>>
    /\ aborted \/ Len(buffer) >= MinChars
    /\ PipeBecomes(Flushed(Pipe, buffer))
    /\ buffer' = <<>>
    /\ UNCHANGED <<config, phase, runVars, audio, sentKeys, inFlight, aborted,
                   toolVars, sendVars, typingVars>>

(***************************************************************************)
(* The two chains.  Through the dispatcher a block is sent as soon as it   *)
(* is handed over; on a route the pipeline waits for it, up to a timeout.  *)
(***************************************************************************)
LeaveChain == chain' = Tail(chain)

SendBlock ==
    /\ chain # <<>> /\ ~inFlight
    /\ \/ /\ aborted
          /\ LeaveChain
          /\ UNCHANGED <<sentKeys, inFlight, queue, tried>>
       \/ /\ ~aborted /\ ~config.routed
          /\ queue' = Append(queue, Payload("block", Head(chain)))
          /\ sentKeys' = sentKeys \cup {Head(chain)}
          /\ LeaveChain
          /\ UNCHANGED <<inFlight, tried>>
       \/ /\ ~aborted /\ config.routed
          /\ tried' = Append(tried, Payload("block", Head(chain)))
          /\ inFlight' = TRUE
          /\ UNCHANGED <<sentKeys, chain, queue>>
    /\ UNCHANGED <<config, phase, runVars, buffer, audio, seenKeys, aborted,
                   toolVars, awaited, finals, typingVars>>

\* The route answers; a refusal is logged and counts as sent.
BlockRouted ==
    /\ inFlight /\ inFlight' = FALSE
    /\ sentKeys' = sentKeys \cup {Head(chain)}
    /\ LeaveChain
    /\ UNCHANGED <<config, phase, runVars, buffer, audio, seenKeys, aborted,
                   toolVars, sendVars, typingVars>>

BlockTimesOut ==
    /\ inFlight /\ inFlight' = FALSE
    /\ aborted' = TRUE
    /\ LeaveChain
    /\ UNCHANGED <<config, phase, runVars, buffer, audio, seenKeys, sentKeys,
                   toolVars, sendVars, typingVars>>

\* A tool result is sent once the chat knows that the assistant types, or lost when it refuses.
ToolTaskEnds ==
    /\ toolTasks > 0
    /\ toolTasks' = toolTasks - 1
    /\ LET p == Payload("tool", <<ToolResult>>) IN
       \/ ~config.routed /\ queue' = Append(queue, p) /\ UNCHANGED tried
       \/ config.routed /\ tried' = Append(tried, p) /\ UNCHANGED queue
       \/ UNCHANGED <<queue, tried>>
    /\ UNCHANGED <<config, phase, runVars, pipelineVars, toolCalls, awaited, finals, typingVars>>

\* The dispatcher delivers its next payload, and tells when none is left.
Deliver ==
    /\ queue # <<>>
    /\ tried' = Append(tried, Head(queue))
    /\ queue' = Tail(queue)
    /\ awaited' = IF awaited = 0 THEN 0 ELSE awaited - 1
    /\ IF Tail(queue) = <<>> THEN MarkDispatchIdle ELSE UNCHANGED typingVars
    /\ UNCHANGED <<config, phase, runVars, pipelineVars, toolVars, finals>>

(***************************************************************************)
(* The end of the run.                                                     *)
(***************************************************************************)
AgentEnds ==
    /\ phase = "running"
    /\ phase' = "flushing" /\ outcome' = "success"
    /\ withError' \in BOOLEAN
    /\ FlushAll
    /\ UNCHANGED <<config, attempts, said, toolVars, sendVars, typingVars>>

\* The run ends with an exception that is told to the chat; nothing is flushed.
AgentFails ==
    /\ phase = "running"
    /\ phase' = "sending" /\ outcome' = "failed"
    /\ finals' = <<<<Error>>>>
    /\ MarkRunComplete
    /\ UNCHANGED <<config, attempts, said, withError, pipelineVars, toolVars,
                   queue, awaited, tried>>

\* The message waits for the run that is under way, or is steered into it.
QueuedInstead ==
    /\ phase = "running" /\ attempts = 1 /\ said = 0 /\ toolCalls = 0
    /\ phase' = "sending" /\ outcome' = "queued"
    /\ Cleanup
    /\ UNCHANGED <<config, attempts, said, withError, pipelineVars, toolVars, sendVars>>

\* An exception that nobody catches, before the run is guarded or after.
Throws ==
    /\ phase \in {"running", "flushing"}
    /\ phase' = "threw"
    /\ MarkRunComplete \/ (said = 0 /\ attempts = 1 /\ UNCHANGED typingVars)
    /\ UNCHANGED <<config, runVars, pipelineVars, toolVars, sendVars>>

\* The texts of the run, and the ones among them that are still to be sent.
RunPayloads ==
    (IF withError THEN <<<<Error>>>> ELSE <<>>) \o [b \in 1..said |-> <<b>>]
\* Fault: a stream that was cut short counts as complete.
ShouldDropFinalPayloads_Aborted == sentKeys # {}
\* Fault: only payloads that were streamed word for word are dropped.
ShouldDropFinalPayloads_Never == FALSE
ShouldDropFinalPayloads == sentKeys # {} /\ ~aborted
BuildReplyPayloads ==
    LET unsent[n \in 0..Len(RunPayloads)] ==
            IF n = 0 THEN <<>>
            ELSE IF RunPayloads[n] \in sentKeys THEN unsent[n - 1]
                 ELSE Append(unsent[n - 1], RunPayloads[n])
    IN IF ShouldDropFinalPayloads THEN <<>> ELSE unsent[Len(RunPayloads)]

RunReturns ==
    /\ phase = "flushing" /\ chain = <<>> /\ toolTasks = 0
    /\ phase' = "sending"
    /\ finals' = BuildReplyPayloads
    /\ MarkRunComplete
    /\ UNCHANGED <<config, runVars, pipelineVars, toolVars, queue, awaited, tried>>

(***************************************************************************)
(* The dispatch of the final payloads.                                     *)
(***************************************************************************)
SendFinals ==
    /\ phase = "sending"
    /\ \/ /\ config.routed /\ finals # <<>>
          /\ tried' = Append(tried, Payload("final", Head(finals)))
          /\ finals' = Tail(finals)
          /\ UNCHANGED <<phase, queue, awaited>>
       \/ /\ ~config.routed \/ finals = <<>>
          /\ queue' = queue \o [i \in DOMAIN finals |-> Payload("final", finals[i])]
          /\ awaited' = Len(queue')
          /\ finals' = <<>>
          /\ phase' = "waiting"
          /\ UNCHANGED tried
    /\ UNCHANGED <<config, runVars, pipelineVars, toolVars, typingVars>>

DispatchReturns ==
    /\ phase = "waiting" /\ awaited = 0
    /\ phase' = "done"
    /\ MarkDispatchIdle
    /\ UNCHANGED <<config, runVars, pipelineVars, toolVars, sendVars>>

TypingStep == TypingSteps /\ UNCHANGED <<config, phase, runVars, pipelineVars, toolVars, sendVars>>

RunEnds == AgentEnds \/ AgentFails \/ QueuedInstead
Settles == SendBlock \/ ToolTaskEnds \/ Deliver
Ends == RunReturns \/ SendFinals \/ DispatchReturns

Next ==
    \/ EmitBlock \/ Signal \/ ToolStarts \/ ToolReports \/ FallBack \/ IdleFlush
    \/ RunEnds \/ Throws \/ BlockRouted \/ BlockTimesOut \/ Settles \/ Ends \/ TypingStep

(***************************************************************************)
(* A run ends, by its own timeout if need be; the chains go on; a chat     *)
(* answers, except for a streamed block on a route, which has a timeout;   *)
(* timers fire.                                                            *)
(***************************************************************************)
Spec ==
    /\ Init /\ [][Next]_vars
    /\ WF_vars(RunEnds) /\ WF_vars(BlockTimesOut) /\ WF_vars(Settles) /\ WF_vars(Ends) /\ WF_vars(TypingStep)

(***************************************************************************)
(* Properties.                                                             *)
(***************************************************************************)
Blocks == DOMAIN config.kinds
Succeeded == phase = "done" /\ outcome = "success"
Carries(i, b) == b \in ToSet(tried[i].text)
WasTried(b) == \E i \in DOMAIN tried : Carries(i, b)

\* When the dispatch of a reply returns, all that the agent said was sent to the chat: streamed,
\* or as a final payload when streaming was cut short.
NothingLost == Succeeded => \A b \in 1..said : WasTried(b)

\* No block is sent twice, unless a send timed out or merged texts are said again by another attempt.
NoBlockTwice ==
    \/ aborted \/ (config.coalescing /\ attempts > 1)
    \/ \A b \in Blocks : \A i, j \in DOMAIN tried : Carries(i, b) /\ Carries(j, b) => i = j

\* Blocks are sent in the order the agent said them (audio waits for the end by intent), and the
\* final payloads after every block and tool result.
First(b) ==
    CHOOSE i \in DOMAIN tried : Carries(i, b) /\ \A j \in DOMAIN tried : Carries(j, b) => i <= j
SentInOrder ==
    /\ \A b, c \in {d \in Blocks : config.kinds[d] # "audio" /\ WasTried(d)} : b < c => First(b) <= First(c)
    /\ outcome = "success" =>
          \A i, j \in DOMAIN tried : i < j /\ tried[i].kind = "final" => tried[j].kind = "final"

\* Once the dispatch returned the chat is not told that the assistant types, whatever comes late.
TypingEndsWithReply == phase = "done" => ~Typing

\* The indicator ends for good, also when the dispatch throws and nobody reports that it is idle.
TypingStops == <>[]~Typing

\* agent-runner-payloads.ts:83 has it that final payloads are dropped only when block streaming
\* succeeded end to end: a text of the run that was not streamed is sent at the end.
UnstreamedIsSent ==
    Succeeded => \A i \in DOMAIN RunPayloads : \A b \in ToSet(RunPayloads[i]) : WasTried(b)
================================================================================
