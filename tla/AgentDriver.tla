---------------------------- MODULE AgentDriver ----------------------------
(***************************************************************************)
(* ReactLoopAgent (packages/core/agent-loop/src/agent.ts) over its durable *)
(* inbox (inbox.ts): one driver coroutine, its callers (send, cancel,      *)
(* runMaintenance, whenIdle, inbox edits), and the event log it writes.    *)
(*                                                                         *)
(* JavaScript runs one synchronous segment at a time.  `pc` names where    *)
(* the driver coroutine is suspended or, for the Quiet labels, where an    *)
(* append has just run its session/event listeners.  Callers run whenever  *)
(* the driver is suspended, and reentrantly from inbox, status and error   *)
(* observers; `calls` is the stack of caller operations whose observers    *)
(* are running, `replay` the tail of kick() after agent/status = idle.     *)
(***************************************************************************)
EXTENDS Integers, Sequences, FiniteSets, SequencesExt

CONSTANTS Message,        \* identified user messages, each sent at most once
          Outcomes,       \* what listeners, model and tools may do (see AllOutcomes)
          MaxStep,        \* last step of a turn whose response may still call tools
          MaxRetry,       \* request-error retries of one step
          MaxCancel,      \* cancel() calls
          MaxMaintenance, \* runMaintenance() calls
          MaxNesting      \* nested caller operations in observers

AllOutcomes == {"reject",       \* a pre-step listener rejects
                "rewrite",      \* a pre-step listener drops claimed messages
                "context",      \* runtime context joins the batch
                "fail",         \* an awaited hook, adapter or tool scheduler throws
                "error",        \* the stream finishes with an error
                "max-tokens",   \* the stream finishes at the token ceiling
                "tools",        \* the response calls tools
                "toolContext"}  \* a tool result carries additional context

ASSUME OutcomesAssumption == Outcomes \subseteq AllOutcomes
ASSUME BoundsAssumption == /\ MaxStep \in Nat /\ MaxRetry \in Nat /\ MaxCancel \in Nat
                           /\ MaxMaintenance \in Nat /\ MaxNesting \in Nat

VARIABLES
    phase, turn, step, cause, wakeRequested,              \* Phase
    pc, turnEnds, target, stepEnd, exit, attempts, batch, entry, content,  \* kick, turn, step
    nextTurn, nextStep,                                   \* the inbox projection
    calls, replay,                                        \* synchronous callers
    activity, exiting, waiter,                            \* activityDone and whenIdle
    trace,                                                \* the session log's cursor
    unsent, queued, admitted, disposing, cancels, maintenances \* environment and history

phaseVars    == <<phase, turn, step, cause, wakeRequested>>
turnVars     == <<turnEnds, target, stepEnd, exit, attempts, batch, entry, content>>
inboxVars    == <<nextTurn, nextStep>>
callerVars   == <<calls, replay>>
activityVars == <<activity, exiting, waiter>>
historyVars  == <<unsent, queued, admitted, disposing, cancels, maintenances>>
vars == <<phaseVars, pc, turnVars, inboxVars, callerVars, activityVars, trace, historyVars>>

Log == INSTANCE TurnLog WITH CallIds <- {}

NotWaiting == -1
Returned == -2

aborted == cause # "none"
HasPending == nextTurn # <<>> \/ nextStep # <<>>
Pending == ToSet(nextTurn) \union ToSet(nextStep)

\* Labels that follow an append: only its session/event listeners run there,
\* and Session.append rejects reentry, so they cannot touch the inbox.
Quiet == {"boundary", "afterStep", "turnFailed", "closeTurn", "turnClosed"}
\* throwError() publishes agent/error just before the turn closes.
MayCall == (pc \notin Quiet \/ (pc = "closeTurn" /\ turnEnds = "error"))
           /\ Len(calls) < MaxNesting

Synchronous == calls # <<>> \/ replay
Runs(label) == pc = label /\ ~Synchronous
Write(e) == trace' = Log!Apply(trace, e)
InTurn(type) == Log!Event(type, turn, Log!None)
InStep(type) == Log!Event(type, turn, step)

Init ==
    /\ phase = "idle" /\ turn = 0 /\ step = 0 /\ cause = "none" /\ wakeRequested = FALSE
    /\ pc = "idle" /\ turnEnds = "none" /\ target = "next-turn" /\ stepEnd = "none"
    /\ exit = "continue" /\ attempts = 0 /\ batch = <<>> /\ entry = "enter" /\ content = FALSE
    /\ nextTurn = <<>> /\ nextStep = <<>>
    /\ calls = <<>> /\ replay = FALSE
    /\ activity = 0 /\ exiting = {} /\ waiter = NotWaiting
    /\ trace = Log!FreshTrace
    /\ unsent = Message /\ queued = <<>> /\ admitted = <<>> /\ disposing = FALSE
    /\ cancels = 0 /\ maintenances = 0

-----------------------------------------------------------------------------
(* Callers: send, cancel, runMaintenance, whenIdle and inbox edits.        *)

\* Mutant: a new turn of the same driver keeps counting steps.
FreshPhaseKeepingStep == step' = step /\ cause' = "none" /\ wakeRequested' = FALSE

\* A phase object starts with no step, no abort and no latch.
FreshPhase == step' = 0 /\ cause' = "none" /\ wakeRequested' = FALSE

\* Mutant: a wake behind a disposal is latched too.
LatchesDisposal(afterAbort) == phase = "maintenance" \/ afterAbort

\* The wakes that wakeDriver() keeps for the end of the current activity.
Latches(afterAbort) == cause # "disposed" /\ (phase = "maintenance" \/ afterAbort)

\* wakeDriver(): start a driver, or latch the wake behind an activity that cannot claim it.
WakeDriver(afterAbort) ==
    \/ /\ phase # "idle"
       /\ wakeRequested' = (wakeRequested \/ Latches(afterAbort))
       /\ UNCHANGED <<phase, turn, step, cause, pc, activity>>
    \/ /\ phase = "idle"
       /\ phase' = "running" /\ FreshPhase
       /\ pc' = "begin" /\ activity' = activity + 1
       /\ UNCHANGED turn

\* inbox.splice(target, Infinity, 0, [message])
Enqueue(m, to) ==
    /\ m \in unsent /\ unsent' = unsent \ {m}
    /\ IF to = "next-turn"
       THEN /\ nextTurn' = Append(nextTurn, m) /\ queued' = Append(queued, m)
            /\ UNCHANGED nextStep
       ELSE nextStep' = Append(nextStep, m) /\ UNCHANGED <<nextTurn, queued>>

\* send(), up to and including the inbox observers it notifies.  The abort
\* classification is captured before the insertion.
Send(m, to, wakeup) ==
    LET wakingAfterAbort == wakeup /\ phase # "idle" /\ aborted
    IN  /\ MayCall
        /\ Enqueue(m, IF wakingAfterAbort THEN "next-turn" ELSE to)
        /\ calls' = IF wakeup THEN <<[op |-> "wake", message |-> m, afterAbort |-> wakingAfterAbort]>> \o calls
                    ELSE calls
        /\ UNCHANGED <<phaseVars, pc, turnVars, replay, activityVars, trace,
                       admitted, disposing, cancels, maintenances>>

\* send() after its observers returned.
SendWakes ==
    /\ calls # <<>> /\ Head(calls).op = "wake"
    /\ calls' = Tail(calls)
    /\ WakeDriver(Head(calls).afterAbort)
    /\ UNCHANGED <<turnVars, inboxVars, replay, exiting, waiter, trace, historyVars>>

\* The abort of cancel(): the first cause wins.
Abort(c) ==
    /\ cause' = IF phase # "idle" /\ ~aborted THEN c ELSE cause
    /\ disposing' = (disposing \/ (c = "disposed" /\ phase # "idle"))

\* cancel(cause, {keepInbox: true}); with nothing pending it is also what
\* cancel(cause) does, apart from dropping the latch.
CancelKeeping(c) ==
    /\ cancels < MaxCancel /\ cancels' = cancels + 1
    /\ Abort(c)
    /\ UNCHANGED <<phase, turn, step, wakeRequested, pc, turnVars, inboxVars, callerVars,
                   activityVars, trace, unsent, queued, admitted, maintenances>>

\* cancel(cause): clear() publishes each discarded message before it clears
\* the second list and before the abort, so observers run at both points.
CancelClearing(c) ==
    /\ HasPending /\ MayCall
    /\ cancels < MaxCancel /\ cancels' = cancels + 1
    /\ IF nextStep # <<>>
       THEN /\ nextStep' = <<>> /\ UNCHANGED nextTurn
            /\ calls' = <<[op |-> "clear", cause |-> c]>> \o calls
       ELSE /\ nextTurn' = <<>> /\ UNCHANGED nextStep
            /\ calls' = <<[op |-> "abort", cause |-> c]>> \o calls
    /\ UNCHANGED <<phaseVars, pc, turnVars, replay, activityVars, trace,
                   unsent, queued, admitted, disposing, maintenances>>

CancelClearsTurns ==
    /\ calls # <<>> /\ Head(calls).op = "clear" /\ nextTurn # <<>>
    /\ nextTurn' = <<>>
    /\ calls' = <<[op |-> "abort", cause |-> Head(calls).cause]>> \o Tail(calls)
    /\ UNCHANGED <<phaseVars, pc, turnVars, nextStep, replay, activityVars, trace, historyVars>>

\* Both lists are cleared: drop the latch, abort.
CancelAborts ==
    /\ calls # <<>>
    /\ Head(calls).op = "abort" \/ (Head(calls).op = "clear" /\ nextTurn = <<>>)
    /\ calls' = Tail(calls)
    /\ wakeRequested' = FALSE
    /\ Abort(Head(calls).cause)
    /\ UNCHANGED <<phase, turn, step, pc, turnVars, inboxVars, replay, activityVars, trace,
                   unsent, queued, admitted, cancels, maintenances>>

\* cancel(cause) with an empty inbox: also possible from session/event listeners.
CancelEmpty(c) ==
    /\ ~HasPending
    /\ cancels < MaxCancel /\ cancels' = cancels + 1
    /\ wakeRequested' = FALSE
    /\ Abort(c)
    /\ UNCHANGED <<phase, turn, step, pc, turnVars, inboxVars, callerVars, activityVars, trace,
                   unsent, queued, admitted, maintenances>>

\* inbox.remove(messageId), by the index locate() found.
RemoveQueued ==
    /\ MayCall
    /\ \/ \E i \in 1..Len(nextTurn) : nextTurn' = RemoveAt(nextTurn, i) /\ UNCHANGED nextStep
       \/ \E i \in 1..Len(nextStep) : nextStep' = RemoveAt(nextStep, i) /\ UNCHANGED nextTurn
    /\ UNCHANGED <<phaseVars, pc, turnVars, callerVars, activityVars, trace, historyVars>>

RunMaintenance ==
    /\ MayCall /\ phase = "idle"
    /\ maintenances < MaxMaintenance /\ maintenances' = maintenances + 1
    /\ phase' = "maintenance" /\ cause' = "none" /\ wakeRequested' = FALSE
    /\ activity' = activity + 1
    /\ UNCHANGED <<turn, step, pc, turnVars, inboxVars, callerVars, exiting, waiter, trace,
                   unsent, queued, admitted, disposing, cancels>>

\* The finally of runMaintenance(): idle, then the latched replay, then done.resolve().
MaintenanceEnds ==
    /\ phase = "maintenance" /\ ~Synchronous
    /\ IF cause # "disposed" /\ wakeRequested /\ HasPending
       THEN /\ phase' = "running" /\ pc' = "begin" /\ activity' = activity + 1
       ELSE /\ phase' = "idle" /\ UNCHANGED <<pc, activity>>
    /\ FreshPhase
    /\ UNCHANGED <<turn, turnVars, inboxVars, callerVars, exiting, waiter, trace, historyVars>>

\* An activity's promise is unresolved while it owns the phase or is exiting.
Unresolved(a) == (a = activity /\ phase # "idle") \/ a \in exiting

WhenIdle ==
    /\ MayCall /\ waiter = NotWaiting
    /\ waiter' = activity
    /\ UNCHANGED <<phaseVars, pc, turnVars, inboxVars, callerVars, activity, exiting, trace,
                   historyVars>>

\* One turn of whenIdle()'s loop after its await.
WhenIdleResumes ==
    /\ waiter \in Nat /\ ~Unresolved(waiter) /\ ~Synchronous
    /\ waiter' = IF waiter = activity THEN Returned ELSE activity
    /\ UNCHANGED <<phaseVars, pc, turnVars, inboxVars, callerVars, activity, exiting, trace,
                   historyVars>>

-----------------------------------------------------------------------------
(* The driver: kick(), turn(), preStep() and step().                       *)

driverFrame == <<inboxVars, callerVars, activityVars, historyVars>>

\* Locals of one loop iteration and of one turn, as their blocks leave them.
StepLocalsEnd == batch' = <<>> /\ entry' = "enter" /\ attempts' = 0 /\ content' = FALSE
TurnLocalsEnd == turnEnds' = "none" /\ target' = "next-turn" /\ stepEnd' = "none" /\ exit' = "continue"

\* The turn is leaving through its finally; `how` says whether kick() may loop.
EndTurn(reason, how) == pc' = "closeTurn" /\ turnEnds' = reason /\ exit' = how
\* The catch of turn(): an abort outranks whatever was thrown.
ThrowTurn == EndTurn(IF aborted THEN "aborted" ELSE "error", "stop")
MayFail == aborted \/ "fail" \in Outcomes

\* turn(): an activity aborted before its turn opens leaves without one.
OpenTurn ==
    /\ Runs("begin")
    /\ IF aborted
       THEN pc' = "retiring" /\ UNCHANGED <<turn, turnVars, trace>>
       ELSE /\ Write(Log!Event("turn/start", turn + 1, Log!None))
            /\ turn' = turn + 1
            /\ pc' = "boundary" /\ UNCHANGED turnVars
    /\ UNCHANGED <<phase, step, cause, wakeRequested, driverFrame>>

\* Mutant: a step claims every queued follow-up at once.
FollowupsTakenAll == IF target = "next-turn" THEN Len(nextTurn) ELSE 0

\* inbox.claim(target): one next-turn message, at a turn's first boundary only.
FollowupsTaken == IF target = "next-turn" /\ nextTurn # <<>> THEN 1 ELSE 0

\* The head of turn()'s loop and the synchronous part of preStep(): claim the batch.
Claim ==
    /\ Runs("boundary")
    /\ IF aborted
       THEN ThrowTurn /\ UNCHANGED <<batch, inboxVars>>
       ELSE /\ batch' = nextStep \o SubSeq(nextTurn, 1, FollowupsTaken)
            /\ nextStep' = <<>>
            /\ nextTurn' = SubSeq(nextTurn, FollowupsTaken + 1, Len(nextTurn))
            /\ pc' = "proposing"
            /\ UNCHANGED <<turnEnds, exit>>
    /\ UNCHANGED <<phaseVars, target, stepEnd, attempts, entry, content, callerVars,
                   activityVars, trace, historyVars>>

\* preStep() after its awaits: context assembly and the agent/pre-step waterfall.
ProposalFails ==
    /\ Runs("proposing") /\ MayFail
    /\ ThrowTurn /\ StepLocalsEnd
    /\ UNCHANGED <<phaseVars, target, stepEnd, trace, driverFrame>>

\* The decision: reject, or enter with a batch a listener may have trimmed
\* (dropping the head or the tail) and runtime context may have joined.
Propose ==
    /\ Runs("proposing") /\ ~aborted
    /\ \/ "reject" \in Outcomes /\ entry' = "reject" /\ UNCHANGED batch
       \/ /\ entry' \in {"enter"} \union (IF "context" \in Outcomes THEN {"enterWithContext"} ELSE {})
          /\ \/ UNCHANGED batch
             \/ "rewrite" \in Outcomes /\ batch # <<>> /\ batch' \in {<<>>, Tail(batch)}
    /\ pc' = "decided"
    /\ UNCHANGED <<phaseVars, turnEnds, target, stepEnd, exit, attempts, content, trace, driverFrame>>

NothingProposed == entry = "enter" /\ batch = <<>>

\* turn() with the decision in hand: a rejection or an empty batch closes the turn.
DeclineStep ==
    /\ Runs("decided")
    /\ \/ entry = "reject" /\ EndTurn("blocked", "stop")
       \/ NothingProposed /\ turnEnds # "none" /\ EndTurn(turnEnds, "continue")
       \/ NothingProposed /\ turnEnds = "none" /\ step = 0 /\ EndTurn("completed", "stop")
    /\ StepLocalsEnd
    /\ UNCHANGED <<phaseVars, target, stepEnd, trace, driverFrame>>

\* Anything else opens the step, unless the abort arrived after the decision.
EnterStep ==
    /\ Runs("decided")
    /\ entry # "reject" /\ (NothingProposed => turnEnds = "none" /\ step # 0)
    /\ \/ /\ aborted /\ ThrowTurn /\ StepLocalsEnd
          /\ UNCHANGED <<step, trace>>
       \/ /\ ~aborted
          /\ Write(Log!Event("step/start", turn, step + 1))
          /\ step' = step + 1 /\ pc' = "preparing"
          /\ UNCHANGED <<turnEnds, exit, attempts, batch, entry, content>>
    /\ UNCHANGED <<phase, turn, cause, wakeRequested, target, stepEnd, driverFrame>>

\* Mutant: a failed step leaves without its finally.
StepFailsOpen == pc' = "turnFailed"
StepFails == pc' = "stepFailed"

StepReturns(end) == pc' = "stepDone" /\ stepEnd' = end

\* prepareRequest(): the agent/request waterfall and prepareCall().
PrepareFails ==
    /\ Runs("preparing") /\ MayFail
    /\ StepFails
    /\ UNCHANGED <<phaseVars, turnVars, trace, driverFrame>>

Prepare ==
    /\ Runs("preparing") /\ ~aborted
    /\ pc' = "prepared"
    /\ UNCHANGED <<phaseVars, turnVars, trace, driverFrame>>

\* Mutant: every attempt records the batch.
JoiningAgain == batch

\* The batch joins the log with the step's first attempt.
Joining == IF attempts = 0 THEN batch ELSE <<>>

\* step() once the route is known: commit the system prompt, on the first
\* attempt the batch, and the request header; only then look at the signal.
\* The events of this segment move no cursor: the most constrained one is kept.
Admit ==
    /\ Runs("prepared")
    /\ Write(InStep("system/message"))
    /\ admitted' = admitted \o [i \in 1..Len(Joining) |-> [message |-> Joining[i], turn |-> turn]]
    /\ \/ ~aborted /\ pc' = "streaming" /\ content' = FALSE
       \/ MayFail /\ StepFails /\ UNCHANGED content
    /\ UNCHANGED <<phaseVars, turnEnds, target, stepEnd, exit, attempts, batch, entry, inboxVars,
                   callerVars, activityVars, unsent, queued, disposing, cancels, maintenances>>

\* A chunk with visible content arrives.
Chunk ==
    /\ Runs("streaming") /\ ~aborted /\ ~content
    /\ content' = TRUE
    /\ UNCHANGED <<phaseVars, pc, turnEnds, target, stepEnd, exit, attempts, batch, entry, trace,
                   driverFrame>>

\* The stream throws, or its next chunk meets the abort: settle what was seen.
StreamFails ==
    /\ Runs("streaming") /\ MayFail
    /\ Write(InStep(IF aborted /\ content THEN "assistant/message" ELSE "assistant/attempt"))
    /\ StepFails /\ content' = FALSE
    /\ UNCHANGED <<phaseVars, turnEnds, target, stepEnd, exit, attempts, batch, entry, driverFrame>>

\* The stream finishes with an error: a log-only attempt, then agent/request-error.
StreamErrors ==
    /\ Runs("streaming") /\ ~aborted /\ "error" \in Outcomes
    /\ Write(InStep("assistant/attempt"))
    /\ pc' = "recovering" /\ content' = FALSE
    /\ UNCHANGED <<phaseVars, turnEnds, target, stepEnd, exit, attempts, batch, entry, driverFrame>>

\* The stream finishes with a message; a max-tokens one never calls its tools.
StreamFinishes ==
    /\ Runs("streaming") /\ ~aborted
    /\ Write(InStep("assistant/message"))
    /\ \/ StepReturns("completed")
       \/ "max-tokens" \in Outcomes /\ StepReturns("max-tokens")
       \/ "tools" \in Outcomes /\ step <= MaxStep /\ pc' = "tools" /\ UNCHANGED stepEnd
    /\ content' = FALSE
    /\ UNCHANGED <<phaseVars, turnEnds, target, exit, attempts, batch, entry, driverFrame>>

\* agent/request-error: another attempt of the same step, or the failure.
Retry ==
    /\ Runs("recovering") /\ ~aborted /\ attempts < MaxRetry
    /\ attempts' = attempts + 1 /\ pc' = "preparing"
    /\ UNCHANGED <<phaseVars, turnEnds, target, stepEnd, exit, batch, entry, content, trace,
                   driverFrame>>

GiveUp ==
    /\ Runs("recovering")
    /\ StepFails
    /\ UNCHANGED <<phaseVars, turnVars, trace, driverFrame>>

\* executeToolCalls(), as turn() sees it (ToolScheduler has its inside): results
\* may leave context in the next-step list, then it returns or throws.
ToolContext ==
    /\ Runs("tools") /\ "toolContext" \in Outcomes
    /\ \E m \in unsent : Enqueue(m, "next-step")
    /\ UNCHANGED <<phaseVars, pc, turnVars, callerVars, activityVars, trace, admitted, disposing,
                   cancels, maintenances>>

ToolsReturn ==
    /\ Runs("tools")
    /\ \/ \E end \in {"completed", "none"} : StepReturns(end)
       \/ "fail" \in Outcomes /\ StepFails /\ UNCHANGED stepEnd
    /\ UNCHANGED <<phaseVars, turnEnds, target, exit, attempts, batch, entry, content, trace,
                   driverFrame>>

\* Mutant: an earlier step's outcome of any kind is kept over a step that owes a response.
OutcomeSticky == IF turnEnds = "max-tokens" \/ stepEnd = "none" THEN turnEnds ELSE stepEnd

\* How the turn would end after this step: max-tokens is sticky.
OutcomeAfterStep == IF turnEnds = "max-tokens" THEN turnEnds ELSE stepEnd

\* turn() after step() returned: the outcome, and step/end.
CloseStep ==
    /\ Runs("stepDone")
    /\ turnEnds' = OutcomeAfterStep
    /\ Write(InStep("step/end"))
    /\ pc' = "afterStep" /\ StepLocalsEnd
    /\ UNCHANGED <<phaseVars, target, stepEnd, exit, driverFrame>>

\* turn() after step() threw: step/end in the finally, then the catch.
CloseFailedStep ==
    /\ Runs("stepFailed")
    /\ Write(InStep("step/end"))
    /\ pc' = "turnFailed" /\ StepLocalsEnd
    /\ UNCHANGED <<phaseVars, turnEnds, target, stepEnd, exit, driverFrame>>

FailTurn ==
    /\ Runs("turnFailed")
    /\ ThrowTurn
    /\ UNCHANGED <<phaseVars, target, stepEnd, attempts, batch, entry, content, trace, driverFrame>>

GoRound == target' = "next-step" /\ pc' = "boundary" /\ UNCHANGED <<turnEnds, exit>>

\* The foot of turn()'s loop: abort, stop through agent/turn-stopping, or go round.
AfterStep ==
    /\ Runs("afterStep")
    /\ \/ aborted /\ ThrowTurn /\ UNCHANGED target
       \/ /\ ~aborted /\ turnEnds # "none" /\ nextStep = <<>>
          /\ pc' = "stopping" /\ UNCHANGED <<target, turnEnds, exit>>
       \/ ~aborted /\ (turnEnds = "none" \/ nextStep # <<>>) /\ GoRound
    /\ UNCHANGED <<phaseVars, stepEnd, attempts, batch, entry, content, trace, driverFrame>>

\* After the agent/turn-stopping listeners: fresh steering runs another step.
Stopped ==
    /\ Runs("stopping")
    /\ \/ MayFail /\ ThrowTurn /\ UNCHANGED target
       \/ ~aborted /\ nextStep = <<>> /\ EndTurn(turnEnds, "continue") /\ UNCHANGED target
       \/ ~aborted /\ nextStep # <<>> /\ GoRound
    /\ UNCHANGED <<phaseVars, stepEnd, attempts, batch, entry, content, trace, driverFrame>>

CloseTurn ==
    /\ Runs("closeTurn")
    /\ Write(InTurn("turn/end"))
    /\ pc' = "turnClosed"
    /\ UNCHANGED <<phaseVars, turnVars, driverFrame>>

\* Mutant: a driver goes on for steering only.
LeaveTurnForSteering ==
    /\ Runs("turnClosed")
    /\ IF exit = "continue" /\ nextStep # <<>>
       THEN FreshPhase /\ pc' = "begin"
       ELSE pc' = "retiring" /\ UNCHANGED <<cause, wakeRequested, step>>
    /\ TurnLocalsEnd
    /\ UNCHANGED <<phase, turn, attempts, batch, entry, content, trace, driverFrame>>

\* The foot of turn(): a live driver goes on while input is pending, on a fresh signal.
LeaveTurn ==
    /\ Runs("turnClosed")
    /\ IF exit = "continue" /\ HasPending
       THEN FreshPhase /\ pc' = "begin"
       ELSE pc' = "retiring" /\ UNCHANGED <<cause, wakeRequested, step>>
    /\ TurnLocalsEnd
    /\ UNCHANGED <<phase, turn, attempts, batch, entry, content, trace, driverFrame>>

\* Mutant: the latch is read from the idle phase.
RetireWithoutReplay ==
    /\ Runs("retiring")
    /\ phase' = "idle" /\ pc' = "idle" /\ FreshPhase /\ UNCHANGED replay
    /\ exiting' = exiting \union {activity}
    /\ UNCHANGED <<turn, turnVars, inboxVars, calls, activity, waiter, trace, historyVars>>

\* The finally of kick(): idle, whose status observers run before the replay.
Retire ==
    /\ Runs("retiring")
    /\ phase' = "idle" /\ pc' = "idle" /\ FreshPhase
    /\ replay' = wakeRequested
    /\ exiting' = exiting \union {activity}
    /\ UNCHANGED <<turn, turnVars, inboxVars, calls, activity, waiter, trace, historyVars>>

\* The rest of that finally: replay a latched wake whose message is still pending.
Replay ==
    /\ replay /\ calls = <<>>
    /\ replay' = FALSE
    /\ IF HasPending THEN WakeDriver(FALSE) ELSE UNCHANGED <<phaseVars, pc, activity>>
    /\ UNCHANGED <<turnVars, inboxVars, calls, exiting, waiter, trace, historyVars>>

\* Mutant: a driver resolves the current activityDone rather than its own.
DriverSettlesCurrent ==
    /\ ~Synchronous
    /\ exiting' = exiting \ {activity} /\ exiting' # exiting
    /\ UNCHANGED <<phaseVars, pc, turnVars, inboxVars, callerVars, activity, waiter, trace,
                   historyVars>>

\* kick()'s promise settles and resolves the driver's activityDone.
DriverSettles ==
    /\ ~Synchronous
    /\ \E a \in exiting : exiting' = exiting \ {a}
    /\ UNCHANGED <<phaseVars, pc, turnVars, inboxVars, callerVars, activity, waiter, trace,
                   historyVars>>

-----------------------------------------------------------------------------

Causes == {"user", "disposed"}

Caller ==
    \/ \E m \in Message, to \in {"next-turn", "next-step"}, wakeup \in BOOLEAN : Send(m, to, wakeup)
    \/ \E c \in Causes : CancelKeeping(c) \/ CancelClearing(c) \/ CancelEmpty(c)
    \/ RemoveQueued \/ RunMaintenance \/ WhenIdle

\* Synchronous continuations and resolved promises: JavaScript always runs them.
CallerContinues ==
    SendWakes \/ CancelClearsTurns \/ CancelAborts \/ Replay \/ DriverSettles \/ WhenIdleResumes

\* What the driver awaits settles, in whatever way Outcomes allows.
Driver ==
    \/ OpenTurn \/ Claim \/ ProposalFails \/ Propose \/ DeclineStep \/ EnterStep
    \/ PrepareFails \/ Prepare \/ Admit \/ StreamFails \/ StreamErrors \/ StreamFinishes
    \/ Retry \/ GiveUp \/ ToolsReturn \/ CloseStep \/ CloseFailedStep \/ FailTurn
    \/ AfterStep \/ Stopped \/ CloseTurn \/ LeaveTurn \/ Retire

Next == Caller \/ CallerContinues \/ Driver \/ Chunk \/ ToolContext \/ MaintenanceEnds

Spec == Init /\ [][Next]_vars

\* Run-to-completion and settling awaits; callers may do nothing.
FairSpec == Spec /\ WF_vars(CallerContinues) /\ WF_vars(Driver) /\ WF_vars(MaintenanceEnds)

-----------------------------------------------------------------------------
(* Properties.                                                             *)

Labels == {"idle", "begin", "boundary", "proposing", "decided", "preparing", "prepared",
           "streaming", "recovering", "tools", "stepDone", "stepFailed", "afterStep",
           "stopping", "turnFailed", "closeTurn", "turnClosed", "retiring"}
Frames == [op : {"wake"}, message : Message, afterAbort : BOOLEAN] \union [op : {"clear", "abort"}, cause : Causes]

\* The type invariant, by parts.
Flags == /\ wakeRequested \in BOOLEAN /\ content \in BOOLEAN
         /\ replay \in BOOLEAN /\ disposing \in BOOLEAN

PhaseType == /\ phase \in {"idle", "maintenance", "running"} /\ turn \in Nat /\ step \in Nat
             /\ cause \in {"none"} \union Causes
TurnType == /\ turnEnds \in {"none", "completed", "max-tokens", "aborted", "error", "blocked"}
            /\ target \in {"next-turn", "next-step"}
            /\ stepEnd \in {"none", "completed", "max-tokens"}
            /\ exit \in {"continue", "stop"} /\ attempts \in Nat /\ batch \in Seq(Message)
            /\ entry \in {"enter", "enterWithContext", "reject"}
InboxType == nextTurn \in Seq(Message) /\ nextStep \in Seq(Message)
CallerType == calls \in Seq(Frames)
ActivityType == /\ activity \in Nat /\ exiting \subseteq Nat
                /\ waiter \in Nat \union {NotWaiting, Returned}
HistoryType == /\ unsent \subseteq Message /\ queued \in Seq(Message)
               /\ admitted \in Seq([message : Message, turn : Nat])
               /\ cancels \in Nat /\ maintenances \in Nat

\* Every variable stays in its type: the phase, the coroutine and its locals,
\* the inbox lists, the caller stack and the history.
TypeOK == /\ Flags /\ PhaseType /\ pc \in Labels /\ TurnType /\ InboxType /\ CallerType
          /\ ActivityType /\ HistoryType

\* Whenever no driver is running, the log has no open turn and no open step,
\* however the last turn ended: fork, compaction and resume rely on it.
QuiescentLogBalanced == phase # "running" => Log!Balanced(trace)

\* Every event the loop appends is one the session invariant companion accepts:
\* consecutive turn and step numbers, step events inside the open step.
LogProtocol == Log!Spec

\* A latch never outlives the aborted activity it was set on: a live driver
\* holding a stale latch would start a second driver for work it already took.
LatchNeedsAbort == phase = "running" /\ wakeRequested => aborted

\* A message enters the log at most once, and never while it is still pending,
\* over retries, steps, cancels and replays.
AdmittedOnce ==
    /\ \A i, j \in 1..Len(admitted) : admitted[i].message = admitted[j].message => i = j
    /\ \A i \in 1..Len(admitted) : admitted[i].message \notin Pending

\* Each queued follow-up is the sole ordinary message of its own turn, and
\* follow-ups enter the log in the order in which they were queued.
FollowupsKeepTheirTurns ==
    \A i, j \in 1..Len(admitted) :
        i < j /\ admitted[i].message \in ToSet(queued) /\ admitted[j].message \in ToSet(queued)
          => /\ admitted[i].turn < admitted[j].turn
             /\ \E k, l \in 1..Len(queued) : /\ k < l /\ queued[k] = admitted[i].message
                                             /\ queued[l] = admitted[j].message

\* An activity whose abort cause is disposal is not followed by a driver of its
\* own accord: neither its latch nor maintenance's replays it.
DisposedActivityParks ==
    [][cause = "disposed" /\ phase' # phase => phase' = "idle" /\ ~replay']_vars

\* A turn never closes as completed while tool results still owe the model a
\* response: the last step it ran returned an answer or a concluding result.
CompletedTurnsOweNothing ==
    pc = "closeTurn" /\ turnEnds = "completed" /\ exit = "continue" => stepEnd = "completed"

\* whenIdle() always resolves once callers stop sending: no activity promise
\* is lost when drivers and maintenance tasks replace one another.
WhenIdleResolves == waiter \in Nat ~> waiter = Returned

\* A wake latched behind an aborted driver or maintenance is replayed: unless
\* the inbox is emptied or disposal was the cause, a driver starts for it.
LatchedWakeRuns ==
    wakeRequested /\ cause # "disposed"
        ~> pc = "begin" \/ ~HasPending \/ cause = "disposed"

\* The caller of send(m, _, wakeup = true) is about to wake the driver.
Waking(m) == calls # <<>> /\ Head(calls).op = "wake" /\ Head(calls).message = m

\* With no rejection or failure, and until someone cancels, input that wakes a
\* driver inside a step is claimed, by a later step of its turn or by a later turn, however
\* many other messages are ahead of it.
LiveWakeIsClaimed ==
    \A m \in Message : Waking(m) /\ phase = "running" /\ step > 0 /\ pc # "retiring"
        ~> m \notin Pending \/ cancels > 0

(* What the repository says and the code does not do.                      *)

\* "The turn is about to close: the model owes no response (no live tool calls,
\* no fresh steering)" (agent/src/runtime-types.ts:365), of agent/turn-stopping.
TurnStoppingOwesNothing == pc = "stopping" => stepEnd # "none"

=============================================================================
