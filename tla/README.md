# A verification development for colaw's agent core

These modules model the part of the repository that decides whether an agent's
session stays consistent: the driver that turns queued messages into turns and
steps, the scheduler that runs a step's tool calls, the event log both write,
the repair of a log that a crash cut short, the handle that puts the log on
disk, and the creation and disposal of the agent that owns all of these. Around
that core they model three services whose promises rest on it: background jobs,
durable reminders, and the durable mailbox of an agent team. Paths are relative to the repository root unless they are file names of
this directory.

## 1. Inventory

`packages/` holds almost 300 packages, most of them plugins loaded over a vendored plugin
runtime; `apps/` assembles them into a CLI, a web server and a desktop host.
Everything runs in one Node process on one event loop: a hazard is an
interleaving of asynchronous callbacks at their awaits, a reentrant observer, a
crash, or a failing I/O call. There are no threads.

| component | state | operations | what is hard | correct when |
|---|---|---|---|---|
| agent driver `core/agent-loop/src/agent.ts` | phase (idle, running, maintenance), turn and step counters, abort controller, wake latch, activity promise | send, cancel, runMaintenance, whenIdle, the turn/step loop | callers run at every await and inside observers; failure and abort at every await; wakes near the end of an activity | the log stays well-formed and balanced, no wake is lost, idle means idle, messages are admitted once |
| inbox `core/agent-loop/src/inbox.ts` | two durable queues: next-turn, next-step | splice, claim, clear, remove, replace | edits while a turn runs | follow-ups keep their own turns, steering joins the next step |
| tool scheduler `core/agent-loop/src/tool-calls.ts` | group, in-flight map, settled and finalized results, first failure, abort sample | classify, start, settle, finalize, commit, skip | out-of-order settlement, failures while siblings run, abort between awaits | exclusivity, pool bound, results in the model's order, nothing left running |
| session log `core/session/src` | events, trace, observers | append, flush, fork, snapshot, enter | reentrant append, validation | every log is a sequence of well-nested turns and steps |
| crash repair `core/session/src/repair.ts`, `session/session-checkpoint-policy` | none, computed from the log | closers, checkpoint before effects | a crash at any prefix, in the repair too | the repaired log is balanced and tells the truth about each call |
| write handle `session/session-persistence-jsonl/src/storage.ts` | buffer, timer, drain, append chain, lease, torn tail | enqueue, drain, flush, close, revoke | timers against drains against close; failed writes | order kept, flush means durable, close loses nothing |
| agent lifecycle `core/agent-loop/src/index.ts`, registry `core/agent/src` | machines, registrations, scopes, an owner fiber each | create, resume, publish, dispose, owner and factory unload | dispose at any await of a creation, a backend that never answers | an agent is published once or not at all; a failed creation leaves nothing; the log is closed last |
| jobs `jobs/jobs-local` | job records, waiters, owner cleanups | start, wait, settle, cancel, disposeOwned | settle against timeout, abort, teardown, a cancel that throws | each completion is told, by a call or by one notice; disposal ends and leaves nothing |
| approvals, questions `interaction/*` | asked/decided events, policy | request, answer, abort | late answers, policy switches | one decision per question, never-policy never asks |
| schedule `schedule/schedule` | run, requested flag, timer, idle wait | requestDrive, dispatch, dispose | triggers near a run's end; partial dispatch; tools on the same log | no trigger lost, no occurrence sent twice, nothing decided from unstored events |
| goals `goal/*` | goal revisions, one reservation | arm, claim, drop, pause | stale reservations after awaits | a round runs for the current revision only |
| agent team `experimental/agent-team` | durable mailbox, in-flight set | queue, dispatch, acknowledge, recover | crash between delivery and receipt, concurrent senders | a receipt means the message is stored; each message reaches its target once, in order |
| subagents `subagent/*` | children, continuations | spawn, steer, resume | parent and child end independently | a child's outcome reaches its parent |
| model access `llm/*` | retry state | request, backoff | abort while waiting | a retry announced is started or given up |
| storage units `storage/*` | record files | load, write, migrate | crash in a migration | no record lost |
| gateway, connection, controllers `api/*`, `client/connection` | journals, subscriptions | replay, reconnect | reconnection against new events | a client sees each event once |
| settings, credentials, workspace, compaction, projections, hooks, MCP, ACP, shell, sandbox, file systems, UI, applications, SDKs | various | various | mostly I/O and presentation | outside the core |

Components meet in these ways. The driver calls the scheduler once per step and
both append to the session, whose observers forward each event to the write
handle. `flush` on the session reaches the handle's `flush`, and the checkpoint
policy calls it before a tool body or a model request. Resume opens the handle
for writing, appends the closers that repair computes, and publishes the agent.
Jobs, reminders and mailbox messages come back to the driver as sends or
follow-ups; jobs and schedules are torn down with the scope of their agent.

PROJECT.json lists every component with its status, and every hazard at its
line with the properties that answer it, or the reason none does.

## 2. Modules

| module | models | proved |
|---|---|---|
| `TurnLog` | `core/session/src/invariant.ts`: the trace (open turn, open step, last numbers, open calls), which events `validateEvent` accepts, and the abstract specification "append accepted events" | used by the proofs |
| `AgentDriver` | `agent.ts` over `inbox.ts` | with `AgentDriver_proofs` |
| `MCAgentDriver` | the symmetry set for TLC | |
| `AgentDriver_proofs` | theorems about `AgentDriver` | 8 theorems |
| `ToolScheduler` | `tool-calls.ts` | with `ToolScheduler_proofs` |
| `ToolScheduler_proofs` | theorems about `ToolScheduler`, its refinement of `OrderedResults` included | 9 theorems, and `Structure` |
| `OrderedResults` | what a step's log is promised: call events in order, then each call's result in order, then skipped ones; `called` and `answered` count the events | abstract specification of `ToolScheduler` |
| `CrashRepair` | `repair.ts`, the checkpoint policy and the appends of resume, over `TurnLog` | with `CrashRepair_proofs` |
| `CrashRepair_proofs` | theorems about `CrashRepair` | 6 theorems |
| `LogHandle` | `storage.ts`, the write handle | with `LogHandle_proofs` |
| `LogHandle_proofs` | theorems about `LogHandle` | 5 theorems |
| `AgentLifecycle` | `core/agent-loop/src/index.ts` over the registry of `core/agent/src/index.ts` | with `AgentLifecycle_proofs` |
| `AgentLifecycle_proofs` | theorems about `AgentLifecycle` | 6 theorems |
| `Jobs` | `LocalJobRegistry` of `jobs/jobs-local` and the listener of `jobs/tool-jobs` | with `Jobs_proofs` |
| `Jobs_proofs` | theorems about `Jobs` | 6 theorems |
| `TeamMailbox` | `mailbox.ts`, `journal.ts`, `session-message.ts` of `experimental/agent-team` | with `TeamMailbox_proofs` |
| `TeamMailbox_proofs` | theorems about `TeamMailbox` | 5 theorems |
| `ScheduleRuntime` | `runtime.ts`, `tools.ts`, `transaction.ts`, `domain.ts` of `schedule/schedule` | with `ScheduleRuntime_proofs` |
| `ScheduleRuntime_proofs` | theorems about `ScheduleRuntime` | 4 theorems |

`AgentDriver` and `CrashRepair` use `TurnLog` as an instance, and so are
compositions with the session's log; `AgentLifecycle`, `TeamMailbox` and
`ScheduleRuntime` see the driver through what its interface promises (a phase,
a claim, an end of turn), and `AgentLifecycle` sees the write handle as open,
closing or closed, which is what `LogHandle` settles in detail.

### AgentDriver

One coroutine is `pc`; the phase object is `phase`, `turn`, `step`, `cause`
(the abort reason, `none` while not aborted) and `wakeRequested`. The inbox is
`nextTurn` and `nextStep`, sequences of identified messages. A JavaScript
segment from one await to the next is one action, so no caller interleaves
with it, except where the segment itself runs observers: after an inbox or
status change (`calls`, a stack of caller operations whose observers are
running, bounded by `MaxNesting`) and in the tail of `kick`'s finally
(`replay`). After an append only session listeners run, and `Session.append`
rejects a reentrant append, so at those labels (`Quiet`) the only caller that
changes anything is a cancel that leaves the inbox alone or finds it empty.

| action | code |
|---|---|
| `Send`, `SendWakes`, `WakeDriver` | `send`, `wakeDriver` |
| `CancelKeeping`, `CancelClearing`, `CancelClearsTurns`, `CancelAborts`, `CancelEmpty` | `cancel` with and without `keepInbox`, one action per observer gap |
| `RunMaintenance`, `MaintenanceEnds` | `runMaintenance` |
| `WhenIdle`, `WhenIdleResumes` | `whenIdle` |
| `OpenTurn`, `Claim`, `Propose`, `DeclineStep`, `EnterStep` | the head of `turn`, `preStep` |
| `Prepare`, `Admit`, `Chunk`, `Stream...`, `Retry`, `GiveUp`, `ToolContext`, `ToolsReturn` | `step` |
| `CloseStep`, `CloseFailedStep`, `FailTurn`, `AfterStep`, `Stopped`, `CloseTurn`, `LeaveTurn` | the finally blocks and the boundary of `turn` |
| `Retire`, `Replay`, `DriverSettles` | `kick`'s finally and the activity promise |

Adjacent awaits with the same exits are one label: prompt assembly and the
pre-step waterfall ("proposing"), the request hook and `prepareCall`
("preparing"). Locals are reset when their block ends, to keep states equal.
The events an admission appends are represented by one step event, as the trace
does not tell them apart. `queued`, `admitted`, `disposing`, `unsent` and the
counters of cancels and maintenances are history or environment: nothing in the
program reads them. A missing finish reason counts as a stop, as in the code;
an aborted one as an error.

Left out: `replace` and reordering of inbox entries, the text of runtime
context, the failure of an append itself, and `withInitiator` throwing while the
registry closes.

### ToolScheduler

One step's calls, numbered in the model's order. `Classify` takes the next
group: one exclusive call or a run of parallel ones; a classification comes
from the registry at the time it is read, so each read is nondeterministic.
`StartCall`, `Prepared`, `CallStarted`, `Collect`, `Committed`, `Finish` and
`GroupEnds` are the segments of `runGroup`; `BodyResolves` and `BodyRejects`
are the tool bodies; `Drained` is the catch that waits for what is in flight;
`SkipCall` and `SkipResult` answer the calls behind an abort. Counters run over
the step where the code counts within the group, and `OrderedResults` reads its
`called` and `answered` off `started` and `committed`. `Cancel` may
happen at any await, not inside the synchronous fill loop.

### CrashRepair

The live loop is reduced to the events it writes; `durable` is the length of the
prefix in complete frames, which `Persist` extends and `Flushed` asks for in full.
`Crash` keeps that prefix and any part of the frame being written, as far as
`Readable` says that a reader can recover it: `loaded` is the length that survived,
and `tail` tells what stands behind the complete frames. A torn frame stays until
the handle's first batch (the closers, or the resumed agent's events), which first
truncates it (`TruncateTail`) and then writes the recovered events again
(`RewriteTail`); a crash may fall between, and takes events that the resume has
read. `Resume` computes `Closers` by one pass over the log
(`Scanned`), as `interruptedTurnClosers` does (call identifiers repeat from step
to step, so the bookkeeping per step matters), and sets the validating companion's
cursor anew (`Cursor`); `StoreCloser` puts the closers into one frame, durable
with the last of them, of which a crash may leave any part. `ran` and `abandoned` are history: bodies that
have started, and steps the live loop closed over unanswered calls. `ResumesBalanced`
speaks of each append, so that what continues behind the closers is judged too.

### LogHandle

`buffered`, `timer`, `drainPaused`, `drain` (the shared drain promise), `chain`
(the serialized append turns, with `started` for the one at the head), `lease`,
the torn tail (`torn`, `recovered`), and the states of two flush callers and of
one close or revocation. Disk writes may fail `MaxFailures` times. A run of
microtasks without I/O is one step. Explicit append batches, used before a
session is routed to the handle, and a failing rollback of a failed append are
left out, as are the reads.

### AgentLifecycle

Several lifecycles are attempts at one identity, so they compete for its write
handle and its place in the session and agent registries.

| state | code |
|---|---|
| `pc`, `direct`, `resuming` | where `create`, `createAgent` or `resume` is suspended, and which of them it is: the backend's `create` or `open`, the discard of a late handle, setup, the last append, the creation listeners, the rollback |
| `dp`, `byOwner` | the memoized `dispose` of `prepare()` and who called it first |
| `handle`, `registered`, `scope`, `turn`, `abort` | what the lifecycle holds: the lock, the registry entries, its scope, a turn, the fused abort signal |
| `owner`, `factory`, `rejected` | the fiber that asked for the agent, the factory, whether a disposal it joins has rejected |
| `reentrant` | history: the caller aborted while `prepare` minted the scope |

`Call`, `Opened`, `OpenFails`, `OpeningAborted`, `Prepare`, `PrepareAborted`,
`SetupDone`, `Publish`, `Announced`, `InitializeFails` and `RolledBack` are the segments of a
creation; `PublicationOver`, `MachineIdle`, `ScopeUnwound`, `ClosesHandle`,
`Detached` and `Disposed` those of the disposal, which the agent's handle, its
owner's unload, a failing creation and the factory may all start, at any await.
`PrepareAborted` is the abort from inside an observer of the scope's creation:
`prepare` starts the disposal without waiting for it and throws, and
`setupAndPublish` closes the handle beside it, so that the call may fail while its
scope still unwinds. `Disposed` may reject; the factory's `Promise.all`
(`FactoryDisposed`) ends when everything it joins has settled or one disposal has
rejected. A public `create()` has no caller's signal and no setup, and the
factory does not join its continuation.
A creation without a signal whose backend hangs keeps the factory's disposal
waiting, as in the code; the fairness says so by never forcing the backend.
Persistence is taken to be mounted. Left out: configured identities and the
wait for a draining one, and an unpersisted session under the same name. Closing the
handle and leaving the registries behind it is one step.

### Jobs

A job is `status`, `owner`, `reported` and `producer` (the work itself, which
may outlive its record); `store` is what the registry still holds, `threw` the
jobs whose cancel threw, `told` the history of who learned of the end. A wait is
`awaited` and `wait`: its timeout or the settlement fires first, and the call
returns in a later microtask. Every operation is a synchronous segment; the only
awaits are in `WaitReturns`, `OwnedDisposed` and `AllDisposed`. The three
terminal statuses are one. Left out: what a notice does to its owner's agent
(the wake budget, follow-up or injection), scope layers, output and its
limits, change notifications, and a `start` whose producer throws at once.

### TeamMailbox

The lead and one teammate each have a log and a count of what is stored of it;
`transactions` is the queue of the lead's journal, `dispatches` the queue of the
teammate's deliveries, `acks` the checkpoints started when a message enters the
history, `recoveries` the passes started with an agent. A dispatch is one record
that walks through reading the target, steering, flushing and marking
(`DispatchNext`, `ReadStored`, `Steer`, `Flushed`, `Marking`, `Marked`). The
teammate's driver is `Claim` and `Admit`, with `ClaimDropped` for a claim that an
abort cut short. `Crash` keeps a prefix of each log. Left out: a lead as the
target, disposal of the service, the size limit of a message, more than one
teammate, the roster and the task board.

### ScheduleRuntime

`log` with `stored` is the session's log as `foldScheduleEvents` reads it;
`queue` the serialized transactions, the drive's and the tools'; `run`,
`requested`, `faulted`, `idleWait` and `timer` are the runtime. The agent is
`phase`: the runtime claims an idle one for maintenance (`DriveSends`), a turn
runs tools, foreign maintenance keeps it busy. Each transaction moves through its
flush before the decision, the append, and the flush behind it, and each of
these may fail. A list of reminders is the deletion of an absent one: it has the
same flush and changes nothing. `Crash` and `Reopens` keep what was stored,
`ClockJumps` moves the wall clock. `missed` and the calls' counters are history
or bounds. Left out: rules and time zones (a reminder has a target and perhaps an
interval), corrupt logs, the projection, validation of arguments, and the wake
of a maintenance that disposal interrupted.

## 3. Runs

Every run is in PROJECT.json with its properties; each of those has a mutant
there, a plausible bug of the code which makes the run find the property violated.

| run | question | bounds |
|---|---|---|
| `driver_turns` | Does every way of ending a step and a turn leave a well-formed, balanced log (`QuiescentLogBalanced`, refinement `LogProtocol`), admit each message once, keep follow-ups in turns of their own, and complete only turns that owe nothing? | 2 messages, all eight outcomes of listeners, model and tools, 2 tool-calling steps, one retry, one cancel, one level of reentrancy |
| `driver_wakes` | Can callers, concurrent or reentrant, restart a disposed activity? Does every `whenIdle` resolve, every latched wake run, every live wake get claimed? | 2 messages, one cancel of either cause, one maintenance, nesting 1, tool steps and token-limited steps |
| `scheduler` | An exclusive call alone, nothing left running, skipped calls never ran, order of results (refinement of `OrderedResults`), termination | 3 calls, pool of 2 |
| `repair` | Are repaired logs accepted, balanced, truthful, and the same after a crash inside the repair? | 2 turns, 2 steps, 2 calls, 13 events, 3 crashes |
| `handle` | Is order kept, a flush durable, a revoked handle silent; do buffers, flushes and closes settle? | 3 events over up to 2 earlier ones, 2 failures, 2 flush callers |
| `lifecycle` | Do the registries follow the handle, does a failed creation leave nothing, is the factory quiescent once disposed without a rejection, does every teardown end? | 2 lifecycles of one identity, each of any kind |
| `jobs` | Is every end of a job told, the notice never redundant, does disposal leave nothing and end? | 2 jobs, 2 owners, 2 waiters, one job per owner at a time |
| `team_mailbox` | Is what is recorded as delivered stored, does no message wait twice, is the order kept, does the mailbox come to rest? | 2 messages, 2 pending, one failure, release or crash |
| `schedule` | Is an occurrence sent once, nothing decided from unstored events, everything due sent, disposal settled? | 2 reminders (delay 2, interval 1), clock to 2 with timers of 1, 2 tool calls, one turn, one foreign maintenance, one failure, one restart |
| `sticky_max_tokens`, `close_window`, `mailbox_duplicates` | Three sentences of the documentation that the code contradicts | as small as shows them |

Why these bounds are enough: the driver keeps no state across turns but the
phase, the inbox and the latch, so two messages give every relation of a
message to a driver (claimed by it, sent under it, left behind it), and two
tool-calling steps give an outcome that can be stale. The runs have one
cancel, of either cause, at any await. A second one in the same activity changes
neither cause nor signal, but may clear the inbox again; the theorems about the
driver's safety hold for any number of cancels. In the scheduler three calls over a pool of two are
the least with a call waiting for the pool while another is in flight and a
third of another class is behind; in the repair two steps of two calls
give the repeated identifier and a partly answered step, a second crash
hits the first repair or the rewriting of the tail the first one tore, and a third
the repair after that. In the handle three events fill a batch in flight, a
buffer behind it and one late event. Two lifecycles are the holder of an
identity and the one that takes over or collides with it. Two jobs give a limit
of one something to refuse, two waiters a wait released while another has timed
out, two owners a teardown next to a live agent. Two messages give the mailbox an order to
break and a dispatch that carries both; one fault, wherever it falls, is what
delivery, receipt and recovery must survive. In the schedule a one-shot and a
fixed-rate reminder may be due together, the clock passes the longest timer
once, and one restart separates two lives. `CHECK_DEADLOCK FALSE` is set where
the bounds make the system stop: messages, calls, events and crashes are
finite. `Jobs` has no such bound but its jobs: there deadlock is checked, with
`Finished` for a registry that is closed and owes nobody an answer.

Fairness. The driver's segments, the tail of a caller's operation, timers and
the append chain are weakly fair: the event loop runs whatever is ready. A tool
body, a model stream and an adapter are assumed to settle (`Driver`, `Bodies`),
since the code itself waits for them without a timeout. Callers are never fair:
nobody has to send, cancel, flush, close, wait, kill or dispose. `MaintenanceEnds` is fair, as a
maintenance task that never returns blocks its agent by design. I/O calls
return, with success or failure. In `AgentLifecycle` a backend and a setup may
hang for ever; only an aborted setup goes on, since it is raced against its
signal. In `Jobs` a running producer may run for ever; one that was cancelled
settles, which is what "Teardown never deadlocks" of `jobs-local/README.md`
rests on. In `TeamMailbox` the running transaction and the running dispatch go
on, nothing else. In `ScheduleRuntime` time passes and turns end; `DueIsSent`
assumes of foreign maintenance only that the agent is free of it again and again.

### What the violation runs show

1. **A token-limited step hides later tool results** (`sticky_max_tokens`).
   The sticky outcome makes the loop announce and close the turn after a later
   step whose tool results should go back to the model.
2. **Close releases ownership before the route is gone** (`close_window`). An
   event published while the lease is being released is buffered after the
   last drain: a timer writes it without the lock, or nobody does.
3. **A message may reach the model twice** (`mailbox_duplicates`). Between the
   driver's claim of a steered message and its admission the message is in
   neither the inbox nor the history. A checkpoint that looks then gives up,
   and the next send steers the message again; the model reads it
   twice, without any fault. `OnePendingCopy` states what does hold.

Two more are not runs of their own but exceptions that the checked properties
state, and that their runs reach. The first append after a crash truncates the torn
frame, then writes the events recovered from it; a crash between the two writes
loses them, after a resume has read them, although
`session/session-persistence/README.md:61` says that only the incomplete fragment of
a torn tail is discarded. `RepairIsDeterministic` says that nothing else changes what
repair ends in, and the other properties of `repair` hold of the shorter log too. And
one agent whose disposal rejects, a failing final close being enough, ends the
factory's `Promise.all` while tracked calls and other disposals are under way,
against the comment of `trackWrapper` (`agent-loop/src/index.ts:128`);
`FactoryQuiescent` says that every agent is then being torn down at least, and that
without a rejection all is over.

Smaller disagreements seen while modelling and not checked: a user's cancel
followed by disposal keeps the first cause, so a waking send during teardown
still starts a turn, which `agent-loop/src/index.ts:589` calls the late
sender's bug; between the last check of the inbox and the driver's retirement a
wake neither starts a driver nor latches, which the note
`.agents/notes/implemented/bug-fix/2026-08-07-cancel-convergence-wake-latch.md`
knows (`LiveWakeIsClaimed` states what does hold); the early return at
`agent-loop/src/index.ts:634` lets the owner's unload take the scope down while
creation listeners or a turn still run, against the comments at lines 575 and 587;
an event during a creation's last append, before the session is routed (line
753), is neither stored nor routed; a turn whose
first proposal ends up empty returns without looking at the inbox again; a turn may
close with late steering pending when the pre-step listeners empty the batch of
its last round; a
creation aborted from inside the scope's creation fails before its rollback is over,
though the test at `agent-loop/tests/scope-lifecycle.spec.ts:184` is named "joins
cleanup"; a
flush with nothing buffered leaves a torn tail for the next write; an interrupted copy of legacy records in
`storage-json` is not resumed.

## 4. Proofs

Every safety property that a passing run checks, invariant or action property, is
stated by a theorem for every value of the constants. What the theorems assume
are the named ASSUMEs of the modules, which TLC evaluates on every run.

`AgentDriver_proofs` proves, for every set of messages, every set of outcomes
and every bound in Nat (`OutcomesAssumption`, `BoundsAssumption`; TLC evaluates
both on every driver run):

- `TypeCorrect`: `Spec => []TypeOK`.
- `LogBalancedAtRest`: no turn and no step is open while no driver runs.
- `ImplementsLogProtocol`: the driver refines `TurnLog`: each of its steps is
  an accepted event or leaves the trace alone.
- `LatchOnlyAfterAbort`: a running driver with a latched wake is an aborted one.
- `DisposalParks`: an activity whose cause is disposal ends in idle, with no replay.
- `AdmittedAtMostOnce`: no message is recorded twice.
- `FollowupsAlwaysInOrder`: follow-ups are recorded in queue order, one per turn.
- `CompletionOwesNothing`: a turn never closes as completed while tool results still
  owe the model a response.

The log theorems do not follow from the types: whether `turn/end` is acceptable
depends on where the driver stands. `CursorInv` says it: at each label, whether
the trace has a turn and a step open, and that their numbers are the phase's.
`LatchInv` adds that a latch implies an abort. The conjunction with
`TypeOK` is inductive; the proof has one step per action, and a lemma for the
actions that leave the trace alone. `TypeOK` and `LatchNeedsAbort` were first
checked by TLC and need no run since; `QuiescentLogBalanced`, `LogProtocol` and
`DisposedActivityParks` are also checked in the runs.

The theorems about messages have invariants of their own. `OnceInv`: every
message is in one place at a time (unsent, one of the queues, the batch the loop
holds between a claim and its commit, or the log) and once in it; a claim, a
commit and a removal each move it. `OrderInv`: the follow-ups recorded, held and
waiting stand in the order they were queued, at most one is held, in
a turn that has recorded none. `OweInv`: between a step's return and the turn's
end, an outcome of completion is the last step's own.

`ToolScheduler_proofs` proves, for every number of calls and every pool size
(`NAssumption`, `PoolAssumption`), every safety property the scheduler run
checks and four it need not check again: the pool's bound, that a batch leaves no
started call uncommitted, and that after a failure or an abort nothing starts.
`Terminates` alone stays with TLC:

- `ExclusiveIsABarrier`, `NoBodyOutlivesTheBatch`, `StartedCallsAreCommitted`
  and `TypeCorrect` follow from `Structure`: `Spec => []StructInv`.
- `PoolIsNeverExceeded` adds `PoolInv`: the bound on the in-flight map, strict
  while a call is being prepared.
- `AbortStopsStarts` adds `AbortInv`: at the fill test the sample equals the
  signal, as no await separates them.
- `FailureStopsBodies`: `Prepared` is the only step that starts a body.
- `SkippedCallsNeverRan` and `ImplementsOrderedResults` add `LogInv`: what the
  log says of each call, against where the scheduler stands and what its body did.

None of these is inductive alone. Take the barrier: that an exclusive body runs
alone needs that what runs is in flight and that what is in flight belongs to the
group (`DispatchInv`), that a new group opens with nothing in flight and everything
committed (`CursorInv`), and that the next uncommitted call is either in flight
or settled (`CommitInv`), without which a group could end with an
unanswered call. `StructInv` is their conjunction with `TypeOK`; each proof has
one step per action and under it one per disturbed conjunct. The refinement maps
`log` and the two counters; its step lemma shows each `Append` to be the
abstract step of the same name and every other step a stutter.

`LogHandle_proofs` proves, for any number of events, failures and flush calls
(`HandleBounds`), every safety property the handle run checks, from the
inductive `HandleInvariant`. Its parts:

- `ChainInv`: a turn stands in the mutation chain once; a drain's while the
  shared drain promise waits, a flush's while its call is queued; only the first
  has started, and only a drain holds a batch. Without it a failing turn
  could restore a batch behind another.
- `NothingLost` is `NothingIsEverLost`; it depends on the chain's order alone.
- `Silent`: a revoked handle has no route and no timer, and nothing buffered for a
  drain that waits; `Awaited`: its settlement counts every turn of the chain.
  Together they give `RevokedNeverWrites`.
- `FlushInv`: what a flush needs was published before it, and once its
  turn is reached behind its drain, nothing it needs is unstored. With
  `AllStored` (nothing buffered and nothing in hand means everything is stored)
  it gives `FlushAlwaysDurable`, also for the flush that joins a running drain.

`AgentLifecycle_proofs` proves, for any set of competing lifecycles
(`LifecycleAssumption`), `RegistryFollowsHandle`, `FailureLeavesNothing`,
`FactoryQuiescent` and that a call returns only live agents. `CreateInv` says what
a creation holds at each await; `DisposeInv` that only the disposal closes a
prepared lifecycle's handle, after the machine is idle and the scope is gone;
`RegistryInv` that one lifecycle holds the handle, and which are
registered; `FactoryInv` that the factory's disposal has reached everything
prepared. Each mentions the others' coroutine: that a creation may still be in
setup while `dp` is past its first wait is what the proof has to exclude. The
lifecycles in `reentrant` are the exception to both: their disposal runs beside the
discard, and the two close the same handle. `FactoryInv` says that the end of the
factory's disposal means that everything was joined or that a disposal rejected.

`Jobs_proofs` proves, for any jobs, owners, waiters and limit (`JobsAssumption`),
the three safety properties of the run and `ProducersBounded`: the code limits
records, but it is the work that must be bounded. The
argument is in `RecordInv` (a live job is in the store; a terminal record over
live work was forced), `OwnerInv` (an owner with records has its cleanup until
`disposeOwned` took over) and `ReportInv` (a report is claimed by telling somebody,
by a wait that will be told, or by teardown).

`TeamMailbox_proofs` proves, for any number of messages, pending messages and
faults (`MailboxAssumption`), `AcknowledgedIsStored`. The invariant says that
every delivered record and every transaction about to append one is covered by a
stored insertion, and every checkpoint and flushing dispatch by one that its own
flush will store (`WorkInv`), that the model has seen only what was inserted before it (`TargetInv`),
and that a dispatch awaits the only marking transaction (`MarkInv`). Crashes are
actions like any other: they never shorten the stored part.

`OnePendingCopyAlways` and `QueueOrderAlwaysKept` speak of the order and number of
copies in the teammate's queue, on which several dispatches, recovery passes and
crashes act. Both come from `OrderInv`, the conjunction of four parts with the
property. `CopyInv`: between two insertions of one message a claim has taken the first,
and what the running dispatch found out about its message still holds.
`WaitingInv`: only the first dispatch has read anything. `SendInv`: the sends
stand in the journal's queue in the order of their messages, and one that has
not been recorded is behind everything that is known in either log, any dispatch
or any pass. `BatchInv`, the part that carries the proof: a running
dispatch holds in its batch every queued message up to its own that has not
reached the teammate. Without it a dispatch could deliver its message before an
earlier one; that nothing earlier can be queued while the batch is worked off is
`SendInv`. The properties alone are not inductive, since neither says anything
about what is still in the journal or in the hand of a dispatch.

`ScheduleRuntime_proofs` proves, for any rules and bounds (`ScheduleAssumption`),
`PersistenceBeforeDecision`. `Serial` says why: of the queued transactions only
the first is past its start, so nothing is appended between a drive's
flush and its decision, and a barrier never asks for more than the log has.

`SentAtMostOnce` is `Spec => []SentOnce`: a firing is presented twice only across
a restart. The message and the record of its dispatches are two appends, and the
second may fail. `OnceInv` therefore says when the dispatches may be missing:
a follow-up of the present life has all of its dispatches behind it unless an
append has failed (`SentInv`), and then the drive can do nothing but end
(`RunInv`, which also has at most one drive in the queue). With the times of a
reminder's dispatches growing along the log (`DispatchTimes`), an occurrence
that is due again after its dispatch is a later one.

`CrashRepair_proofs` proves, for any number of turns, steps, calls, events and
crashes (`RepairBounds`), the four properties of the repair run, from
`RepairInvariant`, `Spec => []RepairInv`. TLC evaluated `RepairInv` on all states of the repair
model with 11 events and 2 crashes before it was proved. It is a statement about every prefix of the log,
since a crash may leave any that a reader can recover:

- `LogInv`: each prefix is `Sound`. The companion's cursor and repair's scan, which
  are two different passes over the same events, agree on what is open (`Shape`);
  events are of the open step or earlier (`Reached`); in the open step, a call is
  pending and unanswered or answered once, and marked started if it was recorded
  (`OpenCalls`, `PendingRequested`); in a step that ended with nothing pending
  each call has one answer (`ClosedCalls`).
- `StateInv`: `trace` is the cursor of `log`, and `closers` those of `log`. That
  the second survives the storing of one closer is the lemma `CloserStep`:
  the closers of the log with the first of them appended are the rest of them. It makes repair
  repeatable, so `RepairEndsAsItBegan` is its consequence wherever the crash keeps
  what the resume had read (`RepairsAlike`). `StoredLogsAreAccepted`
  adds that `seedSession`, which validates every event that it loads, refuses none.
- `TailInv`: what a reader can find after a crash lies between the complete frames
  and the log's end, and while the tail is torn or cut a repairing resume has
  appended nothing. So a crash shortens the log below `loaded` only while the tail is cut, the
  one exception in the theorem.
- `SettledInv`: a step not in `abandoned` ended with nothing pending, from which
  `ClosedCalls` gives `CallsAreAnsweredOnce`.
- `RanInv`: what ran stands behind a stored `tool/call`, and `OwnStepInv`: the live loop's
  open step has no fabricated answer. Together they carry `NotStartedHasNotRun`
  through a crash that cuts inside the step and through the repair's own events.

`Scanned` and `Cursor` are recursive functions over the log's length. What an append does to
them is proved by induction over sets of numbers (`Induct`, from the library's
theorem that `<` on Nat is well-founded): first that the recursion has one
solution, then that its value at n depends on the first n events alone.

Only model-checked: the liveness properties (`LiveWakeIsClaimed` among them), which rest on
fairness and ENABLED, both out of the proof system's reach here; and the three
violation runs, which a theorem cannot state. The library's induction
theorems take an operator as a parameter and cannot be instantiated here, so
where induction is needed it is over a set, as above. No module declares
a RECURSIVE operator.

## 5. Not modelled

Validation failures of an append are excluded by `LogProtocol` where they would
come from the driver. File formats, codecs and migrations are data. The scope
and plugin runtime is vendored; the modules assume of it that a disposed scope
awaits its cleanups. UI, transports, shells and sandboxes are I/O, and they are most
of the repository's lines. Each modelled component's section above names what of it
is left out. The components of section 1 without a module are below.

## 6. Plan

In the order of what it would add:

1. `Approval`: the decision appended after an await in which the turn was
   aborted or the policy changed (`interaction/user-approval`).
2. `GoalRounds`: one reservation, stale after every await (`goal/*`), over the
   driver's interface as in `ScheduleRuntime`.
3. `RequestRetry`, `RecordUnit`, `JournalStream`, subagent continuations.
4. Crashes inside `LogHandle` (`CrashRepair` has those of the torn tail), explicit
   append batches and what a creation appends before its session is
   routed; a pure check of the inbox's splice arithmetic.
