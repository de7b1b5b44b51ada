---------------------------- MODULE ToolScheduler ----------------------------
(***************************************************************************)
(* executeToolCalls and runGroup (packages/core/agent-loop/src/            *)
(* tool-calls.ts): the calls of one assistant step run as exclusive        *)
(* barriers and parallel pools, their bodies overlap, and their results    *)
(* are committed to the log in model order.                                *)
(*                                                                         *)
(* Calls are 1..N in model order; nextToStart, started and committed count *)
(* calls of the whole step rather than of the group, so a group is         *)
(* next+1..groupEnd.  Tool bodies settle, and the turn is cancelled,       *)
(* whenever the scheduler awaits.                                          *)
(***************************************************************************)
EXTENDS Integers, Sequences, FiniteSets

CONSTANTS N,                   \* calls of the step
          MaxParallelToolCalls \* AgentLoop config

ASSUME NAssumption == N \in Nat \ {0}
ASSUME PoolAssumption == MaxParallelToolCalls \in Nat \ {0}

Calls == 1..N

VARIABLES
    pc,                \* where the scheduler coroutine is suspended
    next,              \* calls consumed by finished groups
    mode, groupEnd,    \* the current group
    nextToStart, started, committed,
    inFlight,          \* dispatched calls whose settlement was not collected
    body,              \* each call's dispatch promise
    slots,             \* settled outcomes: a result that still needs finalize(), or a final one
    aborted,           \* the group's sampled flag
    signal,            \* the turn's abort signal
    schedulerFailure,
    log,               \* the tool/call and tool/result events appended
    concluded          \* a committed result carried concludesTurn

vars == <<pc, next, mode, groupEnd, nextToStart, started, committed, inFlight, body, slots,
          aborted, signal, schedulerFailure, log, concluded>>
groupVars == <<next, mode, groupEnd>>
dispatchVars == <<inFlight, body, slots>>

CallEvent(c, skipped) == [type |-> "tool/call", call |-> c, skipped |-> skipped]
ResultEvent(c, skipped) == [type |-> "tool/result", call |-> c, skipped |-> skipped]

Init ==
    /\ pc = "classify" /\ next = 0 /\ mode = "exclusive" /\ groupEnd = 0
    /\ nextToStart = 0 /\ started = 0 /\ committed = 0
    /\ inFlight = {} /\ body = [c \in Calls |-> "none"] /\ slots = [c \in Calls |-> "none"]
    /\ aborted = FALSE /\ signal \in BOOLEAN /\ schedulerFailure = FALSE
    /\ log = <<>> /\ concluded = FALSE

\* Mutant: an exclusive group takes the calls behind it too.
ClassifyGreedy ==
    /\ pc = "classify"
    /\ mode' \in {"parallel", "exclusive"} /\ groupEnd' = N
    /\ nextToStart' = next /\ started' = next /\ committed' = next
    /\ aborted' = signal
    /\ pc' = "fill"
    /\ UNCHANGED <<next, dispatchVars, signal, schedulerFailure, log, concluded>>

\* executeToolCalls' loop: classify the first unconsumed call, open its group.
Classify ==
    /\ pc = "classify"
    /\ \/ mode' = "parallel" /\ groupEnd' = N
       \/ mode' = "exclusive" /\ groupEnd' = next + 1
    /\ nextToStart' = next /\ started' = next /\ committed' = next
    /\ aborted' = signal
    /\ pc' = "fill"
    /\ UNCHANGED <<next, dispatchVars, signal, schedulerFailure, log, concluded>>

CanFill == ~aborted /\ nextToStart < groupEnd /\ Cardinality(inFlight) < MaxParallelToolCalls

\* fillPool: start the next call.  In a parallel pool a later call must still
\* be classified parallel, which the live registry decides anew.
StartCall ==
    /\ pc = "fill" /\ CanFill
    /\ log' = Append(log, CallEvent(nextToStart + 1, FALSE))
    /\ started' = started + 1
    /\ pc' = "preparing"
    /\ UNCHANGED <<groupVars, nextToStart, committed, dispatchVars, aborted, signal,
                   schedulerFailure, concluded>>

\* The pool is full, exhausted or aborted, or the next call became a barrier.
StopFilling ==
    /\ pc = "fill"
    /\ ~CanFill \/ (nextToStart > next /\ mode = "parallel")
    /\ pc' = "race"
    /\ UNCHANGED <<groupVars, nextToStart, started, committed, dispatchVars, aborted, signal,
                   schedulerFailure, log, concluded>>

\* startCall after prepare() (tools/pre-execute): dispatch the body, or take an
\* outcome that needs none.  A failure meanwhile stops the dispatch.
Prepared ==
    /\ pc = "preparing" /\ ~schedulerFailure
    /\ LET c == nextToStart + 1
       IN  \/ /\ body' = [body EXCEPT ![c] = "running"] /\ inFlight' = inFlight \union {c}
              /\ UNCHANGED slots
           \/ /\ slots' \in {[slots EXCEPT ![c] = "post"], [slots EXCEPT ![c] = "final"]}
              /\ UNCHANGED <<body, inFlight>>
    /\ pc' = "started"
    /\ UNCHANGED <<groupVars, nextToStart, started, committed, aborted, signal, schedulerFailure,
                   log, concluded>>

\* The catch: no new dispatch and no more commits; wait for what is running.
Fails ==
    /\ schedulerFailure' = TRUE /\ pc' = "draining"
    /\ UNCHANGED <<groupVars, started, committed, dispatchVars, aborted, signal, log, concluded>>

PrepareFails == pc = "preparing" /\ Fails /\ UNCHANGED nextToStart

\* fillPool after startCall resolved.
CallStarted ==
    /\ pc = "started"
    /\ nextToStart' = nextToStart + 1
    /\ \/ schedulerFailure /\ Fails
       \/ /\ ~schedulerFailure /\ pc' = "commit"
          /\ UNCHANGED <<groupVars, started, committed, dispatchVars, aborted, signal,
                         schedulerFailure, log, concluded>>

\* The next outcome in model order, once it settled.
Ready == IF committed < groupEnd THEN slots[committed + 1] ELSE "none"

\* The result event of the next call in model order.
CommitResult ==
    /\ log' = Append(log, ResultEvent(committed + 1, FALSE))
    /\ committed' = committed + 1
    /\ concluded' \in {concluded, TRUE}
    /\ pc' = "commit"
    /\ UNCHANGED <<groupVars, nextToStart, started, dispatchVars, aborted, signal,
                   schedulerFailure>>

\* commitReady: finish() is synchronous, finalize() (tools/post-execute) is awaited.
Finish == pc = "commit" /\ Ready = "final" /\ CommitResult

StartFinalize ==
    /\ pc = "commit" /\ Ready = "post"
    /\ pc' = "finalizing"
    /\ UNCHANGED <<groupVars, nextToStart, started, committed, dispatchVars, aborted, signal,
                   schedulerFailure, log, concluded>>

Finalized == pc = "finalizing" /\ CommitResult
FinalizeFails == pc = "finalizing" /\ Fails /\ UNCHANGED nextToStart

\* Mutant: a result that concludes the turn counts as an abort.
SampledConclusion == aborted \/ signal \/ concluded

Sampled == aborted \/ signal

\* After commitReady: a failure surfaces, else the abort is sampled and the pool refilled.
Committed ==
    /\ pc = "commit" /\ Ready = "none"
    /\ \/ schedulerFailure /\ Fails /\ UNCHANGED nextToStart
       \/ /\ ~schedulerFailure /\ pc' = "fill"
          /\ aborted' = Sampled
          /\ UNCHANGED <<groupVars, nextToStart, started, committed, dispatchVars, signal,
                         schedulerFailure, log, concluded>>

\* Mutant: a rejected dispatch never wins the race.
CollectResolved ==
    /\ pc = "race"
    /\ \E c \in inFlight : body[c] = "resolved" /\ inFlight' = inFlight \ {c}
    /\ pc' = IF schedulerFailure THEN "draining" ELSE "commit"
    /\ UNCHANGED <<groupVars, nextToStart, started, committed, body, slots, aborted, signal,
                   schedulerFailure, log, concluded>>

\* Promise.race over the in-flight dispatches.
Collect ==
    /\ pc = "race"
    /\ \E c \in inFlight : /\ body[c] # "running"
                           /\ inFlight' = inFlight \ {c}
    /\ pc' = IF schedulerFailure THEN "draining" ELSE "commit"
    /\ UNCHANGED <<groupVars, nextToStart, started, committed, body, slots, aborted, signal,
                   schedulerFailure, log, concluded>>

\* The group is over: go on with the next one, skip the rest, or return.  The
\* "uncommitted settled calls" throw in between is the invariant AllCommitted.
GroupEnds ==
    /\ pc = "race" /\ inFlight = {}
    /\ IF aborted THEN pc' = "skipping" /\ UNCHANGED next
       ELSE next' = started /\ pc' = IF started < N THEN "classify" ELSE "done"
    /\ UNCHANGED <<mode, groupEnd, nextToStart, started, committed, dispatchVars, aborted, signal,
                   schedulerFailure, log, concluded>>

\* appendSkippedToolCall, for the group's and then the step's unstarted calls.
SkipCall ==
    /\ pc = "skipping" /\ started < N
    /\ log' = Append(log, CallEvent(started + 1, TRUE))
    /\ started' = started + 1
    /\ pc' = "skipped"
    /\ UNCHANGED <<groupVars, nextToStart, committed, dispatchVars, aborted, signal,
                   schedulerFailure, concluded>>

SkipResult ==
    /\ pc = "skipped"
    /\ log' = Append(log, ResultEvent(started, TRUE))
    /\ committed' = started
    /\ pc' = "skipping"
    /\ UNCHANGED <<groupVars, nextToStart, started, dispatchVars, aborted, signal,
                   schedulerFailure, concluded>>

SkippingDone ==
    /\ pc = "skipping" /\ started = N
    /\ pc' = "done"
    /\ UNCHANGED <<groupVars, nextToStart, started, committed, dispatchVars, aborted, signal,
                   schedulerFailure, log, concluded>>

\* Mutants: the failure is thrown at once; the failure is swallowed.
DrainedAtOnce ==
    /\ pc = "draining"
    /\ pc' = "failed"
    /\ UNCHANGED <<groupVars, nextToStart, started, committed, dispatchVars, aborted, signal,
                   schedulerFailure, log, concluded>>
DrainedSilently ==
    /\ pc = "draining" /\ \A c \in inFlight : body[c] # "running"
    /\ pc' = "done"
    /\ UNCHANGED <<groupVars, nextToStart, started, committed, dispatchVars, aborted, signal,
                   schedulerFailure, log, concluded>>

\* Promise.allSettled, then the first failure is thrown.
Drained ==
    /\ pc = "draining" /\ \A c \in inFlight : body[c] # "running"
    /\ pc' = "failed"
    /\ UNCHANGED <<groupVars, nextToStart, started, committed, dispatchVars, aborted, signal,
                   schedulerFailure, log, concluded>>

\* Environment: dispatched bodies settle, the turn is cancelled.
BodyResolves(c) ==
    /\ body[c] = "running"
    /\ body' = [body EXCEPT ![c] = "resolved"]
    /\ slots' \in {[slots EXCEPT ![c] = "post"], [slots EXCEPT ![c] = "final"]}
    /\ UNCHANGED <<pc, groupVars, nextToStart, started, committed, inFlight, aborted, signal,
                   schedulerFailure, log, concluded>>

BodyRejects(c) ==
    /\ body[c] = "running"
    /\ body' = [body EXCEPT ![c] = "rejected"]
    /\ schedulerFailure' = TRUE
    /\ UNCHANGED <<pc, groupVars, nextToStart, started, committed, inFlight, slots, aborted,
                   signal, log, concluded>>

\* "fill" is reached synchronously from where the signal was sampled.
Cancel ==
    /\ ~signal /\ pc \notin {"fill", "done", "failed"}
    /\ signal' = TRUE
    /\ UNCHANGED <<pc, groupVars, nextToStart, started, committed, dispatchVars, aborted,
                   schedulerFailure, log, concluded>>

Scheduler ==
    \/ Classify \/ StartCall \/ StopFilling \/ Prepared \/ PrepareFails \/ CallStarted
    \/ Finish \/ StartFinalize \/ Finalized \/ FinalizeFails \/ Committed
    \/ Collect \/ GroupEnds \/ SkipCall \/ SkipResult \/ SkippingDone \/ Drained

Bodies == \E c \in Calls : BodyResolves(c) \/ BodyRejects(c)

Next == Scheduler \/ Bodies \/ Cancel

Spec == Init /\ [][Next]_vars

\* Awaited hooks and dispatched bodies settle; the user need not cancel.
FairSpec == Spec /\ WF_vars(Scheduler) /\ WF_vars(Bodies)

-----------------------------------------------------------------------------
(* Properties.                                                             *)

Labels == {"classify", "fill", "preparing", "started", "commit", "finalizing", "race",
           "draining", "skipping", "skipped", "done", "failed"}
LogEvents == [type : {"tool/call", "tool/result"}, call : Calls, skipped : BOOLEAN]

TypeOK ==
    /\ pc \in Labels /\ next \in 0..N /\ mode \in {"parallel", "exclusive"} /\ groupEnd \in 0..N
    /\ nextToStart \in 0..N /\ started \in 0..N /\ committed \in 0..N
    /\ inFlight \subseteq Calls
    /\ body \in [Calls -> {"none", "running", "resolved", "rejected"}]
    /\ slots \in [Calls -> {"none", "post", "final"}]
    /\ aborted \in BOOLEAN /\ signal \in BOOLEAN /\ schedulerFailure \in BOOLEAN
    /\ log \in Seq(LogEvents) /\ concluded \in BOOLEAN

running == {c \in Calls : body[c] = "running"}

\* An exclusive call is a barrier: no body overlaps it, neither one left over
\* from an earlier pool nor one started behind it.
ExclusiveRunsAlone == mode = "exclusive" => \A c, d \in running : c = d

\* At most maxParallelToolCalls bodies run at once, over refills and groups.
PoolIsBounded == Cardinality(running) <= MaxParallelToolCalls

\* The scheduler neither returns nor throws while a body it dispatched is running.
NothingRunsAfterwards == pc \in {"done", "failed"} => running = {}

\* "unreachable: a non-aborted group commits every started call" (tool-calls.ts:244),
\* for aborted groups too: the skipped results never overtake a real one.
AllCommitted == pc = "race" /\ inFlight = {} => committed = started

\* A result fabricated for a skipped call exists only under cancellation, and
\* that call's body never ran; a failed scheduler has fabricated none.
SkippedNeverRan ==
    \A i \in 1..Len(log) :
        log[i].skipped => signal /\ body[log[i].call] = "none" /\ pc \notin {"draining", "failed"}

\* After the turn's signal aborts, no further call is started.
CancelStopsStarts == [][signal => ~(pc = "fill" /\ pc' = "preparing")]_vars

\* A scheduler failure stops dispatch: no body starts after it.
FailureStopsDispatch == [][schedulerFailure => \A c \in Calls : body[c] = "none" => body'[c] = "none"]_vars

\* The batch keeps the promise of OrderedResults.
Outcome == IF pc = "done" THEN "returned" ELSE IF pc = "failed" THEN "threw" ELSE "running"
Batch == INSTANCE OrderedResults WITH outcome <- Outcome, called <- started, answered <- committed
ResultsInModelOrder == Batch!Spec

\* The batch always ends, whatever its calls are classified as and however
\* dispatches, failures and the abort interleave.
Terminates == <>(pc \in {"done", "failed"})

=============================================================================
