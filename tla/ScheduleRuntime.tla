-------------------------- MODULE ScheduleRuntime --------------------------
(***************************************************************************)
(* Durable reminders of one root agent (packages/schedule/schedule/src):   *)
(* the runtime that sends what is due (runtime.ts), the tools that create, *)
(* delete and list reminders (tools.ts), the queue that serializes both    *)
(* (transaction.ts) and the fold of the log they decide from (domain.ts).  *)
(*                                                                         *)
(* The agent is what the runtime sees of it: an idle phase to claim, turns *)
(* that run tools and report when they end, and foreign maintenance.       *)
(***************************************************************************)
EXTENDS Integers, Sequences, FiniteSets

CONSTANTS
    Delay,         \* the delays callers ask of a one-shot reminder
    Interval,      \* the intervals they ask of a fixed-rate one
    MaxReminder,   \* bound: reminders in the log
    MaxTime,       \* bound: the wall clock
    MaxDelay,      \* MAX_TIMER_DELAY_MS
    MaxCall,       \* bound: tool calls
    MaxActivity,   \* bound: turns, and maintenance, the runtime does not start
    MaxFault,      \* bound: failures, cancelled calls and clock changes
    MaxLife        \* bound: crashes and reopened sessions

ASSUME ScheduleAssumption ==
    /\ Delay \cup Interval \subseteq Nat \ {0}
    /\ {MaxReminder, MaxTime, MaxCall, MaxActivity, MaxFault, MaxLife} \subseteq Nat
    /\ MaxDelay \in Nat \ {0}

Reminder == 1 .. MaxReminder
Rule == [delay : Delay, every : {0}] \cup {[delay |-> n, every |-> n] : n \in Interval}
None == -1

VARIABLES
    log, stored,                 \* the session's events, and how many are on disk
    now, timer,                  \* the wall clock; what is left of the armed delay, or None
    phase,                       \* the agent: idle, running, maintenance (ours), busy (foreign maintenance)
    run,                         \* the run coroutine: none, driving, checking, retiring
    requested, faulted, idleWait,
    disposal,                    \* no, stopping, done
    queue,                       \* the agent's schedule transactions, the running one first
    calls, activities, faults, life,
    missed                       \* history: a failure has left the runtime without a trigger

logVars == <<log, stored>>
runtimeVars == <<timer, run, requested, faulted, idleWait, missed>>
boundVars == <<calls, activities, faults, life>>
vars == <<logVars, now, phase, runtimeVars, disposal, queue, boundVars>>

Drive == [op |-> "drive", id |-> 0, at |-> "start", upTo |-> 0]
Init ==
    /\ log = <<>> /\ stored = 0 /\ now = 0 /\ phase = "idle" /\ disposal = "no"
    /\ run = "driving" /\ queue = <<Drive>> /\ timer = None
    /\ requested = FALSE /\ faulted = FALSE /\ idleWait = FALSE /\ missed = FALSE
    /\ calls = 0 /\ activities = [kind \in {"running", "busy"} |-> 0] /\ faults = 0 /\ life = 0

-----------------------------------------------------------------------------
(* foldScheduleEvents: the active records, and their next targets.         *)

Event(op, id, at, every) == [op |-> op, id |-> id, at |-> at, every |-> every, sent |-> {}]
\* One follow-up message names the reminders it presents and their occurrences.
Followup(sent) == [op |-> "followup", id |-> 0, at |-> life, every |-> 0, sent |-> sent]

Events(op, id) == {i \in DOMAIN log : log[i].op = op /\ log[i].id = id}
Created == {log[i].id : i \in {j \in DOMAIN log : log[j].op = "create"}}
Record(id) == log[CHOOSE i \in Events("create", id) : TRUE]
OneShot(id) == Record(id).every = 0
Active == {id \in Created : Events("delete", id) = {} /\ (OneShot(id) => Events("dispatch", id) = {})}

\* resolveEveryOccurrence: the latest occurrence due at a time, aligned to the
\* target.  A dispatch advances the target past the time it was accepted.
Occurrence(id, target, time) ==
    IF OneShot(id) THEN target
    ELSE target + ((time - target) \div Record(id).every) * Record(id).every
Target(id) ==
    LET dispatches == Events("dispatch", id)
    IN  IF dispatches = {} THEN Record(id).at
        ELSE LET last == CHOOSE i \in dispatches : \A j \in dispatches : j <= i
             IN  Occurrence(id, Record(id).at, log[last].at) + Record(id).every

Due == {id \in Active : Target(id) <= now}
Before(a, b) == Target(a) < Target(b) \/ (Target(a) = Target(b) /\ a <= b)
\* dueDecision: the first due one-shot, else every due fixed-rate reminder.
Decision ==
    LET shots == {id \in Due : OneShot(id)}
    IN  IF shots = {} THEN Due ELSE {id \in shots : \A other \in shots : Before(id, other)}

-----------------------------------------------------------------------------
(* The runtime's triggers, and its transactions.                           *)

Stopping == disposal # "no"
Fault == faults < MaxFault /\ faults' = faults + 1 /\ UNCHANGED <<calls, activities, life>>

\* requestDrive, while the queue becomes q: a run that is under way goes round again.
RequestDrive(q) ==
    IF Stopping \/ faulted THEN queue' = q /\ UNCHANGED <<timer, requested, run, missed>>
    ELSE /\ timer' = None /\ missed' = FALSE
         /\ IF run = "none" THEN run' = "driving" /\ requested' = FALSE /\ queue' = Append(q, Drive)
            ELSE requested' = TRUE /\ queue' = q /\ UNCHANGED run

\* Mutant: transactions run side by side.
AllTurns == DOMAIN queue
\* runScheduleTransaction: only the first transaction runs.
Turns == {i \in DOMAIN queue : i = 1}
At(i, ops, at) == queue[i].op \in ops /\ queue[i].at = at
Without(i) == SubSeq(queue, 1, i - 1) \o SubSeq(queue, i + 1, Len(queue))
Becomes(i, at) == [queue EXCEPT ![i] = [@ EXCEPT !.at = at, !.upTo = Len(log')]]

\* A flush that returns has stored at least what the log held at its call.
Flushed(i) == IF queue[i].upTo > stored THEN queue[i].upTo ELSE stored

\* driveOnce returns; its run goes on to look for another request.
DriveReturns(i) == queue' = Without(i) /\ run' = "checking"

DriveStarts(i) ==
    /\ At(i, {"drive"}, "start")
    /\ UNCHANGED <<logVars, now, phase, requested, faulted, idleWait, missed, disposal, boundVars>>
    /\ timer' = None
    /\ IF Stopping THEN DriveReturns(i) ELSE queue' = Becomes(i, "preflight") /\ UNCHANGED run

\* The preflight rejects, before a decision or behind a dispatch.
DriveFlushFails(i) ==
    /\ At(i, {"drive"}, "preflight") \/ At(i, {"drive"}, "barrier")
    /\ Fault /\ DriveReturns(i) /\ missed' = TRUE
    /\ UNCHANGED <<logVars, now, phase, timer, requested, faulted, idleWait, disposal>>

Preflighted(i) ==
    /\ At(i, {"drive"}, "preflight") /\ stored' = Flushed(i)
    /\ UNCHANGED <<now, requested, disposal>>

DriveStops(i) ==
    /\ Preflighted(i) /\ Stopping /\ DriveReturns(i)
    /\ UNCHANGED <<log, phase, timer, faulted, idleWait, missed, boundVars>>

\* arm: one bounded segment of the delay to the earliest target.
Armed(targets) ==
    IF targets = {} THEN None
    ELSE LET delay == (CHOOSE t \in targets : \A u \in targets : t <= u) - now
         IN  IF delay < MaxDelay THEN delay ELSE MaxDelay

DriveWaits(i) ==
    /\ Preflighted(i) /\ ~Stopping /\ Due = {} /\ DriveReturns(i)
    /\ timer' = Armed({Target(id) : id \in Active})
    /\ UNCHANGED <<log, phase, faulted, idleWait, missed, boundVars>>

DriveFindsBusy(i) ==
    /\ Preflighted(i) /\ ~Stopping /\ Due # {} /\ phase # "idle" /\ DriveReturns(i)
    /\ idleWait' = TRUE
    /\ UNCHANGED <<log, phase, timer, faulted, missed, boundVars>>

\* runMaintenance runs its task up to the first await: it folds the log again,
\* sends one follow-up and appends a dispatch for each reminder in it.
Claims(i) == Preflighted(i) /\ ~Stopping /\ Due # {} /\ phase = "idle" /\ phase' = "maintenance"
Sent == {<<id, Occurrence(id, Target(id), now)>> : id \in Decision}
\* A batch is dispatched by target, then creation.
InOrder(ids) == {s \in [1 .. Cardinality(ids) -> ids] : \A j, k \in DOMAIN s : j < k => s[j] # s[k] /\ Before(s[j], s[k])}
Dispatches(order) == [k \in DOMAIN order |-> Event("dispatch", order[k], now, 0)]

DriveSends(i) ==
    /\ Claims(i)
    /\ \E order \in InOrder(Decision) : log' = Append(log, Followup(Sent)) \o Dispatches(order)
    /\ queue' = Becomes(i, "sent")
    /\ UNCHANGED <<timer, run, faulted, idleWait, missed, boundVars>>

\* Mutant: a failed append leaves the runtime as it was.
AppendTolerated == FALSE
AppendFaults == TRUE

\* An append throws with the message queued and some dispatches recorded.
DispatchFails(i) ==
    /\ Claims(i) /\ Fault
    /\ \E order \in InOrder(Decision), k \in 0 .. Cardinality(Decision) - 1 :
          log' = Append(log, Followup(Sent)) \o SubSeq(Dispatches(order), 1, k)
    /\ faulted' = AppendFaults /\ timer' = None
    /\ queue' = Becomes(i, "unrecorded")
    /\ UNCHANGED <<run, idleWait, missed>>

\* The framing or the follow-up throws: nothing is recorded.
FollowupFails(i) ==
    /\ Claims(i) /\ Fault /\ missed' = TRUE
    /\ queue' = [queue EXCEPT ![i].at = "unsent"]
    /\ UNCHANGED <<log, timer, run, faulted, idleWait>>

\* The maintenance ends, and a queued message wakes the driver.
MaintenanceEnds(i) ==
    /\ At(i, {"drive"}, "sent") \/ At(i, {"drive"}, "unrecorded") \/ At(i, {"drive"}, "unsent")
    /\ phase' = IF At(i, {"drive"}, "unsent") THEN "idle" ELSE "running"
    /\ IF At(i, {"drive"}, "sent") THEN queue' = [queue EXCEPT ![i].at = "barrier"] /\ UNCHANGED run
       ELSE DriveReturns(i)
    /\ UNCHANGED <<logVars, now, timer, requested, faulted, idleWait, missed, disposal, boundVars>>

DispatchStored(i) ==
    /\ At(i, {"drive"}, "barrier") /\ stored' = Flushed(i) /\ DriveReturns(i)
    /\ IF Stopping \/ faulted THEN UNCHANGED <<timer, requested, missed>>
       ELSE timer' = None /\ requested' = TRUE /\ missed' = FALSE
    /\ UNCHANGED <<log, now, phase, faulted, idleWait, disposal, boundVars>>

\* runRequested tests its loop once more, then the run settles and is retired.
RunChecks ==
    /\ run = "checking"
    /\ IF requested /\ ~Stopping /\ ~faulted
       THEN run' = "driving" /\ requested' = FALSE /\ missed' = FALSE /\ queue' = Append(queue, Drive)
       ELSE run' = "retiring" /\ UNCHANGED <<requested, missed, queue>>
    /\ UNCHANGED <<logVars, now, phase, timer, faulted, idleWait, disposal, boundVars>>

\* Mutant: a request that came after the last test is forgotten.
RetiresOnly == FALSE
Rerequests == requested /\ ~Stopping /\ ~faulted

Retires ==
    /\ run = "retiring"
    /\ IF Rerequests
       THEN run' = "driving" /\ requested' = FALSE /\ timer' = None /\ missed' = FALSE /\ queue' = Append(queue, Drive)
       ELSE run' = "none" /\ UNCHANGED <<requested, timer, missed, queue>>
    /\ UNCHANGED <<logVars, now, phase, faulted, idleWait, disposal, boundVars>>

-----------------------------------------------------------------------------
(* The tools.  A schedule_list does what the deletion of no reminder, 0,   *)
(* does: it flushes, notifies the runtime and reads.                       *)

Tool == {"create", "delete"}

ToolCalled(op, id) ==
    /\ phase = "running" /\ ~Stopping /\ calls < MaxCall /\ calls' = calls + 1
    /\ queue' = Append(queue, [op |-> op, id |-> id, at |-> "start", upTo |-> 0])
    /\ UNCHANGED <<logVars, now, phase, runtimeVars, disposal, activities, faults, life>>

ToolStarts(i) ==
    /\ At(i, Tool, "start")
    /\ UNCHANGED <<logVars, now, phase, runtimeVars, disposal, boundVars>>
    /\ queue' = Becomes(i, "preflight")

\* Cancelled before its turn, or a flush before or behind the change rejects.
ToolFails(i) ==
    /\ \E at \in {"start", "preflight", "barrier"} : At(i, Tool, at)
    /\ Fault /\ queue' = Without(i)
    /\ UNCHANGED <<logVars, now, phase, runtimeVars, disposal>>

\* Every successful preflight notifies the runtime before the tool folds the log.
ToolPreflighted(i, ops) ==
    /\ At(i, ops, "preflight") /\ stored' = Flushed(i)
    /\ UNCHANGED <<now, phase, faulted, idleWait, disposal>>

\* A list, or the deletion of a reminder that is not active.
ToolReads(i) ==
    /\ ToolPreflighted(i, {"delete"}) /\ queue[i].id \notin Active
    /\ RequestDrive(Without(i)) /\ UNCHANGED <<log, boundVars>>

\* Cancelled before the append, or the append throws.
ToolGivesUp(i) ==
    /\ ToolPreflighted(i, Tool)
    /\ Fault /\ RequestDrive(Without(i)) /\ UNCHANGED log

ToolCreates(i) ==
    /\ ToolPreflighted(i, {"create"})
    /\ Cardinality(Created) < MaxReminder
    /\ \E rule \in Rule :
          log' = Append(log, Event("create", Cardinality(Created) + 1, now + rule.delay, rule.every))
    /\ RequestDrive(Becomes(i, "barrier")) /\ UNCHANGED boundVars

ToolDeletes(i) ==
    /\ ToolPreflighted(i, {"delete"}) /\ queue[i].id \in Active
    /\ log' = Append(log, Event("delete", queue[i].id, now, 0))
    /\ RequestDrive(Becomes(i, "barrier")) /\ UNCHANGED boundVars

ToolConfirms(i) ==
    /\ At(i, Tool, "barrier") /\ stored' = Flushed(i)
    /\ RequestDrive(Without(i))
    /\ UNCHANGED <<log, now, phase, faulted, idleWait, disposal, boundVars>>

-----------------------------------------------------------------------------
(* The agent, the clock, and the ends of the runtime.                      *)

\* Someone starts a turn, or other maintenance claims the idle phase.
ActivityStarts ==
    /\ phase = "idle" /\ ~Stopping
    /\ \E kind \in {"running", "busy"} :
          /\ activities[kind] < MaxActivity /\ activities' = [activities EXCEPT ![kind] = @ + 1]
          /\ phase' = kind
    /\ UNCHANGED <<logVars, now, runtimeVars, disposal, queue, calls, faults, life>>

\* A turn joins its tools.  Its end is reported: agent/status goes idle.
TurnEnds ==
    /\ phase = "running" /\ \A i \in DOMAIN queue : queue[i].op = "drive"
    /\ phase' = "idle"
    /\ IF Created = {} THEN UNCHANGED <<queue, timer, requested, run, missed>> ELSE RequestDrive(queue)
    /\ UNCHANGED <<logVars, now, faulted, idleWait, disposal, boundVars>>

\* The end of maintenance is no change of status.
BusyEnds ==
    /\ phase = "busy" /\ phase' = "idle"
    /\ UNCHANGED <<logVars, now, runtimeVars, disposal, queue, boundVars>>

\* Mutant: the wait for an idle agent does not race the runtime's stop.
IdleOnly == phase = "idle"
IdleOrStopped == phase = "idle" \/ Stopping

IdleResolves ==
    /\ idleWait /\ IdleOrStopped /\ idleWait' = FALSE
    /\ RequestDrive(queue)
    /\ UNCHANGED <<logVars, now, phase, faulted, disposal, boundVars>>

\* The callback clears the armed timer and requests a drive.
TimerFires ==
    /\ timer = 0
    /\ IF Stopping \/ faulted THEN timer' = None /\ UNCHANGED <<queue, requested, run, missed>>
       ELSE RequestDrive(queue)
    /\ UNCHANGED <<logVars, now, phase, faulted, idleWait, disposal, boundVars>>

Tick ==
    /\ timer > 0 \/ now < MaxTime
    /\ now' = IF now < MaxTime THEN now + 1 ELSE now
    /\ timer' = IF timer > 0 THEN timer - 1 ELSE timer
    /\ UNCHANGED <<logVars, phase, run, requested, faulted, idleWait, missed, disposal, queue, boundVars>>

\* The wall clock is set; a timer counts on.
ClockJumps ==
    /\ Fault /\ now' \in 0 .. MaxTime \ {now}
    /\ UNCHANGED <<logVars, phase, runtimeVars, disposal, queue>>

Disposes ==
    /\ disposal = "no" /\ disposal' = "stopping" /\ requested' = FALSE /\ timer' = None
    /\ UNCHANGED <<logVars, now, phase, run, faulted, idleWait, missed, queue, boundVars>>

DisposeEnds ==
    /\ disposal = "stopping" /\ run = "none" /\ ~idleWait /\ disposal' = "done"
    /\ UNCHANGED <<logVars, now, phase, runtimeVars, queue, boundVars>>

\* A new runtime starts over the k stored events of a session.
Restarts(k) ==
    /\ life < MaxLife /\ life' = life + 1
    /\ log' = SubSeq(log, 1, k) /\ stored' = k
    /\ run' = "driving" /\ queue' = <<Drive>> /\ timer' = None /\ phase' = "idle" /\ disposal' = "no"
    /\ requested' = FALSE /\ faulted' = FALSE /\ idleWait' = FALSE /\ missed' = FALSE
    /\ UNCHANGED <<now, calls, activities, faults>>

Crash == \E k \in stored .. Len(log) : Restarts(k)
Reopens == disposal = "done" /\ queue = <<>> /\ phase = "idle" /\ Restarts(Len(log))

-----------------------------------------------------------------------------
DriveStep(i) ==
    \/ DriveStarts(i) \/ DriveFlushFails(i) \/ DriveStops(i) \/ DriveWaits(i) \/ DriveFindsBusy(i)
    \/ DriveSends(i) \/ DispatchFails(i) \/ FollowupFails(i) \/ MaintenanceEnds(i) \/ DispatchStored(i)
ToolStep(i) ==
    \/ ToolStarts(i) \/ ToolFails(i) \/ ToolReads(i) \/ ToolGivesUp(i)
    \/ ToolCreates(i) \/ ToolDeletes(i) \/ ToolConfirms(i)
Turn == \E i \in Turns : DriveStep(i) \/ ToolStep(i)

Next ==
    \/ Turn \/ RunChecks \/ Retires
    \/ ToolCalled("create", 0) \/ \E id \in Created \cup {0} : ToolCalled("delete", id)
    \/ ActivityStarts \/ TurnEnds \/ BusyEnds \/ IdleResolves \/ TimerFires \/ Tick \/ ClockJumps
    \/ Disposes \/ DisposeEnds \/ Crash \/ Reopens

Spec == Init /\ [][Next]_vars

\* The event loop runs what is ready: flushes return or reject, callbacks and
\* timers run.  Time goes on and turns end; other maintenance may last for ever.
Ready == Turn \/ RunChecks \/ Retires \/ IdleResolves \/ TimerFires \/ DisposeEnds
Fairness == WF_vars(Ready) /\ WF_vars(TurnEnds) /\ WF_vars(Tick)
FairSpec == Spec /\ Fairness

-----------------------------------------------------------------------------
Entry == [op : {"create", "delete", "dispatch", "followup"}, id : Nat, at : Nat, every : Nat,
          sent : SUBSET (Nat \X Int)]
Transaction == [op : Tool \cup {"drive"}, id : Nat, upTo : Nat,
                at : {"start", "preflight", "barrier", "sent", "unrecorded", "unsent"}]

TypeOK ==
    /\ log \in Seq(Entry) /\ stored \in Nat /\ now \in Nat /\ timer \in Int
    /\ phase \in {"idle", "running", "maintenance", "busy"}
    /\ run \in {"none", "driving", "checking", "retiring"} /\ disposal \in {"no", "stopping", "done"}
    /\ requested \in BOOLEAN /\ faulted \in BOOLEAN /\ idleWait \in BOOLEAN /\ missed \in BOOLEAN
    /\ queue \in Seq(Transaction)
    /\ calls \in Nat /\ faults \in Nat /\ life \in Nat /\ activities \in [{"running", "busy"} -> Nat]

\* A reminder's occurrence is presented twice only by another life of the
\* session that never read its dispatch: an append that fails behind the message
\* faults the runtime, and the crash window is as narrow as the dispatch's flush.
SentOnce ==
    \A i, j \in DOMAIN log : i < j /\ log[i].op = "followup" /\ log[j].op = "followup" =>
        \A once \in log[i].sent \cap log[j].sent :
            /\ log[i].at < log[j].at
            /\ \A k \in i .. j : log[k].op = "dispatch" /\ log[k].id = once[1] => log[k].at < once[2]

\* What a follow-up is decided from is on disk: every earlier creation,
\* deletion and dispatch is stored when the message is queued.
PersistenceBeforeDecision ==
    [][phase # "maintenance" /\ phase' = "maintenance" =>
          \A i \in DOMAIN log : log[i].op # "followup" => i <= stored']_vars

\* Unless foreign maintenance never ends, no reminder stays due: it is sent or
\* deleted, or the runtime has reported why it stopped trying: a failed flush or
\* message (until the next trigger), a failed append, or disposal.
DueIsSent == []<>(phase # "busy") => []<>(Due = {} \/ missed \/ faulted \/ Stopping)

\* Disposal joins the run and the idle wait, whatever the agent is doing.
DisposalSettles == []<>(disposal # "stopping")
=============================================================================
