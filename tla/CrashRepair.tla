----------------------------- MODULE CrashRepair -----------------------------
(***************************************************************************)
(* One session log over process crashes: the agent loop appends events in  *)
(* memory, the checkpoint policy (packages/session/session-checkpoint-     *)
(* policy) holds model requests and tool bodies back until the log is      *)
(* durable, a crash keeps what is durable and perhaps the first events of  *)
(* the frame being written, and resuming appends what                      *)
(* interruptedTurnClosers (packages/core/session/src/repair.ts) computes.  *)
(*                                                                         *)
(* The store writes one frame per batch and fsyncs it.  Of a torn last     *)
(* frame a reader recovers the complete events; the writer's first batch   *)
(* truncates that frame, then writes the recovered events again.  The      *)
(* first batch of a log can be torn too: its header may have been flushed  *)
(* alone.                                                                  *)
(*                                                                         *)
(* Events are those of TurnLog.  Call ids number the calls of one step and *)
(* so repeat from step to step; in an assistant/message, `call` is the     *)
(* number of its tool-call blocks.  Only events that repair or the         *)
(* companion distinguishes are kept.                                       *)
(***************************************************************************)
EXTENDS Integers, Sequences, FiniteSets, SequencesExt

CONSTANTS MaxTurn,   \* turns of the log
          MaxStep,   \* steps of a turn
          MaxCalls,  \* tool calls of a step
          MaxEvents, \* length up to which the live loop appends
          MaxCrash   \* crashes, those during repair included

ASSUME RepairBounds == {MaxTurn, MaxStep, MaxCalls, MaxEvents, MaxCrash} \subseteq Nat

VARIABLES
    mode,      \* a live agent, no process, or a resume appending closers
    log,       \* the session's events
    trace,     \* the companion's cursor at the end of log
    durable,   \* length of the prefix stored in complete frames
    loaded,    \* length of the log that survived the last crash
    tail,      \* what follows the complete frames: nothing to repair, a torn
               \* frame with recovered events, or their rewriting
    closers,   \* synthetic events still to append
    ran,       \* tool bodies that ever ran, by turn, step and call
    abandoned, \* steps the live loop closed over unanswered calls
    crashes

diskVars == <<durable, loaded, tail>>
vars == <<mode, log, trace, diskVars, closers, ran, abandoned, crashes>>

T == INSTANCE TurnLog WITH CallIds <- 1..MaxCalls

turn == trace.openTurn
step == trace.openStep

-----------------------------------------------------------------------------
(* interruptedTurnClosers.                                                 *)

NothingOpen == [openTurn |-> T!None, openStep |-> T!None, pending |-> <<>>]

\* Mutant: only the first call of a message is expected to be answered.
FirstRequestOnly(e) == IF e.call = 0 THEN <<>> ELSE <<[call |-> 1, step |-> e.step, started |-> FALSE]>>

\* The tool-call blocks of an assistant message, as pending entries.
Requests(e) == [c \in 1..e.call |-> [call |-> c, step |-> e.step, started |-> FALSE]]

ResultTypes == {"tool/result", "tool/not-started"}

\* Mutant: results that repair itself wrote are not recognised.
AnswersReally(e) == e.type = "tool/result"
Answers(e) == e.type \in ResultTypes

\* `pending` is the insertion-ordered Map, one entry for a call.
EntryOf(pending, c) == {i \in DOMAIN pending : pending[i].call = c}
Started(pending, c) == [i \in DOMAIN pending |-> [pending[i] EXCEPT !.started = @ \/ pending[i].call = c]]
Deleted(pending, c) ==
    IF EntryOf(pending, c) = {} THEN pending ELSE RemoveAt(pending, CHOOSE i \in EntryOf(pending, c) : TRUE)

\* One iteration of the scan.
Scan(s, e) ==
    CASE e.type = "turn/start" -> [NothingOpen EXCEPT !.openTurn = e.turn]
      [] e.type = "turn/end"   -> NothingOpen
      [] e.type = "step/start" -> [s EXCEPT !.openStep = e.step]
      [] e.type = "step/end"   -> [s EXCEPT !.openStep = T!None, !.pending = <<>>]
      [] e.type = "assistant/message" ->
            [s EXCEPT !.pending = @ \o Requests(e)]
      [] e.type = "tool/call"  -> [s EXCEPT !.pending = Started(@, e.call)]
      [] Answers(e) -> [s EXCEPT !.pending = Deleted(@, e.call)]
      [] OTHER -> s

\* The scan, and the companion's cursor, at the end of the events.
Scanned(events) ==
    LET scan[n \in 0..Len(events)] == IF n = 0 THEN NothingOpen ELSE Scan(scan[n - 1], events[n])
    IN  scan[Len(events)]
Cursor(events) ==
    LET cursor[n \in 0..Len(events)] == IF n = 0 THEN T!FreshTrace ELSE T!Apply(cursor[n - 1], events[n])
    IN  cursor[Len(events)]

\* Mutant: the turn is closed only with its step.
TurnCloserMidStep(s) ==
    IF s.openStep = T!None THEN <<>> ELSE <<T!Event("turn/end", s.openTurn, T!None)>>

StepCloser(s) == IF s.openStep = T!None THEN <<>> ELSE <<T!Event("step/end", s.openTurn, s.openStep)>>
TurnCloser(s) == <<T!Event("turn/end", s.openTurn, T!None)>>

Closers(events) ==
    LET s == Scanned(events)
        Answer(p) == T!CallEvent(IF p.started THEN "tool/result" ELSE "tool/not-started",
                                 s.openTurn, p.step, p.call)
    IN  IF s.openTurn = T!None THEN <<>>
        ELSE [i \in DOMAIN s.pending |-> Answer(s.pending[i])]
             \o StepCloser(s) \o TurnCloser(s)

-----------------------------------------------------------------------------
(* The live agent.  Every flush may fail, which only keeps its effect from *)
(* happening: the step or the turn then closes early.                      *)

Init == /\ mode = "live" /\ log = <<>> /\ trace = T!FreshTrace /\ closers = <<>>
        /\ durable = 0 /\ loaded = 0 /\ tail = "whole"
        /\ ran = {} /\ abandoned = {} /\ crashes = 0

InMemory(e) ==
    /\ mode = "live" /\ Len(log) < MaxEvents
    /\ log' = Append(log, e) /\ trace' = T!Apply(trace, e)
    /\ UNCHANGED <<mode, diskVars, closers, ran, crashes>>

Flushed == durable = Len(log)

StartTurn ==
    /\ turn = T!None /\ trace.nextTurn <= MaxTurn
    /\ InMemory(T!Event("turn/start", trace.nextTurn, T!None))
    /\ UNCHANGED abandoned

\* The checkpoint of agent/pre-step precedes step/start.
StartStep ==
    /\ turn # T!None /\ step = T!None /\ trace.nextStep <= MaxStep /\ Flushed
    /\ InMemory(T!Event("step/start", turn, trace.nextStep))
    /\ UNCHANGED abandoned

\* The checkpoint of llm/stream precedes the request this message answers.
ModelAnswers(n) ==
    /\ step # T!None /\ log[Len(log)].type = "step/start" /\ Flushed
    /\ InMemory([T!Event("assistant/message", turn, step) EXCEPT !.call = n])
    /\ UNCHANGED abandoned

\* The events of the open step.
InStep == {i \in DOMAIN log : step # T!None /\ log[i].turn = turn /\ log[i].step = step}
Calls(type) == {log[i].call : i \in {j \in InStep : log[j].type = type}}
Requested == UNION {1..n : n \in Calls("assistant/message")}
Recorded == Calls("tool/call")
Unanswered == Requested \ Calls("tool/result")

\* The scheduler records calls, and commits results, in model order.
RecordCall(c) ==
    /\ c \in Requested \ Recorded /\ 1..(c - 1) \subseteq Recorded
    /\ InMemory(T!CallEvent("tool/call", turn, step, c))
    /\ UNCHANGED abandoned

CommitResult(c) ==
    /\ c \in Recorded \intersect Unanswered /\ 1..(c - 1) \intersect Unanswered = {}
    /\ InMemory(T!CallEvent("tool/result", turn, step, c))
    /\ UNCHANGED abandoned

\* Mutant: the body does not wait for its checkpoint.
CheckpointedNow(c) == c \in Recorded

\* The checkpoint of tools/execute: the recorded call is durable.
Checkpointed(c) == \E i \in InStep : log[i] = T!CallEvent("tool/call", turn, step, c) /\ i <= durable

\* tools/execute: the body waits until its recorded call is durable.
RunBody(c) ==
    /\ mode = "live" /\ c \in Recorded \intersect Unanswered
    /\ Checkpointed(c)
    /\ ran' = ran \union {<<turn, step, c>>}
    /\ UNCHANGED <<mode, log, trace, diskVars, closers, abandoned, crashes>>

\* A step that failed closes over whatever it left unanswered.
EndStep ==
    /\ step # T!None
    /\ InMemory(T!Event("step/end", turn, step))
    /\ abandoned' = IF Unanswered = {} THEN abandoned ELSE abandoned \union {<<turn, step>>}

EndTurn ==
    /\ turn # T!None /\ step = T!None
    /\ InMemory(T!Event("turn/end", turn, T!None))
    /\ UNCHANGED abandoned

-----------------------------------------------------------------------------
(* The store.  Every write is an await, so the agent appends meanwhile.    *)

\* Repair of the tail precedes a handle's first batch, which holds the closers
\* or, when there are none, the first events of the resumed agent.
HasBatch == closers # <<>> \/ (mode = "live" /\ Len(log) > loaded)

TruncateTail ==
    /\ HasBatch /\ tail = "torn" /\ tail' = "cut"
    /\ UNCHANGED <<mode, log, trace, durable, loaded, closers, ran, abandoned, crashes>>

RewriteTail ==
    /\ mode # "down" /\ tail = "cut" /\ tail' = "whole"
    /\ durable' = loaded
    /\ UNCHANGED <<mode, log, trace, loaded, closers, ran, abandoned, crashes>>

\* A batch drains, at its deadline or for a flush.
Persist ==
    /\ mode = "live" /\ tail = "whole" /\ durable' \in (durable + 1)..Len(log)
    /\ UNCHANGED <<mode, log, trace, loaded, tail, closers, ran, abandoned, crashes>>

-----------------------------------------------------------------------------
(* Crash and resume.                                                       *)

\* The lengths of log that a reader may find after a crash: of a frame being
\* written, the operating system may have kept any part.
Readable ==
    CASE tail = "torn" -> {loaded}
      [] tail = "cut" -> durable..loaded
      [] OTHER -> durable..Len(log)

CrashAt(kept) ==
    /\ mode # "down" /\ crashes < MaxCrash /\ crashes' = crashes + 1
    /\ mode' = "down" /\ log' = SubSeq(log, 1, kept) /\ closers' = <<>>
    /\ loaded' = kept /\ tail' = IF kept = durable THEN "whole" ELSE "torn"
    /\ abandoned' = {a \in abandoned : \E i \in 1..kept :
                        log[i].type = "step/end" /\ <<log[i].turn, log[i].step>> = a}
    /\ UNCHANGED <<trace, durable, ran>>
Crash == \E kept \in Readable : CrashAt(kept)

\* resumeWith: read the stored log, compute its closers; the companion seeds
\* the new session's cursor from the same events.
Resume ==
    /\ mode = "down"
    /\ mode' = "repairing" /\ closers' = Closers(log)
    /\ trace' = Cursor(log)
    /\ UNCHANGED <<log, diskVars, ran, abandoned, crashes>>

\* handle.append(closers): the batch is one frame, of which a crash may leave
\* any prefix; the fsync that ends it makes it durable.
StoreCloser ==
    /\ mode = "repairing" /\ closers # <<>> /\ tail = "whole"
    /\ log' = Append(log, Head(closers))
    /\ durable' = IF Tail(closers) = <<>> THEN Len(log') ELSE durable
    /\ trace' = T!Apply(trace, Head(closers)) /\ closers' = Tail(closers)
    /\ UNCHANGED <<mode, loaded, tail, ran, abandoned, crashes>>

Publish ==
    /\ mode = "repairing" /\ closers = <<>>
    /\ mode' = "live"
    /\ UNCHANGED <<log, trace, diskVars, closers, ran, abandoned, crashes>>

Next ==
    \/ StartTurn \/ StartStep \/ EndStep \/ EndTurn
    \/ TruncateTail \/ RewriteTail \/ Persist
    \/ \E n \in 0..MaxCalls : ModelAnswers(n)
    \/ \E c \in 1..MaxCalls : RecordCall(c) \/ CommitResult(c) \/ RunBody(c)
    \/ Crash \/ Resume \/ StoreCloser \/ Publish

Spec == Init /\ [][Next]_vars

-----------------------------------------------------------------------------
(* Properties.                                                             *)

\* Repair works on what a crash has left: the session invariant companion accepts
\* every event where it is appended, the closers and whatever continues after
\* them included, and a resumed agent starts on a log without an open turn or step.
ResumesBalanced ==
    [][/\ Len(log') > Len(log) => T!Valid(trace, log'[Len(log')])
       /\ mode = "repairing" /\ mode' = "live" => T!Balanced(trace)]_vars

\* A call reported as never started has not run, however much of the log the
\* crash took with it: its transcript advises the model to retry it.
NotStartedNeverRan ==
    \A i \in DOMAIN log :
        log[i].type = "tool/not-started" => <<log[i].turn, log[i].step, log[i].call>> \notin ran

\* Providers reject dangling calls: once a step is over, each call its
\* message requested is answered exactly once, unless the live loop itself
\* failed the step.
AnswersTo(m, c) == {i \in DOMAIN log : log[i].type \in ResultTypes /\ log[i].turn = m.turn
                                     /\ log[i].step = m.step /\ log[i].call = c}
RepairedCallsAnswered ==
    mode = "live" =>
        \A i \in DOMAIN log :
            LET m == log[i]
            IN  m.type = "assistant/message" /\ <<m.turn, m.step>> \notin abandoned \union {<<turn, step>>}
                  => \A c \in 1..m.call : Cardinality(AnswersTo(m, c)) = 1

\* Repair is deterministic: a crash inside it, then repairing again from
\* whatever part of the closers was stored, yields the same log.  Only a crash
\* between the truncation of the tail and its rewriting changes the result,
\* and only when it takes away an event that the resume had read.
RepairedLog == log \o (IF mode = "repairing" THEN closers ELSE Closers(log))
RepairIsDeterministic ==
    [][mode # "live" /\ RepairedLog' # RepairedLog
         => tail = "cut" /\ mode' = "down" /\ Len(log') < loaded]_vars

=============================================================================
