------------------------------ MODULE TurnLog ------------------------------
(***************************************************************************)
(* The session log's turn/step protocol, as the session invariant          *)
(* companion (packages/core/session/src/invariant.ts) states it: which     *)
(* event may follow a log, and how an accepted event moves the log's       *)
(* cursor.  The agent loop, its tool scheduler and crash repair all write  *)
(* this log; each of their modules is shown to implement this one.         *)
(*                                                                         *)
(* An event is [type, turn, step, call]; payloads are dropped.  A          *)
(* tool/result that the companion treats apart has a type of its own:      *)
(* "tool/not-started" carries the TOOL_NOT_STARTED recovery code,          *)
(* "tool/replacement" a surfaceOp other than append.                       *)
(* Turn, step and call numbers start at 1, so 0 is the code's null.        *)
(***************************************************************************)
EXTENDS Integers, FiniteSets

CONSTANT CallIds   \* tool call identities, 0 excluded

VARIABLE trace     \* the companion's SessionTrace, plus the last event

None == 0

\* Events whose only relation to the log is the open step they must name.
StepEvents == {"system/message", "assistant/attempt", "assistant/message"}
\* Events that must lie inside some turn but name no step.
TurnEvents == {"request/header", "tool/replacement"}
\* Events the companion accepts anywhere.
FreeEvents == {"user/message", "inbox"}

Event(type, turn, step) == [type |-> type, turn |-> turn, step |-> step, call |-> None]
CallEvent(type, turn, step, c) == [Event(type, turn, step) EXCEPT !.call = c]

FreshTrace == [openTurn |-> None, openStep |-> None, nextTurn |-> 1, nextStep |-> 1,
               pendingCalls |-> {}, last |-> Event("none", None, None)]

InOpenStep(t, e) == e.turn = t.openTurn /\ e.step = t.openStep /\ t.openStep # None

\* validateEvent: may e follow the log whose cursor is t?
Valid(t, e) ==
    CASE e.type = "turn/start" -> t.openTurn = None /\ e.turn = t.nextTurn
      [] e.type = "turn/end"   -> t.openTurn = e.turn /\ t.openTurn # None /\ t.openStep = None
      [] e.type = "step/start" -> t.openTurn = e.turn /\ t.openTurn # None
                                  /\ t.openStep = None /\ e.step = t.nextStep
      [] e.type = "step/end"   -> InOpenStep(t, e)
      [] e.type \in StepEvents -> InOpenStep(t, e)
      [] e.type = "tool/call"  -> InOpenStep(t, e)
      [] e.type = "tool/result" -> InOpenStep(t, e) /\ e.call \in t.pendingCalls
      [] e.type = "tool/not-started" -> InOpenStep(t, e)
      [] e.type \in TurnEvents -> t.openTurn # None
      [] OTHER -> e.type \in FreeEvents

\* applyTransition: the cursor after e.
Apply(t, e) ==
    CASE e.type = "turn/start" -> [t EXCEPT !.openTurn = e.turn, !.nextStep = 1, !.last = e]
      [] e.type = "turn/end"   -> [t EXCEPT !.openTurn = None, !.nextTurn = @ + 1, !.last = e]
      [] e.type = "step/start" -> [t EXCEPT !.openStep = e.step, !.last = e]
      [] e.type = "step/end"   -> [t EXCEPT !.openStep = None, !.nextStep = @ + 1,
                                            !.pendingCalls = {}, !.last = e]
      [] e.type = "tool/call"  -> [t EXCEPT !.pendingCalls = @ \union {e.call}, !.last = e]
      [] e.type \in {"tool/result", "tool/not-started"}
                               -> [t EXCEPT !.pendingCalls = @ \ {e.call}, !.last = e]
      [] OTHER -> [t EXCEPT !.last = e]

\* The events that could name this log's cursor; no other event is Valid.
Candidates(t) ==
    [type : {"turn/start", "turn/end", "step/start", "step/end", "tool/call", "tool/result",
             "tool/not-started"} \union StepEvents \union TurnEvents \union FreeEvents,
     turn : {None, t.openTurn, t.nextTurn}, step : {None, t.openStep, t.nextStep},
     call : CallIds \union {None}]

\* The surface's cursor when no turn is open: what fork, compaction and resume need.
Balanced(t) == t.openTurn = None /\ t.openStep = None

Extend(e) == Valid(trace, e) /\ trace' = Apply(trace, e)

Init == trace = FreshTrace
Next == \E e \in Candidates(trace) : Extend(e)
Spec == Init /\ [][Next]_trace

=============================================================================
