--------------------------- MODULE OrderedResults ---------------------------
(***************************************************************************)
(* What one assistant step's tool batch promises the session log, whatever *)
(* runs concurrently inside: calls and results are recorded in model       *)
(* order, a result follows its own call, a returned batch has answered     *)
(* every call exactly once, and a call skipped by cancellation is recorded *)
(* and answered back to back, after every call that really started.        *)
(***************************************************************************)
EXTENDS Integers, Sequences

CONSTANT N   \* tool calls of the step, numbered in model order

VARIABLES log, outcome,
          called, answered   \* how many call and result events the log holds

vars == <<log, outcome, called, answered>>

\* Some call was skipped.
skipping == \E i \in 1..Len(log) : log[i].skipped

Init == log = <<>> /\ outcome = "running" /\ called = 0 /\ answered = 0

Record(type, c, skipped) ==
    /\ outcome = "running" /\ UNCHANGED outcome
    /\ log' = Append(log, [type |-> type, call |-> c, skipped |-> skipped])

RecordCall(skipped) ==
    /\ called < N /\ called' = called + 1 /\ UNCHANGED answered
    /\ Record("tool/call", called + 1, skipped)

RecordResult(skipped) ==
    /\ answered < called /\ answered' = answered + 1 /\ UNCHANGED called
    /\ Record("tool/result", answered + 1, skipped)

Call == ~skipping /\ RecordCall(FALSE)
Answer == ~skipping /\ RecordResult(FALSE)

\* A skipped call: everything before it is answered, and so is it at once.
SkipCall == answered = called /\ RecordCall(TRUE)
SkipAnswer == skipping /\ RecordResult(TRUE)

End(how) == outcome = "running" /\ outcome' = how /\ UNCHANGED <<log, called, answered>>

Return == answered = N /\ End("returned")

\* A scheduler failure leaves started calls unanswered; nothing is recorded after it.
Throw == ~skipping /\ End("threw")

Next == Call \/ Answer \/ SkipCall \/ SkipAnswer \/ Return \/ Throw
Spec == Init /\ [][Next]_vars

=============================================================================
