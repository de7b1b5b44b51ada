------------------------ MODULE ToolScheduler_proofs ------------------------
(***************************************************************************)
(* Proofs about ToolScheduler, for every number of calls and every size of *)
(* the pool.                                                               *)
(***************************************************************************)
EXTENDS ToolScheduler, FiniteSetTheorems, TLAPS

-----------------------------------------------------------------------------
(* The scheduler's position.  Reached is the last call that was prepared.  *)

Active == {"fill", "preparing", "started", "commit", "finalizing", "race", "draining"}
Reached == IF pc = "started" THEN nextToStart + 1 ELSE nextToStart

CursorInv ==
    /\ next <= nextToStart /\ nextToStart <= started /\ committed <= started
    /\ pc \in {"classify", "fill", "race", "commit", "finalizing"} => started = nextToStart
    /\ pc \in {"preparing", "started"} =>
           started = nextToStart + 1 /\ nextToStart < groupEnd /\ committed <= nextToStart
    /\ pc \in Active => next <= committed /\ started <= groupEnd
    /\ pc = "classify" => next < N /\ committed = started /\ next = started
    /\ pc \in Active /\ mode = "exclusive" => groupEnd = next + 1
    /\ pc = "finalizing" => committed < groupEnd /\ slots[committed + 1] # "none"
    /\ pc = "skipping" => committed = started
    /\ pc = "skipped" => committed + 1 = started /\ nextToStart < started
    /\ pc = "done" => committed = N /\ started = N

\* What has been dispatched, and what is settled, belongs to the reached calls
\* of this group; a body that runs is in flight.
DispatchInv ==
    /\ \A c \in Calls : body[c] # "none" \/ slots[c] # "none" => c <= Reached
    /\ \A c \in inFlight : body[c] # "none" /\ next < c /\ c <= groupEnd
    /\ \A c \in Calls : body[c] = "running" => c \in inFlight
    /\ \A c \in inFlight : body[c] = "resolved" => slots[c] # "none"
    /\ \A c \in Calls : body[c] = "rejected" => schedulerFailure
    /\ pc \in {"classify", "skipping", "skipped", "done"} => inFlight = {}
    /\ pc = "failed" => \A c \in Calls : body[c] # "running"

\* A reached call of a healthy group is in flight or settled, and once the
\* settled prefix is committed the next call in order is in flight.
CommitInv ==
    /\ pc \in Active /\ ~schedulerFailure =>
           \A c \in Calls : committed < c /\ c <= Reached => c \in inFlight \/ slots[c] # "none"
    /\ pc \in {"fill", "race"} /\ committed < nextToStart => committed + 1 \in inFlight

StructInv == TypeOK /\ CursorInv /\ DispatchInv /\ CommitInv

\* Before the first group nothing is in flight, committed or logged.
LEMMA StructInit == Init => StructInv
<1> SUFFICES ASSUME Init PROVE StructInv
  OBVIOUS
<1> USE NAssumption DEF Init, Calls, Labels, Active
<1>1. TypeOK
  <2>1. aborted \in BOOLEAN /\ signal \in BOOLEAN /\ schedulerFailure \in BOOLEAN /\ concluded \in BOOLEAN
    OBVIOUS
  <2>2. log \in Seq(LogEvents)
    OBVIOUS
  <2>3. QED
    BY <2>1, <2>2 DEF TypeOK
<1>2. CursorInv /\ DispatchInv /\ CommitInv
  BY DEF CursorInv, DispatchInv, CommitInv, Reached
<1>3. QED
  BY <1>1, <1>2 DEF StructInv

\* The Boolean variables alone: Zenon reasons about these, SMT about the rest.
LEMMA FlagsStep ==
    ASSUME TypeOK, [Next]_vars
    PROVE  /\ aborted' \in BOOLEAN /\ signal' \in BOOLEAN
           /\ schedulerFailure' \in BOOLEAN /\ concluded' \in BOOLEAN
<1> USE DEF TypeOK
<1>1. CASE Classify \/ StartCall \/ StopFilling \/ Prepared
  BY <1>1, Zenon DEF Classify, StartCall, StopFilling, Prepared
<1>2. CASE PrepareFails \/ CallStarted \/ FinalizeFails
  BY <1>2, Zenon DEF PrepareFails, CallStarted, FinalizeFails, Fails
<1>3. CASE Finish \/ Finalized
  BY <1>3, Zenon DEF Finish, Finalized, CommitResult
<1>4. CASE Committed
  BY <1>4, Zenon DEF Committed, Fails, Sampled
<1>5. CASE StartFinalize \/ Collect \/ GroupEnds \/ SkipCall
  BY <1>5, Zenon DEF StartFinalize, Collect, GroupEnds, SkipCall
<1>6. CASE SkipResult \/ SkippingDone \/ Drained \/ Cancel \/ UNCHANGED vars
  BY <1>6, Zenon DEF SkipResult, SkippingDone, Drained, Cancel, vars
<1>7. CASE Bodies
  BY <1>7, Zenon DEF Bodies, BodyResolves, BodyRejects
<1>8. QED
  BY <1>1, <1>2, <1>3, <1>4, <1>5, <1>6, <1>7 DEF Next, Scheduler

\* One leaf per action and conjunct.
LEMMA StructStep ==
    ASSUME StructInv, [Next]_vars
    PROVE  StructInv'
<1>0. /\ aborted' \in BOOLEAN /\ signal' \in BOOLEAN
      /\ schedulerFailure' \in BOOLEAN /\ concluded' \in BOOLEAN
  BY FlagsStep DEF StructInv
<1> USE NAssumption DEF StructInv, TypeOK, Calls, Labels, Active, groupVars, dispatchVars
<1>1. CASE Classify
  BY <1>1 DEF Classify, CursorInv, DispatchInv, CommitInv, Reached
<1>2. CASE StartCall
  BY <1>2 DEF StartCall, CanFill, CallEvent, LogEvents, CursorInv, DispatchInv, CommitInv, Reached
<1>3. CASE StopFilling
  BY <1>3 DEF StopFilling, CanFill, CursorInv, DispatchInv, CommitInv, Reached
<1>4. CASE Prepared
  <2> DEFINE c == nextToStart + 1
  <2>1. c \in Calls
    BY <1>4 DEF Prepared, CursorInv
  <2>2. pc = "preparing" /\ pc' = "started"
    BY <1>4 DEF Prepared
  <2>3. \/ /\ body' = [body EXCEPT ![c] = "running"] /\ inFlight' = inFlight \union {c} /\ slots' = slots
        \/ /\ \E r \in {"post", "final"} : slots' = [slots EXCEPT ![c] = r]
           /\ body' = body /\ inFlight' = inFlight
    BY <1>4 DEF Prepared
  <2>4. /\ \A d \in Calls \ {c} : body'[d] = body[d] /\ slots'[d] = slots[d] /\ (d \in inFlight' <=> d \in inFlight)
        /\ inFlight' \subseteq Calls
        /\ body' \in [Calls -> {"none", "running", "resolved", "rejected"}]
        /\ slots' \in [Calls -> {"none", "post", "final"}]
        /\ \/ body'[c] = "running" /\ c \in inFlight'
           \/ body'[c] = "none" /\ slots'[c] # "none" /\ c \notin inFlight'
    <3>1. c \notin inFlight /\ body[c] = "none"
      BY <2>1, <2>2 DEF DispatchInv, Reached
    <3> HIDE DEF c
    <3>2. CASE body' = [body EXCEPT ![c] = "running"] /\ inFlight' = inFlight \union {c} /\ slots' = slots
      BY <2>1, <3>2
    <3>3. CASE /\ \E r \in {"post", "final"} : slots' = [slots EXCEPT ![c] = r]
               /\ body' = body /\ inFlight' = inFlight
      BY <2>1, <3>1, <3>3
    <3>4. QED
      BY <2>3, <3>2, <3>3
  <2> HIDE DEF c
  <2>5. TypeOK'
    BY <1>0, <1>4, <2>4 DEF Prepared
  <2>6. CursorInv'
    BY <1>4 DEF Prepared, CursorInv
  <2>7. DispatchInv'
    BY <1>4, <2>1, <2>2, <2>4 DEF Prepared, CursorInv, DispatchInv, Reached, c
  <2>8. CommitInv'
    BY <1>4, <2>1, <2>2, <2>4 DEF Prepared, CursorInv, CommitInv, Reached, c
  <2>9. QED
    BY <2>5, <2>6, <2>7, <2>8
<1>5. CASE PrepareFails
  BY <1>5 DEF PrepareFails, Fails, CursorInv, DispatchInv, CommitInv, Reached
<1>6. CASE CallStarted
  <2>1. TypeOK'
    BY <1>0, <1>6 DEF CallStarted, Fails, CursorInv
  <2>2. CursorInv'
    BY <1>6 DEF CallStarted, Fails, CursorInv, DispatchInv, Reached
  <2>3. DispatchInv'
    BY <1>6 DEF CallStarted, Fails, CursorInv, DispatchInv, Reached
  <2>4. CommitInv'
    BY <1>6 DEF CallStarted, Fails, CursorInv, DispatchInv, CommitInv, Reached
  <2>5. QED
    BY <2>1, <2>2, <2>3, <2>4
<1>7. CASE Finish
  <2>1. started' \in 0..N /\ committed' \in 0..N
    BY <1>7 DEF Finish, Ready, CommitResult, CursorInv, DispatchInv, Reached
  <2>2. log' \in Seq(LogEvents)
    BY <1>7 DEF Finish, Ready, CommitResult, ResultEvent, LogEvents, CursorInv, DispatchInv, Reached
  <2>3. TypeOK'
    BY <1>0, <1>7, <2>1, <2>2 DEF Finish, Ready, CommitResult
  <2>4. CursorInv' /\ DispatchInv' /\ CommitInv'
    BY <1>7 DEF Finish, Ready, CommitResult, CursorInv, DispatchInv, CommitInv, Reached
  <2>5. QED
    BY <2>3, <2>4
<1>8. CASE StartFinalize
  BY <1>8 DEF StartFinalize, Ready, CursorInv, DispatchInv, CommitInv, Reached
<1>9. CASE Finalized
  <2>1. started' \in 0..N /\ committed' \in 0..N
    BY <1>9 DEF Finalized, CommitResult, CursorInv, DispatchInv, Reached
  <2>2. log' \in Seq(LogEvents)
    BY <1>9 DEF Finalized, CommitResult, ResultEvent, LogEvents, CursorInv, DispatchInv, Reached
  <2>3. TypeOK'
    BY <1>0, <1>9, <2>1, <2>2 DEF Finalized, CommitResult
  <2>4. CursorInv' /\ DispatchInv' /\ CommitInv'
    BY <1>9 DEF Finalized, CommitResult, CursorInv, DispatchInv, CommitInv, Reached
  <2>5. QED
    BY <2>3, <2>4
<1>10. CASE FinalizeFails
  BY <1>10 DEF FinalizeFails, Fails, CursorInv, DispatchInv, CommitInv, Reached
<1>11. CASE Committed
  <2>1. TypeOK'
    BY <1>0, <1>11 DEF Committed, Ready, Fails, Sampled, CursorInv
  <2>2. CursorInv'
    BY <1>11 DEF Committed, Ready, Fails, Sampled, CursorInv, DispatchInv, Reached
  <2>3. DispatchInv'
    BY <1>11 DEF Committed, Ready, Fails, Sampled, CursorInv, DispatchInv, Reached
  <2>4. CommitInv'
    BY <1>11 DEF Committed, Ready, Fails, Sampled, CursorInv, DispatchInv, CommitInv, Reached
  <2>5. QED
    BY <2>1, <2>2, <2>3, <2>4
<1>12. CASE Collect
  BY <1>12 DEF Collect, CursorInv, DispatchInv, CommitInv, Reached
<1>13. CASE GroupEnds
  BY <1>13 DEF GroupEnds, CursorInv, DispatchInv, CommitInv, Reached
<1>14. CASE SkipCall
  <2>1. started' \in 0..N /\ committed' \in 0..N
    BY <1>14 DEF SkipCall, CursorInv, DispatchInv, Reached
  <2>2. log' \in Seq(LogEvents)
    BY <1>14 DEF SkipCall, CallEvent, LogEvents, CursorInv
  <2>3. TypeOK'
    BY <1>0, <1>14, <2>1, <2>2 DEF SkipCall
  <2>4. CursorInv' /\ DispatchInv' /\ CommitInv'
    BY <1>14 DEF SkipCall, CursorInv, DispatchInv, CommitInv, Reached
  <2>5. QED
    BY <2>3, <2>4
<1>15. CASE SkipResult
  <2>1. started' \in 0..N /\ committed' \in 0..N
    BY <1>15 DEF SkipResult, CursorInv, DispatchInv, Reached
  <2>2. log' \in Seq(LogEvents)
    BY <1>15 DEF SkipResult, ResultEvent, LogEvents, CursorInv
  <2>3. TypeOK'
    BY <1>0, <1>15, <2>1, <2>2 DEF SkipResult
  <2>4. CursorInv' /\ DispatchInv' /\ CommitInv'
    BY <1>15 DEF SkipResult, CursorInv, DispatchInv, CommitInv, Reached
  <2>5. QED
    BY <2>3, <2>4
<1>16. CASE SkippingDone
  BY <1>16 DEF SkippingDone, CursorInv, DispatchInv, CommitInv, Reached
<1>17. CASE Drained
  BY <1>17 DEF Drained, CursorInv, DispatchInv, CommitInv, Reached
<1>18. ASSUME NEW c \in Calls, BodyResolves(c)
       PROVE  StructInv'
  BY <1>18, SMTT(30) DEF BodyResolves, CursorInv, DispatchInv, CommitInv, Reached
<1>19. ASSUME NEW c \in Calls, BodyRejects(c)
       PROVE  StructInv'
  BY <1>19 DEF BodyRejects, CursorInv, DispatchInv, CommitInv, Reached
<1>20. CASE Cancel
  BY <1>20 DEF Cancel, CursorInv, DispatchInv, CommitInv, Reached
<1>21. CASE UNCHANGED vars
  BY <1>21 DEF vars, CursorInv, DispatchInv, CommitInv, Reached
<1>22. QED
  BY <1>1, <1>2, <1>3, <1>4, <1>5, <1>6, <1>7, <1>8, <1>9, <1>10, <1>11, <1>12, <1>13, <1>14, <1>15,
     <1>16, <1>17, <1>18, <1>19, <1>20, <1>21 DEF Next, Scheduler, Bodies

\* The structural invariant holds for every number of calls and every pool.
THEOREM Structure == Spec => []StructInv
BY StructInit, StructStep, PTL DEF Spec

\* The scheduler's state, its log included, keeps its types.
THEOREM TypeCorrect == Spec => []TypeOK
<1>1. StructInv => TypeOK
  BY DEF StructInv
<1>2. QED
  BY <1>1, Structure, PTL

\* An exclusive call is a barrier: a body that runs is in flight, and what is in
\* flight belongs to the group, which is that one call.
THEOREM ExclusiveIsABarrier == Spec => []ExclusiveRunsAlone
<1>1. StructInv => ExclusiveRunsAlone
  <2> SUFFICES ASSUME StructInv, mode = "exclusive", NEW c \in running, NEW d \in running
               PROVE  c = d
    BY DEF ExclusiveRunsAlone
  <2>1. c \in inFlight /\ d \in inFlight /\ c \in Nat /\ d \in Nat
    BY NAssumption DEF running, StructInv, DispatchInv, Calls
  <2>2. pc \in Active
    BY <2>1 DEF StructInv, TypeOK, Labels, Active, DispatchInv, running
  <2>3. QED
    BY <2>1, <2>2 DEF StructInv, TypeOK, CursorInv, DispatchInv
<1>2. QED
  BY <1>1, Structure, PTL

\* No body outlives the batch, returned or thrown.
THEOREM NoBodyOutlivesTheBatch == Spec => []NothingRunsAfterwards
<1>1. StructInv => NothingRunsAfterwards
  BY DEF StructInv, DispatchInv, NothingRunsAfterwards, running
<1>2. QED
  BY <1>1, Structure, PTL

\* Once nothing is in flight every started call has been committed: the throw
\* for "uncommitted settled calls" is unreachable.
THEOREM StartedCallsAreCommitted == Spec => []AllCommitted
<1>1. StructInv => AllCommitted
  BY DEF StructInv, TypeOK, CursorInv, CommitInv, AllCommitted
<1>2. QED
  BY <1>1, Structure, PTL

-----------------------------------------------------------------------------
(* The pool.                                                               *)

PoolInv == /\ Cardinality(inFlight) <= MaxParallelToolCalls
           /\ pc = "preparing" => Cardinality(inFlight) < MaxParallelToolCalls

\* The in-flight map is finite, so its cardinality is a natural number.
LEMMA FiniteCalls ==
    ASSUME NEW S \in SUBSET Calls
    PROVE  IsFiniteSet(S) /\ Cardinality(S) \in Nat
<1>1. IsFiniteSet(Calls)
  BY NAssumption, FS_Interval DEF Calls
<1>2. IsFiniteSet(S)
  BY <1>1, FS_Subset
<1>3. QED
  BY <1>2, FS_CardinalityType

\* The pool starts empty.
LEMMA PoolInit == Init => PoolInv
BY PoolAssumption, FS_EmptySet DEF Init, PoolInv

\* Only Prepared adds a call in flight, behind the fill test of StartCall.
LEMMA PoolStep ==
    ASSUME StructInv, StructInv', PoolInv, [Next]_vars
    PROVE  PoolInv'
<1> USE DEF groupVars, dispatchVars
<1>1. /\ Cardinality(inFlight) \in Nat /\ IsFiniteSet(inFlight)
      /\ Cardinality(inFlight') \in Nat /\ MaxParallelToolCalls \in Nat
  BY FiniteCalls, PoolAssumption DEF StructInv, TypeOK
<1>2. CASE StartCall
  BY <1>1, <1>2 DEF StartCall, CanFill, PoolInv
<1>3. CASE Prepared
  <2>1. pc = "preparing" /\ pc' = "started"
    BY <1>3 DEF Prepared
  <2>2. CASE inFlight' = inFlight
    BY <1>1, <2>1, <2>2 DEF PoolInv
  <2>3. CASE inFlight' = inFlight \union {nextToStart + 1}
    <3>1. Cardinality(inFlight') <= Cardinality(inFlight) + 1
      BY <1>1, <2>3, FS_AddElement
    <3>2. QED
      BY <1>1, <2>1, <3>1 DEF PoolInv
  <2>4. QED
    BY <1>3, <2>2, <2>3 DEF Prepared
<1>4. CASE Collect
  <2>1. PICK c \in inFlight : inFlight' = inFlight \ {c} /\ pc' # "preparing"
    BY <1>4 DEF Collect
  <2>2. Cardinality(inFlight') <= Cardinality(inFlight)
    BY <1>1, <2>1, FS_RemoveElement, SMTT(30)
  <2>3. QED
    BY <1>1, <2>1, <2>2 DEF PoolInv
<1>5. CASE Bodies \/ Cancel \/ UNCHANGED vars
  BY <1>5 DEF Bodies, BodyResolves, BodyRejects, Cancel, vars, PoolInv
<1>6. CASE Classify \/ StopFilling \/ PrepareFails \/ CallStarted \/ Finish \/ StartFinalize \/ Finalized
           \/ FinalizeFails \/ Committed \/ GroupEnds \/ SkipCall \/ SkipResult \/ SkippingDone \/ Drained
  BY <1>6 DEF Classify, StopFilling, PrepareFails, CallStarted, Fails, Finish, StartFinalize, Finalized,
     CommitResult, FinalizeFails, Committed, GroupEnds, SkipCall, SkipResult, SkippingDone, Drained, PoolInv
<1>7. QED
  BY <1>2, <1>3, <1>4, <1>5, <1>6 DEF Next, Scheduler

\* maxParallelToolCalls bounds the bodies that run, over refills and groups.
THEOREM PoolIsNeverExceeded == Spec => []PoolIsBounded
<1>1. StructInv /\ PoolInv => PoolIsBounded
  <2> SUFFICES ASSUME StructInv, PoolInv PROVE PoolIsBounded
    OBVIOUS
  <2>1. running \in SUBSET inFlight
    BY DEF running, StructInv, DispatchInv
  <2>2. IsFiniteSet(inFlight) /\ Cardinality(inFlight) \in Nat /\ Cardinality(running) \in Nat
    BY <2>1, FiniteCalls DEF StructInv, TypeOK
  <2>3. Cardinality(running) <= Cardinality(inFlight)
    BY <2>1, <2>2, FS_Subset
  <2>4. QED
    BY <2>2, <2>3, PoolAssumption DEF PoolInv, PoolIsBounded
<1>2. QED
  BY <1>1, PoolInit, PoolStep, Structure, PTL DEF Spec

-----------------------------------------------------------------------------
(* Failure and abort.                                                      *)

\* A body starts in Prepared only, and never under a known failure.
THEOREM FailureStopsBodies == Spec => FailureStopsDispatch
<1>1. TypeOK /\ [Next]_vars
        => (schedulerFailure => \A c \in Calls : body[c] = "none" => body'[c] = "none")
  <2> SUFFICES ASSUME TypeOK, [Next]_vars, schedulerFailure, NEW c \in Calls, body[c] = "none"
               PROVE  body'[c] = "none"
    OBVIOUS
  <2>1. CASE Bodies
    BY <2>1 DEF Bodies, BodyResolves, BodyRejects, TypeOK
  <2>2. CASE Scheduler \/ Cancel \/ UNCHANGED vars
    BY <2>2 DEF Scheduler, Classify, StartCall, StopFilling, Prepared, PrepareFails, CallStarted, Fails,
       Finish, StartFinalize, Finalized, CommitResult, FinalizeFails, Committed, Collect, GroupEnds,
       SkipCall, SkipResult, SkippingDone, Drained, Cancel, vars, dispatchVars
  <2>3. QED
    BY <2>1, <2>2 DEF Next
<1>2. QED
  BY <1>1, TypeCorrect, PTL DEF Spec, FailureStopsDispatch

\* The flag the group works with is never ahead of the signal, and where the
\* pool is filled it is not behind it either.
AbortInv ==
    /\ aborted => signal
    /\ pc = "fill" /\ signal => aborted
    /\ pc \in {"skipping", "skipped"} => signal

\* Nothing is sampled before the first group.
LEMMA AbortInit == Init => AbortInv
BY DEF Init, AbortInv

\* The sample never runs ahead of the signal, and the fill loop sees it fresh.
LEMMA AbortStep ==
    ASSUME TypeOK, AbortInv, [Next]_vars
    PROVE  AbortInv'
<1> USE DEF AbortInv, TypeOK
<1>1. CASE Classify
  BY <1>1 DEF Classify
<1>2. CASE StartCall \/ StopFilling
  BY <1>2 DEF CallEvent, StartCall, StopFilling
<1>3. CASE Prepared
  BY <1>3 DEF Prepared
<1>4. CASE PrepareFails \/ CallStarted \/ FinalizeFails
  BY <1>4 DEF PrepareFails, CallStarted, FinalizeFails, Fails
<1>5. CASE Finish \/ Finalized
  <2>1. aborted' = aborted /\ signal' = signal /\ pc' = "commit"
    BY <1>5, Zenon DEF Finish, Finalized, CommitResult
  <2>2. QED
    BY <2>1
<1>6. CASE Committed
  BY <1>6 DEF Committed, Fails, Sampled
<1>7. CASE StartFinalize \/ Collect
  BY <1>7 DEF StartFinalize, Collect
<1>8. CASE GroupEnds
  BY <1>8 DEF GroupEnds
<1>9. CASE SkipCall \/ SkipResult \/ SkippingDone \/ Drained
  BY <1>9 DEF CallEvent, ResultEvent, SkipCall, SkipResult, SkippingDone, Drained
<1>10. CASE Bodies \/ Cancel \/ UNCHANGED vars
  BY <1>10 DEF Bodies, BodyResolves, BodyRejects, Cancel, vars
<1>11. QED
  BY <1>1, <1>2, <1>3, <1>4, <1>5, <1>6, <1>7, <1>8, <1>9, <1>10 DEF Next, Scheduler

\* After the turn's signal aborts, the pool is not filled any further.
THEOREM AbortStopsStarts == Spec => CancelStopsStarts
<1>1. AbortInv /\ [Next]_vars => (signal => ~(pc = "fill" /\ pc' = "preparing"))
  <2> SUFFICES ASSUME AbortInv, [Next]_vars, signal, pc = "fill", pc' = "preparing"
               PROVE  FALSE
    OBVIOUS
  <2>1. aborted
    BY DEF AbortInv
  <2>2. CASE Scheduler
    BY <2>1, <2>2 DEF Scheduler, Classify, StartCall, CanFill, StopFilling, Prepared, PrepareFails,
       CallStarted, Finish, StartFinalize, Finalized, FinalizeFails, Committed, Collect, GroupEnds,
       SkipCall, SkipResult, SkippingDone, Drained
  <2>3. CASE Bodies \/ Cancel \/ UNCHANGED vars
    BY <2>3 DEF Bodies, BodyResolves, BodyRejects, Cancel, vars
  <2>4. QED
    BY <2>2, <2>3 DEF Next
<1>2. QED
  BY <1>1, AbortInit, AbortStep, TypeCorrect, PTL DEF Spec, CancelStopsStarts

-----------------------------------------------------------------------------
(* The log.                                                                *)

\* A fabricated pair is the work of an aborted batch that has nothing running.
LogInv ==
    /\ \A i \in 1..Len(log) : log[i].skipped =>
           pc \in {"skipping", "skipped", "done"} /\ signal /\ body[log[i].call] = "none"
    /\ pc = "skipped" => \E i \in 1..Len(log) : log[i].skipped

\* The log starts empty.
LEMMA LogInit == Init => LogInv
BY DEF Init, LogInv

\* A step that leaves the log alone.
LEMMA LogKept ==
    ASSUME StructInv, LogInv, UNCHANGED log,
           pc \in {"skipping", "skipped", "done"} => pc' \in {"skipping", "skipped", "done"},
           signal => signal', pc' = "skipped" => pc = "skipped",
           \A c \in Calls : body[c] = "none" /\ pc \in {"skipping", "skipped", "done"} => body'[c] = "none"
    PROVE  LogInv'
<1>1. log \in Seq(LogEvents)
  BY DEF StructInv, TypeOK
<1>2. \A i \in 1..Len(log) : log[i] \in LogEvents
  BY <1>1
<1>3. \A i \in 1..Len(log) : log[i].call \in Calls
  BY <1>2 DEF LogEvents
<1>4. QED
  BY <1>3 DEF LogInv

\* A step that appends an event.
LEMMA LogExtended ==
    ASSUME StructInv, LogInv, NEW e \in LogEvents, log' = Append(log, e),
           e.skipped => signal' /\ body'[e.call] = "none" /\ pc' \in {"skipping", "skipped"},
           ~e.skipped => pc \notin {"skipping", "skipped", "done"} /\ pc' # "skipped",
           pc \in {"skipping", "skipped", "done"} => pc' \in {"skipping", "skipped", "done"} /\ body' = body,
           signal => signal'
    PROVE  LogInv'
<1>1. log \in Seq(LogEvents)
  BY DEF StructInv, TypeOK
<1>2. /\ Len(log') = Len(log) + 1 /\ Len(log) \in Nat /\ log'[Len(log) + 1] = e
      /\ \A i \in 1..Len(log) : log'[i] = log[i]
  BY <1>1
<1>3. \A i \in 1..Len(log') : log'[i].skipped =>
          pc' \in {"skipping", "skipped", "done"} /\ signal' /\ body'[log'[i].call] = "none"
  BY <1>2 DEF LogInv
<1>4. pc' = "skipped" => \E i \in 1..Len(log') : log'[i].skipped
  BY <1>2
<1>5. QED
  BY <1>3, <1>4 DEF LogInv

\* Each append keeps what the log says of started and skipped calls.
LEMMA LogStep ==
    ASSUME StructInv, StructInv', AbortInv, AbortInv', LogInv, [Next]_vars
    PROVE  LogInv'
<1> USE DEF groupVars, dispatchVars
<1>1. CASE StartCall
  <2>1. CallEvent(nextToStart + 1, FALSE) \in LogEvents
    BY <1>1 DEF StartCall, CanFill, CallEvent, LogEvents, Calls, StructInv, TypeOK, CursorInv
  <2>2. QED
    BY <1>1, <2>1, LogExtended DEF StartCall, CallEvent
<1>2. CASE Finish \/ Finalized
  <2>1. /\ log' = Append(log, ResultEvent(committed + 1, FALSE)) /\ committed' = committed + 1
        /\ started' = started /\ signal' = signal /\ pc \in {"commit", "finalizing"} /\ pc' = "commit"
    BY <1>2, Zenon DEF Finish, Finalized, CommitResult
  <2>2. committed + 1 \in Calls
    BY <2>1 DEF StructInv, TypeOK, CursorInv, Calls
  <2>3. ResultEvent(committed + 1, FALSE) \in LogEvents
    BY <2>2 DEF ResultEvent, LogEvents
  <2>4. QED
    BY <2>1, <2>3, LogExtended DEF ResultEvent
<1>3. CASE SkipCall
  <2>1. CallEvent(started + 1, TRUE) \in LogEvents /\ started + 1 \in Calls
    BY <1>3 DEF SkipCall, CallEvent, LogEvents, Calls, StructInv, TypeOK
  <2>2. body[started + 1] = "none"
    BY <1>3, <2>1 DEF SkipCall, StructInv, TypeOK, CursorInv, DispatchInv, Reached
  <2>3. QED
    BY <1>3, <2>1, <2>2, LogExtended DEF SkipCall, CallEvent, AbortInv
<1>4. CASE SkipResult
  <2>1. ResultEvent(started, TRUE) \in LogEvents
    BY <1>4 DEF SkipResult, ResultEvent, LogEvents, Calls, StructInv, TypeOK, CursorInv
  <2>2. committed + 1 = started
    BY <1>4 DEF SkipResult, StructInv, CursorInv
  <2>3. body[started] = "none"
    BY <1>4 DEF SkipResult, StructInv, TypeOK, CursorInv, DispatchInv, Reached, Calls
  <2>4. QED
    BY <1>4, <2>1, <2>2, <2>3, LogExtended DEF SkipResult, ResultEvent, AbortInv
<1>5. CASE Classify \/ StopFilling \/ Prepared \/ PrepareFails \/ CallStarted \/ StartFinalize \/ FinalizeFails
  BY <1>5, LogKept DEF Classify, StopFilling, Prepared, PrepareFails, CallStarted, StartFinalize, FinalizeFails,
     Fails, StructInv, CursorInv
<1>6. CASE Committed \/ Collect \/ GroupEnds \/ SkippingDone \/ Drained \/ Cancel \/ UNCHANGED vars
  BY <1>6, LogKept DEF Committed, Fails, Collect, GroupEnds, SkippingDone, Drained, Cancel, vars
<1>7. CASE Bodies
  <2>1. PICK c \in Calls : BodyResolves(c) \/ BodyRejects(c)
    BY <1>7 DEF Bodies
  <2>2. \A d \in Calls : body[d] = "none" => body'[d] = "none"
    BY <2>1 DEF BodyResolves, BodyRejects, StructInv, TypeOK
  <2>3. UNCHANGED <<log, started, committed, pc, signal>>
    BY <2>1 DEF BodyResolves, BodyRejects
  <2>4. QED
    BY <2>2, <2>3, LogKept
<1>8. QED
  BY <1>1, <1>2, <1>3, <1>4, <1>5, <1>6, <1>7 DEF Next, Scheduler

IInv == StructInv /\ AbortInv /\ LogInv

\* The strengthened invariant of the log theorems.
LEMMA Inductive == Spec => []IInv
<1>1. Init => AbortInv /\ LogInv
  BY AbortInit, LogInit
<1>2. StructInv /\ StructInv' /\ AbortInv /\ LogInv /\ [Next]_vars => AbortInv' /\ LogInv'
  <2>1. StructInv => TypeOK
    BY DEF StructInv
  <2>2. QED
    BY <2>1, AbortStep, LogStep
<1>3. IInv <=> StructInv /\ AbortInv /\ LogInv
  BY DEF IInv
<1>4. QED
  BY <1>1, <1>2, <1>3, Structure, PTL DEF Spec

\* A fabricated result is the truth: its call's body never ran, the turn was
\* cancelled, and the batch has not failed.
THEOREM SkippedCallsNeverRan == Spec => []SkippedNeverRan
<1>1. IInv => SkippedNeverRan
  BY DEF IInv, LogInv, SkippedNeverRan
<1>2. QED
  BY <1>1, Inductive, PTL

-----------------------------------------------------------------------------
(* The scheduler keeps the promise of OrderedResults.                      *)

\* The abstract specification's skipping is the scheduler's.
LEMMA Skipping ==
    ASSUME LogInv
    PROVE  /\ Batch!skipping => pc \in {"skipping", "skipped", "done"}
           /\ pc = "skipped" => Batch!skipping
BY DEF LogInv, Batch!skipping

\* Every scheduler step is a step of OrderedResults or leaves its variables alone.
LEMMA BatchStep ==
    ASSUME StructInv, AbortInv, LogInv, [Next]_vars
    PROVE  [Batch!Next]_Batch!vars
<1>1. CASE StartCall
  <2>1. log' = Append(log, CallEvent(started + 1, FALSE)) /\ Outcome = "running" /\ Outcome' = "running"
    BY <1>1 DEF StartCall, Outcome, StructInv, CursorInv
  <2>2. started < N /\ ~Batch!skipping /\ started' = started + 1 /\ committed' = committed
    BY <1>1, NAssumption, Skipping DEF StartCall, CallEvent, CanFill, StructInv, TypeOK, CursorInv, Calls
  <2>3. Batch!Call
    BY <2>1, <2>2 DEF Batch!Call, Batch!RecordCall, Batch!Record, CallEvent
  <2>4. QED
    BY <2>3 DEF Batch!Next
<1>2. CASE Finish \/ Finalized
  <2>1. /\ log' = Append(log, ResultEvent(committed + 1, FALSE))
        /\ committed' = committed + 1 /\ started' = started
        /\ pc \in {"commit", "finalizing"} /\ pc' = "commit"
    BY <1>2, Zenon DEF Finish, Finalized, CommitResult
  <2>2. committed < started
    <3>1. committed < groupEnd /\ slots[committed + 1] # "none"
      BY <1>2 DEF Finish, Ready, Finalized, StructInv, TypeOK, CursorInv
    <3>2. committed + 1 \in Calls
      BY <3>1, NAssumption DEF StructInv, TypeOK, Calls
    <3>3. committed + 1 <= nextToStart
      BY <2>1, <3>1, <3>2 DEF StructInv, DispatchInv, Reached
    <3>4. QED
      BY <3>3 DEF StructInv, TypeOK, CursorInv
  <2>3. ~Batch!skipping
    BY <2>1, Skipping
  <2>4. Batch!Answer
    BY <2>1, <2>2, <2>3 DEF Batch!Answer, Batch!RecordResult, Batch!Record, ResultEvent, Outcome
  <2>5. QED
    BY <2>4 DEF Batch!Next
<1>3. CASE SkipCall
  <2>1. /\ log' = Append(log, CallEvent(started + 1, TRUE)) /\ started < N /\ committed = started
        /\ started' = started + 1 /\ committed' = committed /\ Outcome = "running" /\ Outcome' = "running"
    BY <1>3 DEF SkipCall, Outcome, StructInv, TypeOK, CursorInv
  <2>2. Batch!SkipCall
    BY <2>1 DEF Batch!SkipCall, Batch!RecordCall, Batch!Record, CallEvent
  <2>3. QED
    BY <2>2 DEF Batch!Next
<1>4. CASE SkipResult
  <2>1. /\ log' = Append(log, ResultEvent(started, TRUE)) /\ started = committed + 1 /\ pc = "skipped"
        /\ started' = started /\ committed' = committed + 1 /\ Outcome = "running" /\ Outcome' = "running"
    BY <1>4 DEF SkipResult, Outcome, StructInv, TypeOK, CursorInv
  <2>2. Batch!skipping
    BY <2>1, Skipping
  <2>3. committed < started /\ log' = Append(log, ResultEvent(committed + 1, TRUE))
    BY <2>1 DEF StructInv, TypeOK
  <2>4. Batch!SkipAnswer
    BY <2>1, <2>2, <2>3 DEF Batch!SkipAnswer, Batch!RecordResult, Batch!Record, ResultEvent
  <2>5. QED
    BY <2>4 DEF Batch!Next
<1>5. CASE GroupEnds \/ SkippingDone
  <2>1. log' = log /\ started' = started /\ committed' = committed /\ Outcome = "running"
    BY <1>5 DEF GroupEnds, SkippingDone, Outcome
  <2>2. CASE pc' = "done"
    <3>1. committed = N
      <4>1. CASE SkippingDone
        BY <4>1 DEF SkippingDone, StructInv, CursorInv
      <4>2. CASE GroupEnds
        BY <2>2, <4>2, NAssumption DEF GroupEnds, StructInv, TypeOK, CursorInv, CommitInv
      <4>3. QED
        BY <1>5, <4>1, <4>2
    <3>2. Batch!Return
      BY <2>1, <2>2, <3>1 DEF Batch!Return, Batch!End, Outcome
    <3>3. QED
      BY <3>2 DEF Batch!Next
  <2>3. CASE pc' # "done"
    BY <1>5, <2>1, <2>3 DEF GroupEnds, SkippingDone, Outcome, Batch!vars
  <2>4. QED
    BY <2>2, <2>3
<1>6. CASE Drained
  <2>1. log' = log /\ started' = started /\ committed' = committed /\ Outcome = "running" /\ Outcome' = "threw" /\ pc = "draining"
    BY <1>6 DEF Drained, Outcome
  <2>2. Batch!Throw
    BY <2>1, Skipping DEF Batch!Throw, Batch!End
  <2>3. QED
    BY <2>2 DEF Batch!Next
<1>7. CASE Classify \/ StopFilling \/ Prepared \/ PrepareFails \/ CallStarted \/ StartFinalize \/ FinalizeFails
           \/ Committed \/ Collect
  BY <1>7 DEF Classify, StopFilling, Prepared, PrepareFails, CallStarted, StartFinalize, FinalizeFails, Fails,
     Committed, Collect, Outcome, StructInv, CursorInv, Batch!vars
<1>8. CASE Bodies \/ Cancel \/ UNCHANGED vars
  BY <1>8 DEF Bodies, BodyResolves, BodyRejects, Cancel, vars, Outcome, Batch!vars
<1>9. QED
  BY <1>1, <1>2, <1>3, <1>4, <1>5, <1>6, <1>7, <1>8 DEF Next, Scheduler

\* Calls and results reach the log in the model's order, each once, whatever
\* ran concurrently; a returned batch has answered every call.
THEOREM ImplementsOrderedResults == Spec => ResultsInModelOrder
<1>1. Init => Batch!Init
  BY DEF Init, Batch!Init, Outcome
<1>2. IInv /\ [Next]_vars => [Batch!Next]_Batch!vars
  BY BatchStep DEF IInv
<1>3. QED
  BY <1>1, <1>2, Inductive, PTL DEF Spec, ResultsInModelOrder, Batch!Spec

=============================================================================
