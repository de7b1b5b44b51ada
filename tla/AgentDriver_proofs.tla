-------------------------- MODULE AgentDriver_proofs --------------------------
(***************************************************************************)
(* Proofs about AgentDriver, for every set of messages, every selection of *)
(* outcomes and every bound.                                               *)
(***************************************************************************)
EXTENDS AgentDriver, SequenceTheorems, TLAPS

\* inbox.remove() returns a shorter list of the same messages.
LEMMA RemoveAtType ==
    ASSUME NEW S, NEW s \in Seq(S), NEW i \in 1..Len(s)
    PROVE  RemoveAt(s, i) \in Seq(S)
<1>1. SubSeq(s, 1, i - 1) \in Seq(S)  OBVIOUS
<1>2. SubSeq(s, i + 1, Len(s)) \in Seq(S)  OBVIOUS
<1>3. QED  BY <1>1, <1>2 DEF RemoveAt

\* The Boolean variables alone: Zenon reasons about these, SMT about the rest.
LEMMA FlagsStep ==
    ASSUME TypeOK, [Next]_vars
    PROVE  Flags'
<1> USE DEF TypeOK, Flags, phaseVars, turnVars, inboxVars, callerVars, activityVars, historyVars,
            driverFrame
<1>1. ASSUME NEW m \in Message, NEW to \in {"next-turn", "next-step"}, NEW wakeup \in BOOLEAN,
             Send(m, to, wakeup)
      PROVE  Flags'
  BY <1>1 DEF Send
<1>2. ASSUME NEW c \in Causes, CancelKeeping(c) \/ CancelClearing(c) \/ CancelEmpty(c)
      PROVE  Flags'
  BY <1>2, Zenon DEF CancelKeeping, CancelClearing, CancelEmpty, Abort
<1>3. CASE RemoveQueued \/ WhenIdle
  BY <1>3, Zenon DEF RemoveQueued, WhenIdle
<1>4. CASE RunMaintenance \/ MaintenanceEnds
  BY <1>4, Zenon DEF RunMaintenance, MaintenanceEnds, FreshPhase
<1>5. CASE SendWakes
  BY <1>5, Zenon DEF SendWakes, WakeDriver, FreshPhase, Latches
<1>6. CASE CancelClearsTurns \/ CancelAborts
  BY <1>6, Zenon DEF CancelClearsTurns, CancelAborts, Abort
<1>7. CASE Replay
  BY <1>7, Zenon DEF Replay, WakeDriver, FreshPhase, Latches
<1>8. CASE DriverSettles \/ WhenIdleResumes
  BY <1>8, Zenon DEF DriverSettles, WhenIdleResumes
<1>9. CASE OpenTurn \/ Claim \/ ProposalFails \/ Propose
  BY <1>9, Zenon DEF OpenTurn, Claim, FollowupsTaken, ProposalFails, Propose, StepLocalsEnd
<1>10. CASE DeclineStep \/ EnterStep
  BY <1>10, Zenon DEF DeclineStep, EnterStep, StepLocalsEnd
<1>11. CASE PrepareFails \/ Prepare \/ Admit \/ Chunk
  BY <1>11, Zenon DEF PrepareFails, Prepare, Admit, Chunk
<1>12. CASE StreamFails \/ StreamErrors \/ StreamFinishes
  BY <1>12, Zenon DEF StreamFails, StreamErrors, StreamFinishes
<1>13. CASE Retry \/ GiveUp \/ ToolsReturn \/ ToolContext
  BY <1>13, Zenon DEF Retry, GiveUp, ToolsReturn, ToolContext
<1>14. CASE CloseStep \/ CloseFailedStep \/ FailTurn
  BY <1>14, Zenon DEF CloseStep, OutcomeAfterStep, CloseFailedStep, FailTurn, StepLocalsEnd
<1>15. CASE AfterStep \/ Stopped \/ CloseTurn
  BY <1>15, Zenon DEF AfterStep, Stopped, CloseTurn
<1>16. CASE LeaveTurn \/ Retire
  BY <1>16, Zenon DEF LeaveTurn, FreshPhase, Retire
<1>17. CASE UNCHANGED vars
  BY <1>17, Zenon DEF vars
<1>18. QED
  BY <1>1, <1>2, <1>3, <1>4, <1>5, <1>6, <1>7, <1>8, <1>9, <1>10, <1>11, <1>12, <1>13, <1>14,
     <1>15, <1>16, <1>17 DEF Next, Caller, CallerContinues, Driver

\* What a step leaves alone keeps its type.
LEMMA UnchangedTypes ==
    ASSUME TypeOK
    PROVE  /\ UNCHANGED phaseVars => PhaseType'
           /\ UNCHANGED turnVars => TurnType'
           /\ UNCHANGED inboxVars => InboxType'
           /\ UNCHANGED callerVars => CallerType'
           /\ UNCHANGED activityVars => ActivityType'
           /\ UNCHANGED historyVars => HistoryType'
  BY DEF TypeOK, phaseVars, turnVars, inboxVars, callerVars, activityVars, historyVars,
         PhaseType, TurnType, InboxType, CallerType, ActivityType, HistoryType

\* Enqueueing keeps the types of the queues.
LEMMA EnqueueType ==
    ASSUME TypeOK, NEW m \in Message, NEW to, Enqueue(m, to)
    PROVE  InboxType' /\ unsent' \subseteq Message /\ queued' \in Seq(Message)
<1>1. unsent' \subseteq Message
  BY DEF TypeOK, HistoryType, Enqueue
<1>2. nextTurn' \in {nextTurn, Append(nextTurn, m)} /\ queued' \in {queued, Append(queued, m)}
      /\ nextStep' \in {nextStep, Append(nextStep, m)}
  BY DEF Enqueue
<1>3. nextTurn \in Seq(Message) /\ nextStep \in Seq(Message) /\ queued \in Seq(Message)
  BY DEF TypeOK, InboxType, HistoryType
<1>4. ASSUME NEW s \in Seq(Message) PROVE {s, Append(s, m)} \subseteq Seq(Message)
  BY <1>4, AppendProperties
<1>5. QED
  <2>1. nextTurn' \in Seq(Message)  BY <1>2, <1>3, <1>4
  <2>2. nextStep' \in Seq(Message)  BY <1>2, <1>3, <1>4
  <2>3. queued' \in Seq(Message)  BY <1>2, <1>3, <1>4
  <2>4. QED  BY <1>1, <2>1, <2>2, <2>3 DEF InboxType

\* Waking a driver keeps the types of what it sets.
LEMMA WakeDriverType ==
    ASSUME TypeOK, NEW afterAbort, WakeDriver(afterAbort)
    PROVE  PhaseType' /\ pc' \in Labels /\ activity' \in Nat
<1> USE DEF TypeOK, WakeDriver, FreshPhase, Latches, PhaseType, ActivityType
<1>1. CASE phase # "idle"  BY <1>1
<1>2. CASE phase = "idle"  BY <1>2 DEF Labels
<1>3. QED  BY <1>1, <1>2

\* Type correctness: no action leaves a variable outside its declared values.
THEOREM TypeCorrect == Spec => []TypeOK
<1>1. Init => TypeOK
  <2>1. Init => Flags
    BY Zenon DEF Init, Flags
  <2>2. Init => TypeOK
    BY <2>1 DEF Init, TypeOK, NotWaiting, Returned, Causes, Labels, PhaseType, TurnType, InboxType,
                CallerType, ActivityType, HistoryType
  <2>3. QED  BY <2>2
<1>2. TypeOK /\ [Next]_vars => TypeOK'
  <2> SUFFICES ASSUME TypeOK, [Next]_vars PROVE TypeOK'
    OBVIOUS
  <2>1. Flags'
    BY FlagsStep
  <2> SUFFICES /\ PhaseType' /\ pc' \in Labels /\ TurnType' /\ InboxType' /\ CallerType'
               /\ ActivityType' /\ HistoryType'
    BY <2>1 DEF TypeOK
  <2> USE UnchangedTypes DEF TypeOK, driverFrame, Labels
  <2>2. ASSUME NEW m \in Message, NEW to \in {"next-turn", "next-step"}, NEW wakeup \in BOOLEAN,
               Send(m, to, wakeup)
        PROVE  TypeOK'
    <3>1. InboxType' /\ HistoryType'
      BY <2>2, EnqueueType DEF Send, HistoryType
    <3>2. CallerType'
      <4> DEFINE late == wakeup /\ phase # "idle" /\ aborted
                 f == [op |-> "wake", message |-> m, afterAbort |-> late]
      <4>1. late \in BOOLEAN
        OBVIOUS
      <4>2. f \in Frames
        BY <4>1 DEF Frames
      <4>3. calls' = calls \/ calls' = <<f>> \o calls
        BY <2>2 DEF Send
      <4> HIDE DEF f
      <4>4. QED  BY <4>2, <4>3, ConcatProperties DEF CallerType
    <3>3. QED  BY <2>1, <2>2, <3>1, <3>2 DEF Send
  <2>3. ASSUME NEW c \in Causes, CancelKeeping(c) \/ CancelClearing(c) \/ CancelEmpty(c)
        PROVE  TypeOK'
    <3>1. CASE CancelKeeping(c)
      BY <2>1, <3>1 DEF CancelKeeping, Abort, PhaseType, HistoryType
    <3>2. CASE CancelClearing(c)
      <4>1. InboxType'
        <5>1. nextTurn' \in {nextTurn, <<>>} /\ nextStep' \in {nextStep, <<>>}
          BY <3>2 DEF CancelClearing
        <5>2. QED  BY <5>1, EmptySeq DEF InboxType
      <4>2. \E f \in Frames : calls' = <<f>> \o calls
        BY <3>2 DEF CancelClearing, Frames
      <4>3. CallerType'
        BY <4>2, ConcatProperties DEF CallerType
      <4>4. HistoryType'
        BY <3>2 DEF CancelClearing, HistoryType
      <4>5. QED  BY <2>1, <3>2, <4>1, <4>3, <4>4 DEF CancelClearing
    <3>3. CASE CancelEmpty(c)
      BY <2>1, <3>3 DEF CancelEmpty, Abort, PhaseType, HistoryType
    <3>4. QED  BY <2>3, <3>1, <3>2, <3>3
  <2>4. CASE RemoveQueued
    BY <2>1, <2>4, RemoveAtType DEF RemoveQueued, InboxType
  <2>5. CASE RunMaintenance
    BY <2>1, <2>5 DEF RunMaintenance, PhaseType, ActivityType, HistoryType
  <2>6. CASE WhenIdle \/ WhenIdleResumes \/ DriverSettles
    BY <2>1, <2>6 DEF WhenIdle, WhenIdleResumes, DriverSettles, ActivityType, callerVars
  <2>7. CASE SendWakes
    <3>1. PhaseType' /\ pc' \in Labels /\ ActivityType'
      BY <2>7, WakeDriverType DEF SendWakes, ActivityType
    <3>2. CallerType'
      BY <2>7 DEF SendWakes, CallerType
    <3>3. QED  BY <2>1, <2>7, <3>1, <3>2 DEF SendWakes
  <2>8. CASE CancelClearsTurns
    BY <2>1, <2>8 DEF CancelClearsTurns, InboxType, CallerType, Frames
  <2>9. CASE CancelAborts
    <3>1. Head(calls).cause \in Causes /\ CallerType'
      BY <2>9 DEF CancelAborts, CallerType, Frames
    <3>2. PhaseType' /\ HistoryType'
      BY <2>9, <3>1 DEF CancelAborts, Abort, PhaseType, HistoryType
    <3>3. QED  BY <2>1, <2>9, <3>1, <3>2 DEF CancelAborts
  <2>10. CASE Replay
    <3>1. PhaseType' /\ pc' \in Labels /\ ActivityType'
      <4>1. CASE HasPending
        BY <2>10, <4>1, WakeDriverType DEF Replay, ActivityType
      <4>2. CASE ~HasPending
        BY <2>10, <4>2 DEF Replay, ActivityType
      <4>3. QED  BY <4>1, <4>2
    <3>2. QED  BY <2>1, <2>10, <3>1 DEF Replay, CallerType
  <2>11. CASE MaintenanceEnds
    BY <2>1, <2>11 DEF MaintenanceEnds, FreshPhase, PhaseType, ActivityType
  <2>12. CASE Driver
    <3> USE DEF StepFails, StepReturns, EndTurn, ThrowTurn, StepLocalsEnd, TurnLocalsEnd, GoRound
    <3>1. CASE OpenTurn  BY <2>1, <3>1 DEF OpenTurn, PhaseType
    <3>2. CASE Claim
      <4>1. InboxType' /\ batch' \in Seq(Message)
        <5>1. CASE aborted  BY <3>2, <5>1 DEF Claim, FollowupsTaken, InboxType, TurnType, inboxVars
        <5>2. CASE ~aborted
          <6>1. PICK taken \in {0, 1} :
                   /\ taken = 1 => nextTurn # <<>>
                   /\ batch' = nextStep \o SubSeq(nextTurn, 1, taken) /\ nextStep' = <<>>
                   /\ nextTurn' = SubSeq(nextTurn, taken + 1, Len(nextTurn))
            <7>1. /\ batch' = nextStep \o SubSeq(nextTurn, 1, FollowupsTaken) /\ nextStep' = <<>>
                  /\ nextTurn' = SubSeq(nextTurn, FollowupsTaken + 1, Len(nextTurn))
              BY <3>2, <5>2 DEF Claim
            <7>2. FollowupsTaken \in {0, 1} /\ (FollowupsTaken = 1 => nextTurn # <<>>)
              BY DEF FollowupsTaken
            <7>3. QED
              BY <7>1, <7>2
          <6>2. SubSeq(nextTurn, 1, taken) \in Seq(Message)
            BY <6>1 DEF InboxType
          <6>3. SubSeq(nextTurn, taken + 1, Len(nextTurn)) \in Seq(Message)
            BY DEF InboxType
          <6>4. batch' \in Seq(Message)
            BY <6>1, <6>2 DEF InboxType
          <6>5. nextTurn' \in Seq(Message)
            BY <6>1, <6>3, Zenon
          <6>6. nextStep' \in Seq(Message)
            BY <6>1, EmptySeq
          <6>7. QED  BY <6>4, <6>5, <6>6 DEF InboxType
        <5>3. QED  BY <5>1, <5>2
      <4>2. QED  BY <2>1, <3>2, <4>1 DEF Claim, FollowupsTaken, TurnType, CallerType, callerVars
    <3>3. CASE ProposalFails  BY <2>1, <3>3 DEF ProposalFails, TurnType
    <3>4. CASE Propose
      <4>1. batch' \in Seq(Message)
        <5>1. batch' = batch \/ batch' = <<>> \/ (batch # <<>> /\ batch' = Tail(batch))
          BY <3>4 DEF Propose
        <5>2. batch \in Seq(Message)
          BY DEF TurnType
        <5>3. batch # <<>> => Tail(batch) \in Seq(Message)
          BY <5>2, HeadTailProperties
        <5>4. <<>> \in Seq(Message)
          BY EmptySeq
        <5>5. QED  BY <5>1, <5>2, <5>3, <5>4
      <4>2. entry' \in {"enter", "enterWithContext", "reject"}
        BY <3>4 DEF Propose
      <4>3. QED  BY <2>1, <3>4, <4>1, <4>2 DEF Propose, TurnType
    <3>5. CASE DeclineStep  BY <2>1, <3>5 DEF DeclineStep, TurnType
    <3>6. CASE EnterStep
      <4>1. CASE aborted  BY <2>1, <3>6, <4>1 DEF EnterStep, PhaseType, TurnType
      <4>2. CASE ~aborted  BY <2>1, <3>6, <4>2 DEF EnterStep, PhaseType, TurnType
      <4>3. QED  BY <4>1, <4>2
    <3>7. CASE PrepareFails \/ Prepare  BY <2>1, <3>7 DEF PrepareFails, Prepare
    <3>8. CASE Admit
      <4>1. HistoryType'
        <5> DEFINE news == [i \in 1..Len(Joining) |-> [message |-> Joining[i], turn |-> turn]]
        <5>1. Joining \in Seq(Message)
          BY EmptySeq DEF Joining, TurnType
        <5>2. news \in Seq([message : Message, turn : Nat]) /\ admitted' = admitted \o news
          <6> HIDE DEF Joining
          <6>1. news \in Seq([message : Message, turn : Nat])
            BY <5>1 DEF PhaseType
          <6>2. admitted' = admitted \o news
            BY <3>8 DEF Admit
          <6>3. QED  BY <6>1, <6>2
        <5> HIDE DEF news
        <5>3. admitted' \in Seq([message : Message, turn : Nat])
          BY <5>2, ConcatProperties DEF HistoryType
        <5>4. QED  BY <3>8, <5>3 DEF Admit, HistoryType
      <4>2. QED  BY <2>1, <3>8, <4>1 DEF Admit, TurnType
    <3>9. CASE StreamFails \/ StreamErrors  BY <2>1, <3>9 DEF StreamFails, StreamErrors, TurnType
    <3>10. CASE StreamFinishes  BY <2>1, <3>10 DEF StreamFinishes, TurnType
    <3>11. CASE Retry \/ GiveUp  BY <2>1, <3>11 DEF Retry, GiveUp, TurnType
    <3>12. CASE ToolsReturn  BY <2>1, <3>12 DEF ToolsReturn, TurnType
    <3>13. CASE CloseStep \/ CloseFailedStep
      <4>1. CASE CloseStep  BY <2>1, <3>13, <4>1 DEF CloseStep, OutcomeAfterStep, TurnType
      <4>2. CASE CloseFailedStep  BY <2>1, <3>13, <4>2 DEF CloseFailedStep, TurnType
      <4>3. QED  BY <3>13, <4>1, <4>2
    <3>14. CASE FailTurn  BY <2>1, <3>14 DEF FailTurn, TurnType
    <3>15. CASE AfterStep  BY <2>1, <3>15 DEF AfterStep, TurnType
    <3>16. CASE Stopped  BY <2>1, <3>16 DEF Stopped, TurnType
    <3>17. CASE CloseTurn \/ LeaveTurn  BY <2>1, <3>17 DEF CloseTurn, LeaveTurn, FreshPhase, PhaseType, TurnType
    <3>18. CASE Retire  BY <2>1, <3>18 DEF Retire, FreshPhase, PhaseType, CallerType, ActivityType
    <3>19. QED
      BY <2>12, <3>1, <3>2, <3>3, <3>4, <3>5, <3>6, <3>7, <3>8, <3>9, <3>10, <3>11, <3>12, <3>13,
         <3>14, <3>15, <3>16, <3>17, <3>18 DEF Driver
  <2>13. CASE Chunk
    BY <2>1, <2>13 DEF Chunk, TurnType
  <2>14. CASE ToolContext
    BY <2>1, <2>14, EnqueueType DEF ToolContext, HistoryType
  <2>15. CASE UNCHANGED vars
    BY <2>1, <2>15 DEF vars
  <2>16. QED
    BY <2>2, <2>3, <2>4, <2>5, <2>6, <2>7, <2>8, <2>9, <2>10, <2>11, <2>12, <2>13, <2>14, <2>15
       DEF Next, Caller, CallerContinues
<1>3. QED  BY <1>1, <1>2, PTL DEF Spec

-----------------------------------------------------------------------------
(* The log.  The inductive invariant says where the log's cursor stands at *)
(* each label of the driver.                                               *)

TurnOpen == pc \notin {"idle", "begin", "turnClosed", "retiring"}
StepOpen == pc \in {"preparing", "prepared", "streaming", "recovering", "tools",
                    "stepDone", "stepFailed"}

EventTypes == {"none", "turn/start", "turn/end", "step/start", "step/end"} \union Log!StepEvents
LogEvents == [type : EventTypes, turn : Nat, step : Nat, call : {0}]
Cursors == [openTurn : Nat, openStep : Nat, nextTurn : Nat, nextStep : Nat, pendingCalls : {{}},
            last : LogEvents]

CursorInv ==
    /\ phase # "running" => pc = "idle"
    /\ trace \in Cursors
    /\ IF TurnOpen THEN trace.openTurn = turn /\ trace.nextTurn = turn /\ turn > 0
                   ELSE trace.openTurn = 0 /\ trace.nextTurn = turn + 1
    /\ StepOpen => trace.openStep = step /\ trace.nextStep = step /\ step > 0
    /\ ~StepOpen => trace.openStep = 0
    /\ TurnOpen /\ ~StepOpen => trace.nextStep = step + 1
    /\ pc = "begin" => step = 0

\* How the events of the loop move the cursor.
LEMMA LogEventFields ==
    ASSUME NEW e \in LogEvents
    PROVE  e.type \in EventTypes /\ e.turn \in Nat /\ e.step \in Nat
  BY DEF LogEvents

\* The next turn and step numbers are numbers.
LEMMA NextNumber ==
    ASSUME NEW t \in Cursors
    PROVE  t.nextTurn + 1 \in Nat /\ t.nextStep + 1 \in Nat
  BY DEF Cursors

\* Applying an event gives a trace again.
LEMMA ApplyType ==
    ASSUME NEW t \in Cursors, NEW e \in LogEvents
    PROVE  Log!Apply(t, e) \in Cursors
<1> USE DEF Log!Apply, Log!None, Cursors
<1>1. CASE e.type = "turn/start"  BY <1>1, LogEventFields DEF Log!StepEvents
<1>2. CASE e.type = "turn/end"
  <2>1. ASSUME NEW n \in Nat
        PROVE  [t EXCEPT !.openTurn = 0, !.nextTurn = n, !.last = e] \in Cursors
    OBVIOUS
  <2>2. Log!Apply(t, e) = [t EXCEPT !.openTurn = 0, !.nextTurn = t.nextTurn + 1, !.last = e]
    BY <1>2 DEF Log!StepEvents
  <2>3. QED  BY <2>1, <2>2, NextNumber
<1>3. CASE e.type = "step/start"  BY <1>3, LogEventFields DEF Log!StepEvents
<1>4. CASE e.type = "step/end"
  <2>1. ASSUME NEW n \in Nat
        PROVE  [t EXCEPT !.openStep = 0, !.nextStep = n, !.pendingCalls = {}, !.last = e] \in Cursors
    OBVIOUS
  <2>2. Log!Apply(t, e) = [t EXCEPT !.openStep = 0, !.nextStep = t.nextStep + 1, !.pendingCalls = {},
                                    !.last = e]
    BY <1>4 DEF Log!StepEvents
  <2>3. QED  BY <2>1, <2>2, NextNumber
<1>5. CASE e.type \in Log!StepEvents \union {"none"}  BY <1>5 DEF Log!StepEvents
<1>6. QED  BY <1>1, <1>2, <1>3, <1>4, <1>5, LogEventFields DEF EventTypes

\* What each kind of event does to the trace.
LEMMA ApplyEvent ==
    ASSUME NEW t \in Cursors, NEW e \in LogEvents, NEW u, u = Log!Apply(t, e)
    PROVE  /\ e.type = "turn/start" => u.openTurn = e.turn /\ u.nextStep = 1
                                       /\ u.openStep = t.openStep /\ u.nextTurn = t.nextTurn
           /\ e.type = "turn/end" => u.openTurn = 0 /\ u.nextTurn = t.nextTurn + 1
                                     /\ u.openStep = t.openStep /\ u.nextStep = t.nextStep
           /\ e.type = "step/start" => u.openStep = e.step /\ u.openTurn = t.openTurn
                                       /\ u.nextTurn = t.nextTurn /\ u.nextStep = t.nextStep
           /\ e.type = "step/end" => u.openStep = 0 /\ u.nextStep = t.nextStep + 1
                                     /\ u.openTurn = t.openTurn /\ u.nextTurn = t.nextTurn
           /\ e.type \in Log!StepEvents => u.openStep = t.openStep /\ u.openTurn = t.openTurn
                                           /\ u.nextTurn = t.nextTurn /\ u.nextStep = t.nextStep
<1> USE DEF Cursors, Log!Apply, Log!None
<1>1. CASE e.type = "turn/start"  BY <1>1 DEF Log!StepEvents
<1>2. CASE e.type = "turn/end"  BY <1>2 DEF Log!StepEvents
<1>3. CASE e.type = "step/start"  BY <1>3 DEF Log!StepEvents
<1>4. CASE e.type = "step/end"  BY <1>4 DEF Log!StepEvents
<1>5. CASE e.type \in Log!StepEvents  BY <1>5 DEF Log!StepEvents
<1>6. QED  BY <1>1, <1>2, <1>3, <1>4, <1>5

\* The fields of an event the driver writes.
LEMMA EventType ==
    ASSUME NEW type \in EventTypes, NEW n \in Nat, NEW k \in Nat
    PROVE  LET e == Log!Event(type, n, k)
           IN  e \in LogEvents /\ e.type = type /\ e.turn = n /\ e.step = k
  BY DEF Log!Event, Log!None, LogEvents

\* Caller operations leave the log alone and start drivers only where none runs.
LEMMA CallersKeepCursor ==
    ASSUME TypeOK, CursorInv, Caller \/ CallerContinues \/ MaintenanceEnds \/ Chunk \/ ToolContext
    PROVE  CursorInv' /\ UNCHANGED trace
<1> USE DEF TypeOK, PhaseType, CursorInv, TurnOpen, StepOpen, phaseVars
<1>1. ASSUME NEW m \in Message, NEW to \in {"next-turn", "next-step"}, NEW wakeup \in BOOLEAN,
             Send(m, to, wakeup)
      PROVE  CursorInv' /\ UNCHANGED trace
  BY <1>1 DEF Send
<1>2. ASSUME NEW c \in Causes, CancelKeeping(c) \/ CancelClearing(c) \/ CancelEmpty(c)
      PROVE  CursorInv' /\ UNCHANGED trace
  BY <1>2 DEF CancelKeeping, CancelClearing, CancelEmpty
<1>3. CASE RemoveQueued \/ RunMaintenance \/ WhenIdle
  BY <1>3 DEF RemoveQueued, RunMaintenance, WhenIdle
<1>4. ASSUME NEW afterAbort, WakeDriver(afterAbort), UNCHANGED trace
      PROVE  CursorInv'
  BY <1>4 DEF WakeDriver, FreshPhase, Latches
<1>5. CASE SendWakes
  BY <1>4, <1>5 DEF SendWakes
<1>6. CASE Replay
  <2>1. CASE HasPending  BY <1>4, <1>6, <2>1 DEF Replay
  <2>2. CASE ~HasPending  BY <1>6, <2>2 DEF Replay
  <2>3. QED  BY <2>1, <2>2
<1>7. CASE CancelClearsTurns \/ CancelAborts \/ DriverSettles \/ WhenIdleResumes
  BY <1>7 DEF CancelClearsTurns, CancelAborts, DriverSettles, WhenIdleResumes
<1>8. CASE MaintenanceEnds \/ Chunk \/ ToolContext
  BY <1>8 DEF MaintenanceEnds, FreshPhase, Chunk, ToolContext
<1>9. QED
  BY <1>1, <1>2, <1>3, <1>5, <1>6, <1>7, <1>8 DEF Caller, CallerContinues

\* Steps of the driver that write nothing stay inside the same turn and step.
LEMMA SilentStepsKeepCursor ==
    ASSUME TypeOK, CursorInv,
           \/ Claim \/ ProposalFails \/ Propose \/ DeclineStep
           \/ PrepareFails \/ Prepare \/ Retry \/ GiveUp \/ ToolsReturn \/ FailTurn
           \/ AfterStep \/ Stopped \/ LeaveTurn \/ Retire
    PROVE  CursorInv' /\ UNCHANGED trace
<1> USE DEF TypeOK, PhaseType, CursorInv, TurnOpen, StepOpen, phaseVars, Runs, EndTurn, ThrowTurn,
            StepFails, StepReturns, GoRound
<1>1. CASE Claim  BY <1>1 DEF Claim, FollowupsTaken
<1>2. CASE ProposalFails \/ Propose \/ DeclineStep  BY <1>2 DEF ProposalFails, Propose, DeclineStep
<1>3. CASE PrepareFails \/ Prepare \/ Retry \/ GiveUp  BY <1>3 DEF PrepareFails, Prepare, Retry, GiveUp
<1>4. CASE ToolsReturn \/ FailTurn  BY <1>4 DEF ToolsReturn, FailTurn
<1>5. CASE AfterStep \/ Stopped  BY <1>5 DEF AfterStep, Stopped
<1>6. CASE LeaveTurn \/ Retire  BY <1>6 DEF LeaveTurn, FreshPhase, Retire
<1>7. QED  BY <1>1, <1>2, <1>3, <1>4, <1>5, <1>6

\* An append is accepted when its event fits the cursor.
LEMMA Accepted ==
    ASSUME NEW e \in LogEvents, Write(e), Log!Valid(trace, e), e.type # "none",
           e.turn \in {0, trace.openTurn, trace.nextTurn}, e.step \in {0, trace.openStep, trace.nextStep}
    PROVE  Log!Next
<1>1. e \in Log!Candidates(trace)
  BY DEF LogEvents, EventTypes, Log!Candidates, Log!None
<1>2. QED  BY <1>1 DEF Write, Log!Next, Log!Extend

\* turn/start is accepted where the driver opens a turn.
LEMMA OpenTurnKeepsCursor ==
    ASSUME TypeOK, CursorInv, OpenTurn
    PROVE  CursorInv' /\ [Log!Next]_trace
<1>1. CASE aborted
  BY <1>1 DEF OpenTurn, Runs, CursorInv, TurnOpen, StepOpen
<1>2. CASE ~aborted
  <2> DEFINE e == Log!Event("turn/start", turn + 1, 0)
  <2>1. /\ pc = "begin" /\ pc' = "boundary" /\ step = 0 /\ turn' = turn + 1
        /\ phase' = phase /\ step' = step /\ turn \in Nat
    BY <1>2 DEF OpenTurn, Runs, CursorInv, TypeOK, PhaseType
  <2>2. Write(e)
    BY <1>2 DEF OpenTurn, Log!None
  <2>3. e \in LogEvents /\ e.type = "turn/start" /\ e.turn = turn + 1 /\ e.step = 0
    BY <2>1, EventType DEF EventTypes
  <2> HIDE DEF e
  <2>4. trace' = Log!Apply(trace, e) /\ trace \in Cursors
    BY <2>2 DEF Write, CursorInv
  <2>5. CursorInv'
    BY <2>1, <2>3, <2>4, ApplyType, ApplyEvent DEF CursorInv, TurnOpen, StepOpen
  <2>6. Log!Valid(trace, e)
    BY <2>1, <2>3
       DEF CursorInv, TurnOpen, StepOpen, Log!Valid, Log!None, Log!StepEvents, Log!TurnEvents
  <2>7. e.turn \in {0, trace.openTurn, trace.nextTurn} /\ e.step \in {0, trace.openStep, trace.nextStep}
    BY <2>1, <2>3 DEF CursorInv, TurnOpen, StepOpen
  <2>8. QED  BY <2>2, <2>3, <2>5, <2>6, <2>7, Accepted
<1>3. QED  BY <1>1, <1>2

\* step/start is accepted where the driver enters a step.
LEMMA EnterStepKeepsCursor ==
    ASSUME TypeOK, CursorInv, EnterStep
    PROVE  CursorInv' /\ [Log!Next]_trace
<1>1. CASE aborted
  BY <1>1 DEF EnterStep, ThrowTurn, EndTurn, Runs, CursorInv, TurnOpen, StepOpen
<1>2. CASE ~aborted
  <2> DEFINE e == Log!Event("step/start", turn, step + 1)
  <2>1. /\ pc = "decided" /\ pc' = "preparing" /\ step' = step + 1
        /\ phase' = phase /\ turn' = turn /\ turn \in Nat /\ step \in Nat
    BY <1>2 DEF EnterStep, Runs, TypeOK, PhaseType
  <2>2. Write(e)
    BY <1>2 DEF EnterStep
  <2>3. e \in LogEvents /\ e.type = "step/start" /\ e.turn = turn /\ e.step = step + 1
    BY <2>1, EventType DEF EventTypes
  <2> HIDE DEF e
  <2>4. trace' = Log!Apply(trace, e) /\ trace \in Cursors
    BY <2>2 DEF Write, CursorInv
  <2>5. CursorInv'
    BY <2>1, <2>3, <2>4, ApplyType, ApplyEvent DEF CursorInv, TurnOpen, StepOpen
  <2>6. Log!Valid(trace, e)
    BY <2>1, <2>3
       DEF CursorInv, TurnOpen, StepOpen, Log!Valid, Log!None, Log!StepEvents, Log!TurnEvents
  <2>7. e.turn \in {0, trace.openTurn, trace.nextTurn} /\ e.step \in {0, trace.openStep, trace.nextStep}
    BY <2>1, <2>3 DEF CursorInv, TurnOpen, StepOpen
  <2>8. QED  BY <2>2, <2>3, <2>5, <2>6, <2>7, Accepted
<1>3. QED  BY <1>1, <1>2

\* What the driver writes inside a step is accepted and leaves it open.
LEMMA StepEventsKeepCursor ==
    ASSUME TypeOK, CursorInv, Admit \/ StreamFails \/ StreamErrors \/ StreamFinishes
    PROVE  CursorInv' /\ [Log!Next]_trace
<1>1. PICK type \in Log!StepEvents : Write(InStep(type))
  BY DEF Admit, StreamFails, StreamErrors, StreamFinishes, Log!StepEvents
<1>2. /\ pc \in {"prepared", "streaming"} /\ pc' \in {"streaming", "stepFailed", "recovering", "stepDone", "tools"}
      /\ phase' = phase /\ turn' = turn /\ step' = step /\ turn \in Nat /\ step \in Nat
  BY DEF Admit, StreamFails, StreamErrors, StreamFinishes, StepFails, StepReturns, Runs, phaseVars,
         TypeOK, PhaseType
<1> DEFINE e == Log!Event(type, turn, step)
<1>3. e \in LogEvents /\ e.type \in Log!StepEvents /\ e.turn = turn /\ e.step = step
  BY <1>2, EventType DEF EventTypes, Log!StepEvents
<1>4. Write(e)
  BY <1>1 DEF InStep
<1> HIDE DEF e
<1>5. trace' = Log!Apply(trace, e) /\ trace \in Cursors
  BY <1>4 DEF Write, CursorInv
<1>6. CursorInv'
  BY <1>2, <1>3, <1>5, ApplyType, ApplyEvent DEF CursorInv, TurnOpen, StepOpen
<1>7. Log!Valid(trace, e) /\ e.type # "none" /\ e.turn = trace.openTurn /\ e.step = trace.openStep
  BY <1>2, <1>3 DEF CursorInv, TurnOpen, StepOpen, Log!Valid, Log!None, Log!StepEvents, Log!InOpenStep
<1>8. QED  BY <1>3, <1>4, <1>6, <1>7, Accepted

\* step/end is accepted where the driver closes a step.
LEMMA CloseStepKeepsCursor ==
    ASSUME TypeOK, CursorInv, CloseStep \/ CloseFailedStep
    PROVE  CursorInv' /\ [Log!Next]_trace
<1>1. /\ pc \in {"stepDone", "stepFailed"} /\ pc' \in {"afterStep", "turnFailed"}
      /\ phase' = phase /\ turn' = turn /\ step' = step /\ turn \in Nat /\ step \in Nat
  BY DEF CloseStep, OutcomeAfterStep, CloseFailedStep, Runs, phaseVars, TypeOK, PhaseType
<1> DEFINE e == Log!Event("step/end", turn, step)
<1>2. Write(e)
  BY DEF CloseStep, OutcomeAfterStep, CloseFailedStep, InStep
<1>3. e \in LogEvents /\ e.type = "step/end" /\ e.turn = turn /\ e.step = step
  BY <1>1, EventType DEF EventTypes
<1> HIDE DEF e
<1>4. trace' = Log!Apply(trace, e) /\ trace \in Cursors
  BY <1>2 DEF Write, CursorInv
<1>5. CursorInv'
  BY <1>1, <1>3, <1>4, ApplyType, ApplyEvent DEF CursorInv, TurnOpen, StepOpen
<1>6. Log!Valid(trace, e) /\ e.turn = trace.openTurn /\ e.step = trace.openStep
  BY <1>1, <1>3
     DEF CursorInv, TurnOpen, StepOpen, Log!Valid, Log!None, Log!InOpenStep, Log!StepEvents, Log!TurnEvents
<1>7. QED  BY <1>2, <1>3, <1>5, <1>6, Accepted

\* turn/end is accepted where the driver closes a turn.
LEMMA CloseTurnKeepsCursor ==
    ASSUME TypeOK, CursorInv, CloseTurn
    PROVE  CursorInv' /\ [Log!Next]_trace
<1>1. /\ pc = "closeTurn" /\ pc' = "turnClosed"
      /\ phase' = phase /\ turn' = turn /\ step' = step /\ turn \in Nat /\ step \in Nat
  BY DEF CloseTurn, Runs, phaseVars, TypeOK, PhaseType
<1> DEFINE e == Log!Event("turn/end", turn, 0)
<1>2. Write(e)
  BY DEF CloseTurn, InTurn, Log!None
<1>3. e \in LogEvents /\ e.type = "turn/end" /\ e.turn = turn /\ e.step = 0
  BY <1>1, EventType DEF EventTypes
<1> HIDE DEF e
<1>4. trace' = Log!Apply(trace, e) /\ trace \in Cursors
  BY <1>2 DEF Write, CursorInv
<1>5. CursorInv'
  BY <1>1, <1>3, <1>4, ApplyType, ApplyEvent DEF CursorInv, TurnOpen, StepOpen
<1>6. Log!Valid(trace, e) /\ e.turn = trace.openTurn /\ e.step = trace.openStep
  BY <1>1, <1>3
     DEF CursorInv, TurnOpen, StepOpen, Log!Valid, Log!None, Log!InOpenStep, Log!StepEvents, Log!TurnEvents
<1>7. QED  BY <1>2, <1>3, <1>5, <1>6, Accepted

\* Every step keeps CursorInv and is a step of the log or a stutter.
LEMMA CursorStep ==
    ASSUME TypeOK, CursorInv, [Next]_vars
    PROVE  CursorInv' /\ [Log!Next]_trace
<1>1. CASE Caller \/ CallerContinues \/ MaintenanceEnds \/ Chunk \/ ToolContext
  BY <1>1, CallersKeepCursor
<1>2. CASE Driver
  BY <1>2, SilentStepsKeepCursor, OpenTurnKeepsCursor, EnterStepKeepsCursor, StepEventsKeepCursor,
     CloseStepKeepsCursor, CloseTurnKeepsCursor DEF Driver
<1>3. CASE UNCHANGED vars
  BY <1>3 DEF vars, phaseVars, CursorInv, TurnOpen, StepOpen
<1>4. QED  BY <1>1, <1>2, <1>3 DEF Next

\* A new driver has nothing open.
LEMMA CursorInit == Init => CursorInv
<1> SUFFICES ASSUME Init PROVE CursorInv
  OBVIOUS
<1>1. Log!Event("none", 0, 0) \in LogEvents
  BY EventType DEF EventTypes
<1>2. trace \in Cursors
  BY <1>1 DEF Init, Cursors, Log!FreshTrace, Log!None
<1>3. trace.openTurn = 0 /\ trace.nextTurn = 1 /\ trace.openStep = 0
  BY DEF Init, Log!FreshTrace, Log!None
<1>4. QED  BY <1>2, <1>3 DEF Init, CursorInv, TurnOpen, StepOpen

\* Whatever callers, hooks, model and tools do, the log is balanced at every
\* instant at which no driver is running.
THEOREM LogBalancedAtRest == Spec => []QuiescentLogBalanced
<1>1. CursorInv => QuiescentLogBalanced
  BY DEF CursorInv, QuiescentLogBalanced, TurnOpen, StepOpen, Log!Balanced, Log!None
<1>2. QED  BY <1>1, CursorInit, CursorStep, TypeCorrect, PTL DEF Spec

\* The agent loop implements the session log's turn/step protocol: it never
\* appends an event the invariant companion would reject.
THEOREM ImplementsLogProtocol == Spec => LogProtocol
<1>1. Init => Log!Init
  BY DEF Init, Log!Init
<1>2. QED
  BY <1>1, CursorInit, CursorStep, TypeCorrect, PTL DEF Spec, LogProtocol, Log!Spec

-----------------------------------------------------------------------------
(* The wake latch.  A latch set on a running driver needs the abort that   *)
(* send() saw before its observers ran, so a suspended send() that saw one *)
(* pins the aborted activity; and only a user's cancel can set it.         *)

LatchInv ==
    /\ phase = "running" /\ wakeRequested => cause = "user"
    /\ phase = "idle" => ~aborted
    /\ \A i \in 1..Len(calls) :
          calls[i].op = "wake" /\ calls[i].afterAbort => phase # "idle" /\ aborted

\* Pushing or popping a frame keeps the frames below it.
LEMMA PushFrame ==
    ASSUME NEW f \in Frames, NEW s \in Seq(Frames)
    PROVE  LET t == <<f>> \o s
           IN  \A i \in 1..Len(t) : t[i] = f \/ \E j \in 1..Len(s) : t[i] = s[j]
  OBVIOUS

\* The frames below the innermost caller are frames of the stack.
LEMMA PopFrame ==
    ASSUME NEW s \in Seq(Frames), s # <<>>
    PROVE  /\ Head(s) = s[1] /\ 1 \in 1..Len(s)
           /\ \A i \in 1..Len(Tail(s)) : \E j \in 1..Len(s) : Tail(s)[i] = s[j]
  OBVIOUS

\* Only maintenance or an aborted activity is latched, and no step takes an abort back.
LEMMA LatchStep ==
    ASSUME TypeOK, CursorInv, LatchInv, [Next]_vars
    PROVE  LatchInv'
<1> USE DEF LatchInv, phaseVars, aborted
<1>0. calls \in Seq(Frames) /\ cause \in {"none", "user", "disposed"}
  BY DEF TypeOK, CallerType, PhaseType, Causes
<1>1. ASSUME NEW m \in Message, NEW to \in {"next-turn", "next-step"}, NEW wakeup \in BOOLEAN,
             Send(m, to, wakeup)
      PROVE  LatchInv'
  <2> DEFINE f == [op |-> "wake", message |-> m, afterAbort |-> wakeup /\ phase # "idle" /\ aborted]
  <2>1. calls' = calls \/ calls' = <<f>> \o calls
    BY <1>1 DEF Send
  <2>2. f \in Frames
    BY DEF Frames
  <2>3. f.afterAbort => phase # "idle" /\ aborted
    OBVIOUS
  <2> HIDE DEF f
  <2>4. \A i \in 1..Len(calls') : calls'[i] = f \/ \E j \in 1..Len(calls) : calls'[i] = calls[j]
    <3>1. CASE calls' = calls
      BY <3>1
    <3>2. CASE calls' = <<f>> \o calls
      BY <1>0, <2>2, <3>2, PushFrame
    <3>3. QED
      BY <2>1, <3>1, <3>2
  <2>5. UNCHANGED phaseVars
    BY <1>1 DEF Send
  <2>6. QED  BY <2>3, <2>4, <2>5
<1>2. ASSUME NEW c \in Causes, CancelClearing(c)
      PROVE  LatchInv'
  <2>1. PICK f \in Frames : f.op \in {"clear", "abort"} /\ calls' = <<f>> \o calls
    BY <1>2 DEF CancelClearing, Frames
  <2>2. \A i \in 1..Len(calls') : calls'[i] = f \/ \E j \in 1..Len(calls) : calls'[i] = calls[j]
    BY <1>0, <2>1, PushFrame
  <2>3. UNCHANGED phaseVars
    BY <1>2 DEF CancelClearing
  <2>4. QED  BY <2>1, <2>2, <2>3
<1>3. ASSUME NEW c \in Causes, CancelKeeping(c) \/ CancelEmpty(c)
      PROVE  LatchInv'
  <2>1. cause' = cause \/ (phase # "idle" /\ cause = "none" /\ cause' = c)
    BY <1>3 DEF CancelKeeping, CancelEmpty, Abort
  <2>2. c # "none"
    BY DEF Causes
  <2>3. UNCHANGED <<phase, calls>> /\ (wakeRequested' => wakeRequested)
    BY <1>3 DEF CancelKeeping, CancelEmpty, callerVars
  <2>4. QED  BY <1>0, <2>1, <2>2, <2>3
<1>4. CASE RunMaintenance
  BY <1>4 DEF RunMaintenance, callerVars
<1>5. ASSUME calls # <<>>, calls' = Tail(calls)
      PROVE  \A i \in 1..Len(calls') : \E j \in 1..Len(calls) : calls'[i] = calls[j]
  BY <1>0, <1>5, PopFrame
<1>6. CASE SendWakes
  <2>1. calls # <<>> /\ Head(calls).op = "wake" /\ calls' = Tail(calls)
        /\ WakeDriver(Head(calls).afterAbort)
    BY <1>6 DEF SendWakes
  <2>2. Head(calls).afterAbort => phase # "idle" /\ aborted
    BY <1>0, <2>1, PopFrame
  <2>3. CASE phase = "idle"
    BY <1>5, <2>1, <2>3 DEF WakeDriver, FreshPhase, Latches
  <2>4. CASE phase # "idle"
    <3>1. UNCHANGED <<phase, cause>>
      BY <2>1, <2>4 DEF WakeDriver, FreshPhase, Latches
    <3>2. wakeRequested' => wakeRequested \/ phase = "maintenance" \/ (cause # "disposed" /\ Head(calls).afterAbort)
      BY <2>1, <2>4 DEF WakeDriver, FreshPhase, Latches
    <3>3. QED  BY <1>0, <1>5, <2>1, <2>2, <2>4, <3>1, <3>2
  <2>5. QED  BY <2>3, <2>4
<1>7. CASE CancelClearsTurns
  <2>1. PICK f \in Frames : f.op = "abort" /\ calls' = <<f>> \o Tail(calls)
    <3>1. Head(calls).cause \in Causes
      BY <1>0, <1>7 DEF CancelClearsTurns, Frames
    <3>2. QED  BY <1>7, <3>1 DEF CancelClearsTurns, Frames
  <2>2. calls # <<>> /\ Tail(calls) \in Seq(Frames)
    BY <1>0, <1>7 DEF CancelClearsTurns
  <2>3. \A i \in 1..Len(calls') : calls'[i] = f \/ \E j \in 1..Len(Tail(calls)) : calls'[i] = Tail(calls)[j]
    BY <2>1, <2>2, PushFrame
  <2>4. \A i \in 1..Len(calls') : calls'[i] = f \/ \E j \in 1..Len(calls) : calls'[i] = calls[j]
    BY <1>0, <2>2, <2>3, PopFrame
  <2>5. UNCHANGED phaseVars
    BY <1>7 DEF CancelClearsTurns
  <2>6. QED  BY <2>1, <2>4, <2>5
<1>8. CASE CancelAborts
  <2>1. calls # <<>> /\ calls' = Tail(calls) /\ ~wakeRequested' /\ UNCHANGED phase
    BY <1>8 DEF CancelAborts
  <2>2. Head(calls).cause \in Causes
    BY <1>0, <1>8 DEF CancelAborts, Frames
  <2>3. cause' = cause \/ (phase # "idle" /\ cause = "none" /\ cause' # "none")
    BY <1>8, <2>2 DEF CancelAborts, Abort, Causes
  <2>4. QED  BY <1>0, <1>5, <2>1, <2>3
<1>9. CASE Replay
  <2>1. CASE HasPending
    <3>1. calls = <<>> /\ calls' = <<>> /\ WakeDriver(FALSE)
      BY <1>9, <2>1 DEF Replay
    <3>2. Len(calls') = 0
      BY <3>1
    <3>3. CASE phase = "idle"  BY <3>1, <3>2, <3>3 DEF WakeDriver, FreshPhase, Latches
    <3>4. CASE phase # "idle"  BY <3>1, <3>2, <3>4 DEF WakeDriver, FreshPhase, Latches
    <3>5. QED  BY <3>3, <3>4
  <2>2. CASE ~HasPending
    BY <1>9, <2>2 DEF Replay
  <2>3. QED  BY <2>1, <2>2
<1>10. CASE MaintenanceEnds \/ LeaveTurn \/ Retire
  <2>1. calls = <<>> /\ calls' = <<>>
    BY <1>10 DEF MaintenanceEnds, FreshPhase, LeaveTurn, Retire, Runs, Synchronous, driverFrame, callerVars
  <2>2. Len(calls') = 0
    BY <2>1
  <2>3. CASE MaintenanceEnds  BY <2>2, <2>3 DEF MaintenanceEnds, FreshPhase
  <2>4. CASE LeaveTurn  BY <2>2, <2>4 DEF LeaveTurn, FreshPhase
  <2>5. CASE Retire  BY <2>2, <2>5 DEF Retire, FreshPhase
  <2>6. QED  BY <1>10, <2>3, <2>4, <2>5
<1>11. ASSUME UNCHANGED <<phase, cause, wakeRequested, calls>>
       PROVE  LatchInv'
  BY <1>11
<1>12. CASE RemoveQueued \/ WhenIdle \/ WhenIdleResumes \/ DriverSettles \/ UNCHANGED vars
  BY <1>11, <1>12 DEF RemoveQueued, WhenIdle, WhenIdleResumes, DriverSettles, vars, callerVars
<1>13. CASE OpenTurn \/ Claim \/ ProposalFails \/ Propose \/ DeclineStep \/ EnterStep
  BY <1>11, <1>13 DEF OpenTurn, Claim, FollowupsTaken, ProposalFails, Propose, DeclineStep, EnterStep,
     driverFrame, callerVars
<1>14. CASE PrepareFails \/ Prepare \/ Admit \/ Chunk \/ StreamFails \/ StreamErrors \/ StreamFinishes
  BY <1>11, <1>14 DEF PrepareFails, Prepare, Admit, Chunk, StreamFails, StreamErrors, StreamFinishes,
     driverFrame, callerVars
<1>15. CASE Retry \/ GiveUp \/ ToolContext \/ ToolsReturn \/ CloseStep \/ CloseFailedStep \/ FailTurn
  BY <1>11, <1>15 DEF Retry, GiveUp, ToolContext, ToolsReturn, CloseStep, CloseFailedStep, FailTurn,
     driverFrame, callerVars
<1>16. CASE AfterStep \/ Stopped \/ CloseTurn
  BY <1>11, <1>16 DEF AfterStep, Stopped, CloseTurn, driverFrame, callerVars
<1>17. QED
  BY <1>1, <1>2, <1>3, <1>4, <1>6, <1>7, <1>8, <1>9, <1>10, <1>12, <1>13, <1>14, <1>15, <1>16
     DEF Next, Caller, CallerContinues, Driver

\* A new driver has no latch.
LEMMA LatchInit == Init => LatchInv
  BY DEF Init, LatchInv, aborted

\* A running driver that holds a latch has been aborted: no live driver ever
\* carries a stale latch into its retirement.
THEOREM LatchOnlyAfterAbort == Spec => []LatchNeedsAbort
<1>1. LatchInv => LatchNeedsAbort
  BY DEF LatchInv, LatchNeedsAbort, aborted
<1>2. QED
  BY <1>1, LatchInit, LatchStep, CursorInit, CursorStep, TypeCorrect, PTL DEF Spec

\* An activity aborted by disposal ends idle and replays nothing.
THEOREM DisposalParks == Spec => DisposedActivityParks
<1>1. TypeOK /\ CursorInv /\ LatchInv /\ [Next]_vars
        => (cause = "disposed" /\ phase' # phase => phase' = "idle" /\ ~replay')
  <2> SUFFICES ASSUME TypeOK, CursorInv, LatchInv, [Next]_vars, cause = "disposed", phase' # phase
               PROVE  phase' = "idle" /\ ~replay'
    OBVIOUS
  <2>1. phase # "idle"
    BY DEF LatchInv, aborted
  <2>2. CASE MaintenanceEnds
    BY <2>2 DEF MaintenanceEnds, FreshPhase, Synchronous, callerVars
  <2>3. CASE Retire
    BY <2>3 DEF Retire, FreshPhase, Runs, LatchInv, CursorInv, TypeOK, PhaseType
  <2>4. CASE SendWakes \/ Replay \/ RunMaintenance
    BY <2>1, <2>4 DEF SendWakes, Replay, RunMaintenance, WakeDriver, FreshPhase, Latches, phaseVars
  <2>5. CASE Caller /\ ~RunMaintenance
    BY <2>5 DEF Caller, Send, CancelKeeping, CancelClearing, CancelEmpty, RemoveQueued, WhenIdle, phaseVars
  <2>6. CASE CancelClearsTurns \/ CancelAborts \/ DriverSettles \/ WhenIdleResumes
    BY <2>6 DEF CancelClearsTurns, CancelAborts, DriverSettles, WhenIdleResumes, phaseVars
  <2>7. CASE Driver /\ ~Retire
    BY <2>7 DEF Driver, OpenTurn, Claim, FollowupsTaken, ProposalFails, Propose, DeclineStep, EnterStep,
       PrepareFails, Prepare, Admit, StreamFails, StreamErrors, StreamFinishes,
       Retry, GiveUp, ToolsReturn, CloseStep, OutcomeAfterStep, CloseFailedStep, FailTurn, AfterStep, Stopped,
       CloseTurn, LeaveTurn, FreshPhase, phaseVars
  <2>8. CASE Chunk \/ ToolContext \/ UNCHANGED vars
    BY <2>8 DEF Chunk, ToolContext, vars, phaseVars
  <2>9. QED
    BY <2>2, <2>3, <2>4, <2>5, <2>6, <2>7, <2>8 DEF Next, CallerContinues
<1>2. QED
  BY <1>1, LatchInit, LatchStep, CursorInit, CursorStep, TypeCorrect, PTL DEF Spec, DisposedActivityParks

-----------------------------------------------------------------------------
(* Each message is in one place: not sent yet, in one of the queues, in    *)
(* the batch of a step that has not recorded it, or in the log.            *)

Unique(s) == \A i, j \in 1..Len(s) : s[i] = s[j] => i = j

\* The batch between its claim and the attempt that records it.
Proposed == pc \in {"proposing", "decided", "preparing", "prepared"} /\ attempts = 0
Held == IF Proposed THEN ToSet(batch) ELSE {}
Recorded == {admitted[i].message : i \in 1..Len(admitted)}

Apart(u, t, s, h, r) ==
    /\ u \cap t = {} /\ u \cap s = {} /\ u \cap h = {} /\ u \cap r = {}
    /\ t \cap s = {} /\ t \cap h = {} /\ t \cap r = {}
    /\ s \cap h = {} /\ s \cap r = {} /\ h \cap r = {}

OnceInv ==
    /\ Unique(nextTurn) /\ Unique(nextStep) /\ Unique(batch)
    /\ \A i, j \in 1..Len(admitted) : admitted[i].message = admitted[j].message => i = j
    /\ Apart(unsent, ToSet(nextTurn), ToSet(nextStep), Held, Recorded)

\* The messages of a sequence.
LEMMA MessagesOf ==
    ASSUME NEW S, NEW s \in Seq(S)
    PROVE  /\ ToSet(s) = {s[i] : i \in 1..Len(s)}
           /\ ToSet(<<>>) = {} /\ Unique(<<>>)
<1>1. DOMAIN s = 1..Len(s) /\ DOMAIN <<>> = {} /\ Len(<<>>) = 0
  OBVIOUS
<1>2. QED
  BY <1>1 DEF ToSet, Unique

\* A new message at the end of a queue.
LEMMA AppendUnique ==
    ASSUME NEW S, NEW s \in Seq(S), NEW m \in S
    PROVE  /\ ToSet(Append(s, m)) = ToSet(s) \union {m}
           /\ Unique(s) /\ m \notin ToSet(s) => Unique(Append(s, m))
<1>1. /\ Append(s, m) \in Seq(S) /\ Len(Append(s, m)) = Len(s) + 1 /\ Len(s) \in Nat
      /\ \A i \in 1..Len(s) : Append(s, m)[i] = s[i]
      /\ Append(s, m)[Len(s) + 1] = m
  BY AppendProperties
<1>2. ToSet(s) = {s[i] : i \in 1..Len(s)}
      /\ ToSet(Append(s, m)) = {Append(s, m)[i] : i \in 1..Len(s) + 1}
  BY <1>1, MessagesOf
<1>3. 1..Len(s) + 1 = 1..Len(s) \union {Len(s) + 1}
  BY <1>1
<1>4. QED
  BY <1>1, <1>2, <1>3 DEF Unique

\* A stretch of a sequence.
LEMMA PartUnique ==
    ASSUME NEW S, NEW s \in Seq(S), NEW a \in Nat \ {0}, NEW b \in 0..Len(s)
    PROVE  /\ SubSeq(s, a, b) \in Seq(S)
           /\ ToSet(SubSeq(s, a, b)) = {s[i] : i \in a..b}
           /\ Unique(s) => Unique(SubSeq(s, a, b))
<1> DEFINE t == SubSeq(s, a, b)
<1>1. /\ t \in Seq(S) /\ Len(t) = (IF a <= b THEN b - a + 1 ELSE 0)
      /\ \A i \in 1..b - a + 1 : t[i] = s[a + i - 1]
  <2>1. \A i \in a..b : s[i] \in S
    OBVIOUS
  <2>2. QED
    BY <2>1, SubSeqProperties
<1>2. ToSet(t) = {t[i] : i \in 1..Len(t)}
  BY <1>1, MessagesOf
<1> HIDE DEF t
<1>3. ToSet(t) \subseteq {s[i] : i \in a..b}
  <2>1. ASSUME NEW i \in 1..Len(t) PROVE a + i - 1 \in a..b /\ t[i] = s[a + i - 1]
    BY <1>1
  <2>2. QED
    BY <1>2, <2>1
<1>4. ASSUME NEW i \in a..b PROVE s[i] \in ToSet(t)
  <2>1. i - a + 1 \in 1..Len(t) /\ t[i - a + 1] = s[i]
    BY <1>1
  <2>2. QED
    BY <1>2, <2>1
<1>5. ASSUME Unique(s) PROVE Unique(t)
  <2>1. ASSUME NEW i \in 1..Len(t), NEW j \in 1..Len(t), t[i] = t[j] PROVE i = j
    <3>1. a + i - 1 \in 1..Len(s) /\ a + j - 1 \in 1..Len(s) /\ s[a + i - 1] = s[a + j - 1]
      BY <1>1, <2>1
    <3>2. QED
      BY <1>5, <3>1 DEF Unique
  <2>2. QED
    BY <2>1 DEF Unique
<1>6. QED
  BY <1>1, <1>3, <1>4, <1>5 DEF t

\* Two sequences in a row.
LEMMA JoinUnique ==
    ASSUME NEW S, NEW s \in Seq(S), NEW t \in Seq(S)
    PROVE  /\ s \o t \in Seq(S) /\ ToSet(s \o t) = ToSet(s) \union ToSet(t)
           /\ Unique(s) /\ Unique(t) /\ ToSet(s) \cap ToSet(t) = {} => Unique(s \o t)
<1>1. /\ s \o t \in Seq(S) /\ Len(s \o t) = Len(s) + Len(t) /\ Len(s) \in Nat /\ Len(t) \in Nat
      /\ \A i \in 1..Len(s) + Len(t) : (s \o t)[i] = IF i <= Len(s) THEN s[i] ELSE t[i - Len(s)]
  BY ConcatProperties
<1>2. /\ ToSet(s) = {s[i] : i \in 1..Len(s)} /\ ToSet(t) = {t[i] : i \in 1..Len(t)}
      /\ ToSet(s \o t) = {(s \o t)[i] : i \in 1..Len(s) + Len(t)}
  BY <1>1, MessagesOf
<1>3. ToSet(s \o t) \subseteq ToSet(s) \union ToSet(t)
  BY <1>1, <1>2
<1>4. ASSUME NEW i \in 1..Len(s) PROVE s[i] \in ToSet(s \o t)
  BY <1>1, <1>2
<1>5. ASSUME NEW i \in 1..Len(t) PROVE t[i] \in ToSet(s \o t)
  <2>1. Len(s) + i \in 1..Len(s) + Len(t) /\ (s \o t)[Len(s) + i] = t[i]
    BY <1>1
  <2>2. QED
    BY <1>2, <2>1
<1>6. ASSUME Unique(s), Unique(t), ToSet(s) \cap ToSet(t) = {} PROVE Unique(s \o t)
  <2>1. ASSUME NEW i \in 1..Len(s), NEW j \in 1..Len(t) PROVE s[i] # t[j]
    BY <1>2, <1>6
  <2>2. ASSUME NEW i \in 1..Len(s) + Len(t), NEW j \in 1..Len(s) + Len(t), (s \o t)[i] = (s \o t)[j]
        PROVE  i = j
    <3>1. CASE i <= Len(s) /\ j <= Len(s)
      BY <1>1, <1>6, <2>2, <3>1 DEF Unique
    <3>2. CASE i > Len(s) /\ j > Len(s)
      <4>1. i - Len(s) \in 1..Len(t) /\ j - Len(s) \in 1..Len(t) /\ t[i - Len(s)] = t[j - Len(s)]
        BY <1>1, <2>2, <3>2
      <4>2. i - Len(s) = j - Len(s)
        BY <1>6, <4>1 DEF Unique
      <4>3. QED
        BY <1>1, <4>2
    <3>3. CASE i <= Len(s) /\ j > Len(s)
      <4>1. i \in 1..Len(s) /\ j - Len(s) \in 1..Len(t) /\ s[i] = t[j - Len(s)]
        BY <1>1, <2>2, <3>3
      <4>2. QED
        BY <2>1, <4>1
    <3>4. CASE i > Len(s) /\ j <= Len(s)
      <4>1. j \in 1..Len(s) /\ i - Len(s) \in 1..Len(t) /\ s[j] = t[i - Len(s)]
        BY <1>1, <2>2, <3>4
      <4>2. QED
        BY <2>1, <4>1
    <3>5. QED
      BY <1>1, <3>1, <3>2, <3>3, <3>4
  <2>3. QED
    BY <1>1, <2>2 DEF Unique
<1>7. ToSet(s) \union ToSet(t) \subseteq ToSet(s \o t)
  BY <1>2, <1>4, <1>5
<1>8. s \o t \in Seq(S)
  BY <1>1
<1>9. QED
  BY <1>3, <1>6, <1>7, <1>8

\* What is left behind a prefix, and what is in it, have no message in common.
LEMMA SplitUnique ==
    ASSUME NEW S, NEW s \in Seq(S), NEW k \in 0..Len(s), NEW l \in Nat, k < l, Unique(s)
    PROVE  ToSet(SubSeq(s, 1, k)) \cap ToSet(SubSeq(s, l, Len(s))) = {}
<1>1. Len(s) \in 0..Len(s) /\ Len(s) \in Nat /\ l \in Nat \ {0}
  OBVIOUS
<1>2. /\ ToSet(SubSeq(s, 1, k)) = {s[i] : i \in 1..k}
      /\ ToSet(SubSeq(s, l, Len(s))) = {s[i] : i \in l..Len(s)}
  BY <1>1, PartUnique
<1>3. ASSUME NEW i \in 1..k, NEW j \in l..Len(s) PROVE s[i] # s[j]
  BY <1>1, <1>3 DEF Unique
<1>4. QED
  BY <1>2, <1>3

\* remove() takes one message out.
LEMMA RemoveUnique ==
    ASSUME NEW S, NEW s \in Seq(S), NEW i \in 1..Len(s), Unique(s)
    PROVE  ToSet(RemoveAt(s, i)) \subseteq ToSet(s) /\ Unique(RemoveAt(s, i))
<1> DEFINE a == SubSeq(s, 1, i - 1)
           b == SubSeq(s, i + 1, Len(s))
<1>1. Len(s) \in Nat /\ i - 1 \in 0..Len(s) /\ i + 1 \in Nat \ {0} /\ Len(s) \in 0..Len(s) /\ i - 1 < i + 1
  OBVIOUS
<1>2. /\ a \in Seq(S) /\ ToSet(a) = {s[j] : j \in 1..i - 1} /\ Unique(a)
      /\ b \in Seq(S) /\ ToSet(b) = {s[j] : j \in i + 1..Len(s)} /\ Unique(b)
  BY <1>1, PartUnique
<1>3. ToSet(a) \cap ToSet(b) = {}
  BY <1>1, SplitUnique
<1>4. RemoveAt(s, i) = a \o b
  BY DEF RemoveAt
<1> HIDE DEF a, b
<1>5. ToSet(a \o b) = ToSet(a) \union ToSet(b) /\ Unique(a \o b)
  <2>1. a \in Seq(S) /\ b \in Seq(S) /\ Unique(a) /\ Unique(b)
    BY <1>2
  <2>2. /\ ToSet(a \o b) = ToSet(a) \union ToSet(b)
        /\ Unique(a) /\ Unique(b) /\ ToSet(a) \cap ToSet(b) = {} => Unique(a \o b)
    BY <2>1, JoinUnique
  <2>3. QED
    BY <1>3, <2>1, <2>2
<1>6. ToSet(s) = {s[j] : j \in 1..Len(s)}
  BY MessagesOf
<1>7. ToSet(a) \subseteq ToSet(s) /\ ToSet(b) \subseteq ToSet(s)
  BY <1>1, <1>2, <1>6
<1>8. QED
  BY <1>4, <1>5, <1>7

\* A place that loses messages stays apart from the others.
LEMMA ApartShrinks ==
    ASSUME NEW u, NEW t, NEW s, NEW h, NEW r, Apart(u, t, s, h, r),
           NEW t2, NEW s2, NEW h2, t2 \subseteq t, s2 \subseteq s, h2 \subseteq h
    PROVE  Apart(u, t2, s2, h2, r)
  BY Zenon DEF Apart

\* A step that sends and records nothing, and moves messages nowhere.
LEMMA OnceShrinks ==
    ASSUME OnceInv, UNCHANGED <<unsent, admitted>>,
           Unique(nextTurn'), Unique(nextStep'), Unique(batch'),
           ToSet(nextTurn') \subseteq ToSet(nextTurn), ToSet(nextStep') \subseteq ToSet(nextStep),
           Held' \subseteq Held
    PROVE  OnceInv'
<1>1. Recorded' = Recorded
  BY DEF Recorded
<1>2. Apart(unsent, ToSet(nextTurn'), ToSet(nextStep'), Held', Recorded)
  BY ApartShrinks DEF OnceInv
<1>3. QED
  BY <1>1, <1>2 DEF OnceInv

\* A step that leaves the inbox alone, and proposes nothing it did not propose before.
LEMMA OnceFrame ==
    ASSUME TypeOK, OnceInv, UNCHANGED <<inboxVars, unsent, admitted>>,
           batch' = batch \/ batch' = <<>>, Proposed' => Proposed
    PROVE  OnceInv'
<1>1. ToSet(<<>>) = {} /\ Unique(<<>>)
  BY MessagesOf DEF TypeOK, TurnType
<1>2. Held' \subseteq Held /\ Unique(batch')
  BY <1>1 DEF Held, OnceInv
<1>3. UNCHANGED <<nextTurn, nextStep>>
  BY DEF inboxVars
<1>4. QED
  BY <1>2, <1>3, OnceShrinks DEF OnceInv

\* A message that is sent leaves the unsent ones for a queue.
LEMMA OnceEnqueue ==
    ASSUME TypeOK, OnceInv, NEW m \in Message, NEW to, Enqueue(m, to),
           UNCHANGED <<pc, attempts, batch, admitted>>
    PROVE  OnceInv'
<1>1. nextTurn \in Seq(Message) /\ nextStep \in Seq(Message)
  BY DEF TypeOK, InboxType
<1>2. Held' = Held /\ Recorded' = Recorded /\ unsent' = unsent \ {m} /\ m \in unsent
  BY DEF Held, Proposed, Recorded, Enqueue
<1>3. m \notin ToSet(nextTurn) \union ToSet(nextStep) \union Held \union Recorded
  BY <1>2 DEF OnceInv, Apart
<1>4. CASE nextTurn' = Append(nextTurn, m) /\ nextStep' = nextStep
  <2>1. ToSet(nextTurn') = ToSet(nextTurn) \union {m} /\ Unique(nextTurn')
    BY <1>1, <1>3, <1>4, AppendUnique DEF OnceInv
  <2>2. Apart(unsent \ {m}, ToSet(nextTurn) \union {m}, ToSet(nextStep), Held, Recorded)
    BY <1>3 DEF OnceInv, Apart
  <2>3. QED
    BY <1>2, <1>4, <2>1, <2>2 DEF OnceInv
<1>5. CASE nextStep' = Append(nextStep, m) /\ nextTurn' = nextTurn
  <2>1. ToSet(nextStep') = ToSet(nextStep) \union {m} /\ Unique(nextStep')
    BY <1>1, <1>3, <1>5, AppendUnique DEF OnceInv
  <2>2. Apart(unsent \ {m}, ToSet(nextTurn), ToSet(nextStep) \union {m}, Held, Recorded)
    BY <1>3 DEF OnceInv, Apart
  <2>3. QED
    BY <1>2, <1>5, <2>1, <2>2 DEF OnceInv
<1>6. QED
  BY <1>4, <1>5 DEF Enqueue

\* The claim moves the steering and at most one follow-up into the batch.
LEMMA OnceClaim == TypeOK /\ OnceInv /\ Claim => OnceInv'
<1> SUFFICES ASSUME TypeOK, OnceInv, Claim PROVE OnceInv'
  OBVIOUS
<1>1. nextTurn \in Seq(Message) /\ nextStep \in Seq(Message) /\ FollowupsTaken \in 0..Len(nextTurn)
      /\ Len(nextTurn) \in Nat
  BY DEF TypeOK, InboxType, FollowupsTaken
<1>2. UNCHANGED <<unsent, admitted, attempts>>
  BY DEF Claim, historyVars
<1>3. CASE aborted
  <2>1. batch' = batch /\ UNCHANGED inboxVars /\ pc' = "closeTurn"
    BY <1>3 DEF Claim, ThrowTurn, EndTurn
  <2>2. QED
    BY <1>2, <2>1, OnceFrame DEF Proposed
<1>4. CASE ~aborted
  <2> DEFINE k == FollowupsTaken
             taken == SubSeq(nextTurn, 1, k)
             left == SubSeq(nextTurn, k + 1, Len(nextTurn))
  <2>1. batch' = nextStep \o taken /\ nextStep' = <<>> /\ nextTurn' = left
    BY <1>4 DEF Claim
  <2>2. ToSet(nextTurn) = {nextTurn[i] : i \in 1..Len(nextTurn)} /\ ToSet(<<>>) = {} /\ Unique(<<>>)
    BY <1>1, MessagesOf
  <2>3. taken \in Seq(Message) /\ ToSet(taken) = {nextTurn[i] : i \in 1..k} /\ Unique(taken)
    BY <1>1, PartUnique DEF OnceInv
  <2>4. ToSet(left) = {nextTurn[i] : i \in k + 1..Len(nextTurn)} /\ Unique(left)
    BY <1>1, PartUnique DEF OnceInv
  <2>5. ToSet(taken) \cap ToSet(left) = {}
    BY <1>1, SplitUnique DEF OnceInv
  <2>6. ToSet(taken) \subseteq ToSet(nextTurn) /\ ToSet(left) \subseteq ToSet(nextTurn)
    BY <1>1, <2>2, <2>3, <2>4
  <2> HIDE DEF taken, left, k
  <2>7. ToSet(nextStep) \cap ToSet(taken) = {}
    BY <2>6 DEF OnceInv, Apart
  <2>8. ToSet(batch') = ToSet(nextStep) \union ToSet(taken) /\ Unique(batch')
    BY <1>1, <2>1, <2>3, <2>7, JoinUnique DEF OnceInv
  <2>9. Held' \subseteq ToSet(nextStep) \union ToSet(taken) /\ Recorded' = Recorded
    BY <1>2, <2>8 DEF Held, Recorded
  <2>10. Apart(unsent, ToSet(left), {}, Held', Recorded)
    BY <2>5, <2>6, <2>9 DEF OnceInv, Apart
  <2>11. QED
    BY <1>2, <2>1, <2>2, <2>4, <2>8, <2>9, <2>10 DEF OnceInv
<1>5. QED
  BY <1>3, <1>4

\* A listener may trim the batch.
LEMMA OncePropose == TypeOK /\ OnceInv /\ Propose => OnceInv'
<1> SUFFICES ASSUME TypeOK, OnceInv, Propose PROVE OnceInv'
  OBVIOUS
<1>1. UNCHANGED <<nextTurn, nextStep, unsent, admitted, attempts>> /\ UNCHANGED inboxVars
      /\ (Proposed' => Proposed)
  BY DEF Propose, Runs, driverFrame, inboxVars, historyVars, Proposed
<1>2. CASE batch' = batch \/ batch' = <<>>
  BY <1>1, <1>2, OnceFrame
<1>3. CASE batch # <<>> /\ batch' = Tail(batch)
  <2>1. batch \in Seq(Message)
    BY DEF TypeOK, TurnType
  <2>2. /\ Tail(batch) \in Seq(Message) /\ Len(Tail(batch)) = Len(batch) - 1 /\ Len(batch) \in Nat
        /\ \A i \in 1..Len(Tail(batch)) : Tail(batch)[i] = batch[i + 1]
    BY <1>3, <2>1, HeadTailProperties
  <2>3. ToSet(Tail(batch)) \subseteq ToSet(batch)
    <3>1. /\ ToSet(Tail(batch)) = {Tail(batch)[i] : i \in 1..Len(Tail(batch))}
          /\ ToSet(batch) = {batch[i] : i \in 1..Len(batch)}
      BY <2>1, <2>2, MessagesOf
    <3>2. \A i \in 1..Len(Tail(batch)) : i + 1 \in 1..Len(batch)
      BY <2>2
    <3>3. QED
      BY <2>2, <3>1, <3>2
  <2>4. Unique(Tail(batch))
    BY <2>2 DEF OnceInv, Unique
  <2>5. Held' \subseteq Held
    BY <1>1, <1>3, <2>3 DEF Held
  <2>6. QED
    BY <1>1, <1>3, <2>4, <2>5, OnceShrinks DEF OnceInv
<1>4. QED
  BY <1>2, <1>3 DEF Propose

\* A step's first attempt moves the batch into the log; a retry records nothing.
LEMMA OnceAdmit == TypeOK /\ OnceInv /\ Admit => OnceInv'
<1> SUFFICES ASSUME TypeOK, OnceInv, Admit PROVE OnceInv'
  OBVIOUS
<1> DEFINE Entry == [message : Message, turn : Nat]
           fresh == [i \in 1..Len(Joining) |-> [message |-> Joining[i], turn |-> turn]]
<1>1. batch \in Seq(Message) /\ admitted \in Seq(Entry) /\ turn \in Nat /\ Joining \in Seq(Message)
      /\ Joining \in {batch, <<>>}
  BY DEF TypeOK, TurnType, HistoryType, PhaseType, Joining
<1>2. /\ admitted' = admitted \o fresh /\ UNCHANGED <<nextTurn, nextStep, unsent, batch, attempts>>
      /\ ~Proposed'
  BY DEF Admit, inboxVars, Proposed, StepFails
<1>3. /\ fresh \in Seq(Entry) /\ Len(fresh) = Len(Joining)
      /\ \A i \in 1..Len(Joining) : fresh[i].message = Joining[i]
  BY <1>1
<1> HIDE DEF fresh, Entry
<1>4. /\ Len(admitted') = Len(admitted) + Len(Joining) /\ Len(admitted) \in Nat /\ Len(Joining) \in Nat
      /\ \A i \in 1..Len(admitted) : admitted'[i] = admitted[i]
      /\ \A i \in Len(admitted) + 1..Len(admitted') : admitted'[i].message = Joining[i - Len(admitted)]
  <2>1. /\ Len(admitted \o fresh) = Len(admitted) + Len(fresh)
        /\ \A i \in 1..Len(admitted) + Len(fresh) :
              (admitted \o fresh)[i] = IF i <= Len(admitted) THEN admitted[i] ELSE fresh[i - Len(admitted)]
    <3>1. admitted \in Seq(Entry) /\ fresh \in Seq(Entry)
      BY <1>1, <1>3, Zenon
    <3>2. QED
      BY <3>1, ConcatProperties, Zenon
  <2>2. Len(admitted) \in Nat /\ Len(Joining) \in Nat
    BY <1>1
  <2>3. ASSUME NEW i \in Len(admitted) + 1..Len(admitted) + Len(Joining)
        PROVE  (admitted \o fresh)[i].message = Joining[i - Len(admitted)]
    <3>1. i - Len(admitted) \in 1..Len(Joining) /\ (admitted \o fresh)[i] = fresh[i - Len(admitted)]
      BY <1>3, <2>1, <2>2
    <3>2. QED
      BY <1>3, <3>1
  <2>4. \A i \in 1..Len(admitted) : (admitted \o fresh)[i] = admitted[i]
    BY <1>3, <2>1, <2>2
  <2>5. QED
    BY <1>2, <1>3, <2>1, <2>2, <2>3, <2>4
<1>5. Unique(Joining) /\ ToSet(Joining) \subseteq Held
      /\ ToSet(Joining) = {Joining[i] : i \in 1..Len(Joining)}
  <2>1. ToSet(<<>>) = {} /\ Unique(<<>>) /\ ToSet(Joining) = {Joining[i] : i \in 1..Len(Joining)}
    BY <1>1, MessagesOf
  <2>2. CASE attempts = 0
    BY <2>1, <2>2 DEF Joining, Held, Proposed, OnceInv, Admit, Runs
  <2>3. CASE attempts # 0
    BY <2>1, <2>3 DEF Joining
  <2>4. QED
    BY <2>1, <2>2, <2>3
<1>6. \A i \in 1..Len(admitted) : \A j \in 1..Len(Joining) : admitted[i].message # Joining[j]
  <2>1. Held \cap Recorded = {}
    BY DEF OnceInv, Apart
  <2>2. \A i \in 1..Len(admitted) : admitted[i].message \in Recorded
    BY DEF Recorded
  <2>3. \A j \in 1..Len(Joining) : Joining[j] \in Held
    BY <1>5
  <2>4. QED
    BY <2>1, <2>2, <2>3
<1>7. Held' = {} /\ Recorded' \subseteq Recorded \union ToSet(Joining)
  <2>1. ASSUME NEW i \in 1..Len(admitted') PROVE admitted'[i].message \in Recorded \union ToSet(Joining)
    <3>1. CASE i <= Len(admitted)
      BY <1>4, <3>1 DEF Recorded
    <3>2. CASE i > Len(admitted)
      <4>1. i - Len(admitted) \in 1..Len(Joining) /\ admitted'[i].message = Joining[i - Len(admitted)]
        BY <1>4, <3>2
      <4>2. QED
        BY <1>5, <4>1
    <3>3. QED
      BY <1>4, <3>1, <3>2
  <2>2. QED
    BY <1>2, <2>1 DEF Held, Recorded
<1>8. ASSUME NEW i \in 1..Len(admitted'), NEW j \in 1..Len(admitted'),
             admitted'[i].message = admitted'[j].message
      PROVE  i = j
  <2>1. CASE i <= Len(admitted) /\ j <= Len(admitted)
    BY <1>4, <1>8, <2>1 DEF OnceInv
  <2>2. CASE i > Len(admitted) /\ j > Len(admitted)
    <3>1. /\ i - Len(admitted) \in 1..Len(Joining) /\ j - Len(admitted) \in 1..Len(Joining)
          /\ Joining[i - Len(admitted)] = Joining[j - Len(admitted)]
      BY <1>4, <1>8, <2>2
    <3>2. i - Len(admitted) = j - Len(admitted)
      BY <1>5, <3>1 DEF Unique
    <3>3. QED
      BY <1>4, <3>2
  <2>3. CASE i <= Len(admitted) /\ j > Len(admitted)
    <3>1. /\ i \in 1..Len(admitted) /\ j - Len(admitted) \in 1..Len(Joining)
          /\ admitted[i].message = Joining[j - Len(admitted)]
      BY <1>4, <1>8, <2>3
    <3>2. QED
      BY <1>6, <3>1
  <2>4. CASE i > Len(admitted) /\ j <= Len(admitted)
    <3>1. /\ j \in 1..Len(admitted) /\ i - Len(admitted) \in 1..Len(Joining)
          /\ admitted[j].message = Joining[i - Len(admitted)]
      BY <1>4, <1>8, <2>4
    <3>2. QED
      BY <1>6, <3>1
  <2>5. QED
    BY <1>4, <2>1, <2>2, <2>3, <2>4
<1>9. Apart(unsent, ToSet(nextTurn), ToSet(nextStep), Held', Recorded')
  BY <1>5, <1>7 DEF OnceInv, Apart
<1>10. QED
  BY <1>2, <1>8, <1>9 DEF OnceInv

\* Every message starts unsent.
LEMMA OnceInit == Init => OnceInv
<1> SUFFICES ASSUME Init PROVE OnceInv
  OBVIOUS
<1>1. nextTurn = <<>> /\ nextStep = <<>> /\ batch = <<>> /\ admitted = <<>> /\ pc = "idle"
  BY DEF Init
<1>2. ToSet(<<>>) = {} /\ Unique(<<>>) /\ Len(<<>>) = 0
  <2>1. <<>> \in Seq(Message) /\ Len(<<>>) = 0
    OBVIOUS
  <2>2. QED
    BY <2>1, MessagesOf, Zenon
<1>3. Held = {} /\ Recorded = {}
  BY <1>1, <1>2 DEF Held, Proposed, Recorded
<1>4. QED
  BY <1>1, <1>2, <1>3 DEF OnceInv, Apart

\* A message never is in two places.
LEMMA OnceStep == TypeOK /\ OnceInv /\ [Next]_vars => OnceInv'
<1> SUFFICES ASSUME TypeOK, OnceInv, [Next]_vars PROVE OnceInv'
  OBVIOUS
<1>0. /\ nextTurn \in Seq(Message) /\ nextStep \in Seq(Message) /\ attempts \in Nat
      /\ ToSet(<<>>) = {} /\ Unique(<<>>) /\ unsent \subseteq Message
  BY MessagesOf DEF TypeOK, InboxType, TurnType, HistoryType
<1>1. ASSUME NEW m \in Message, NEW to \in {"next-turn", "next-step"}, NEW wakeup \in BOOLEAN,
             Send(m, to, wakeup)
      PROVE  OnceInv'
  <2>1. UNCHANGED <<pc, attempts, batch, admitted>>
    BY <1>1 DEF Send, turnVars
  <2>2. \E t : Enqueue(m, t)
    BY <1>1 DEF Send
  <2>3. QED
    BY <2>1, <2>2, OnceEnqueue
<1>2. CASE ToolContext
  <2>1. UNCHANGED <<pc, attempts, batch, admitted>>
    BY <1>2 DEF ToolContext, turnVars
  <2>2. PICK m \in unsent : Enqueue(m, "next-step")
    BY <1>2 DEF ToolContext
  <2>3. m \in Message
    BY <1>0
  <2>4. QED
    BY <2>1, <2>2, <2>3, OnceEnqueue
<1>3. ASSUME NEW c \in Causes, CancelKeeping(c) \/ CancelEmpty(c)
      PROVE  OnceInv'
  <2>1. UNCHANGED <<pc, attempts, batch, inboxVars, unsent, admitted>>
    BY <1>3 DEF CancelKeeping, CancelEmpty, turnVars
  <2>2. QED
    BY <2>1, OnceFrame DEF Proposed
<1>4. ASSUME UNCHANGED <<pc, attempts, batch, unsent, admitted>>,
             nextTurn' = nextTurn \/ nextTurn' = <<>>, nextStep' = nextStep \/ nextStep' = <<>>
      PROVE  OnceInv'
  <2>1. Unique(nextTurn') /\ Unique(nextStep') /\ ToSet(nextTurn') \subseteq ToSet(nextTurn)
        /\ ToSet(nextStep') \subseteq ToSet(nextStep)
    BY <1>0, <1>4 DEF OnceInv
  <2>2. Held' = Held /\ Unique(batch')
    BY <1>4 DEF Held, Proposed, OnceInv
  <2>3. QED
    BY <1>4, <2>1, <2>2, OnceShrinks
<1>5. ASSUME NEW c \in Causes, CancelClearing(c)
      PROVE  OnceInv'
  <2>1. UNCHANGED <<pc, attempts, batch, unsent, admitted>>
    BY <1>5 DEF CancelClearing, turnVars
  <2>2. (nextTurn' = nextTurn \/ nextTurn' = <<>>) /\ (nextStep' = nextStep \/ nextStep' = <<>>)
    BY <1>5, Zenon DEF CancelClearing
  <2>3. QED
    BY <1>4, <2>1, <2>2
<1>6. CASE CancelClearsTurns
  BY <1>4, <1>6 DEF CancelClearsTurns, turnVars, historyVars
<1>7. CASE RemoveQueued
  <2>1. UNCHANGED <<pc, attempts, batch, unsent, admitted>>
    BY <1>7 DEF RemoveQueued, turnVars, historyVars
  <2>2. Held' = Held /\ Unique(batch')
    BY <2>1 DEF Held, Proposed, OnceInv
  <2>3. ASSUME NEW i \in 1..Len(nextTurn), nextTurn' = RemoveAt(nextTurn, i), nextStep' = nextStep
        PROVE  OnceInv'
    <3>1. ToSet(nextTurn') \subseteq ToSet(nextTurn) /\ Unique(nextTurn')
      BY <1>0, <2>3, RemoveUnique DEF OnceInv
    <3>2. QED
      BY <2>1, <2>2, <2>3, <3>1, OnceShrinks DEF OnceInv
  <2>4. ASSUME NEW i \in 1..Len(nextStep), nextStep' = RemoveAt(nextStep, i), nextTurn' = nextTurn
        PROVE  OnceInv'
    <3>1. ToSet(nextStep') \subseteq ToSet(nextStep) /\ Unique(nextStep')
      BY <1>0, <2>4, RemoveUnique DEF OnceInv
    <3>2. QED
      BY <2>1, <2>2, <2>4, <3>1, OnceShrinks DEF OnceInv
  <2>5. QED
    BY <1>7, <2>3, <2>4 DEF RemoveQueued
<1>8. ASSUME UNCHANGED <<inboxVars, unsent, admitted>>, batch' = batch \/ batch' = <<>>, Proposed' => Proposed
      PROVE  OnceInv'
  BY <1>8, OnceFrame
<1>9. CASE SendWakes \/ Replay \/ MaintenanceEnds
  <2>1. UNCHANGED <<inboxVars, unsent, admitted, batch, attempts>>
    BY <1>9 DEF SendWakes, Replay, MaintenanceEnds, turnVars, historyVars
  <2>2. pc' = pc \/ pc' = "begin"
    BY <1>9 DEF SendWakes, Replay, MaintenanceEnds, WakeDriver
  <2>3. QED
    BY <1>8, <2>1, <2>2 DEF Proposed
<1>10. CASE CancelAborts \/ RunMaintenance \/ WhenIdle \/ WhenIdleResumes \/ DriverSettles \/ UNCHANGED vars
  <2>1. UNCHANGED <<pc, attempts, batch, inboxVars, unsent, admitted>>
    BY <1>10 DEF CancelAborts, RunMaintenance, WhenIdle, WhenIdleResumes, DriverSettles, vars, turnVars, historyVars
  <2>2. QED
    BY <1>8, <2>1 DEF Proposed
<1>11. CASE Claim \/ Propose \/ Admit
  BY <1>11, OnceClaim, OncePropose, OnceAdmit
<1>12. CASE OpenTurn \/ ProposalFails \/ DeclineStep \/ EnterStep
  BY <1>8, <1>12 DEF OpenTurn, ProposalFails, DeclineStep, EnterStep, ThrowTurn, EndTurn, StepLocalsEnd,
     turnVars, driverFrame, historyVars, Runs, Proposed
<1>13. CASE PrepareFails \/ Prepare \/ Chunk \/ StreamFails \/ StreamErrors \/ StreamFinishes
  BY <1>8, <1>13 DEF PrepareFails, Prepare, Chunk, StreamFails, StreamErrors, StreamFinishes, StepFails,
     StepReturns, turnVars, driverFrame, historyVars, Runs, Proposed
<1>14. CASE Retry \/ GiveUp \/ ToolsReturn \/ CloseStep \/ CloseFailedStep \/ FailTurn
  BY <1>0, <1>8, <1>14 DEF Retry, GiveUp, ToolsReturn, CloseStep, CloseFailedStep, FailTurn, ThrowTurn, EndTurn,
     StepFails, StepReturns, StepLocalsEnd, turnVars, driverFrame, historyVars, Runs, Proposed
<1>15. CASE AfterStep \/ Stopped \/ CloseTurn \/ LeaveTurn \/ Retire
  BY <1>8, <1>15 DEF AfterStep, Stopped, CloseTurn, LeaveTurn, Retire, ThrowTurn, EndTurn, GoRound, FreshPhase,
     turnVars, driverFrame, historyVars, Runs, Proposed
<1>16. QED
  BY <1>1, <1>2, <1>3, <1>5, <1>6, <1>7, <1>9, <1>10, <1>11, <1>12, <1>13, <1>14, <1>15
     DEF Next, Caller, CallerContinues, Driver

\* No message enters the log twice, and none that is still pending, over
\* retries, steps, cancels and replays, for any number of messages.
THEOREM AdmittedAtMostOnce == Spec => []AdmittedOnce
<1>1. TypeOK /\ OnceInv => AdmittedOnce
  <2> SUFFICES ASSUME TypeOK, OnceInv PROVE AdmittedOnce
    OBVIOUS
  <2>1. \A i \in 1..Len(admitted) : admitted[i].message \in Recorded
    BY DEF Recorded
  <2>2. Recorded \cap Pending = {}
    BY DEF OnceInv, Apart, Pending
  <2>3. QED
    BY <2>1, <2>2 DEF OnceInv, AdmittedOnce
<1>2. QED
  BY <1>1, OnceInit, OnceStep, TypeCorrect, PTL DEF Spec

-----------------------------------------------------------------------------
(* Follow-ups keep their order and their turns: those in the log, the one  *)
(* the driver holds and those still waiting stand in the order of the      *)
(* queue, and the driver holds at most one, in a turn without another.     *)

Queued == ToSet(queued)
Before(a, b) == \E k, l \in 1..Len(queued) : k < l /\ queued[k] = a /\ queued[l] = b
Followup(i) == admitted[i].message \in Queued
FirstBoundary == pc = "boundary" /\ target = "next-turn"

WaitingInv ==
    /\ Queued \cap unsent = {} /\ Queued \cap ToSet(nextStep) = {} /\ ToSet(nextTurn) \subseteq Queued
    /\ \A i, j \in 1..Len(nextTurn) : i < j => Before(nextTurn[i], nextTurn[j])

HeldInv ==
    \A a \in Held \cap Queued : /\ \A m \in ToSet(nextTurn) : Before(a, m)
                                /\ \A b \in Held \cap Queued : a = b

RecordedInv ==
    /\ \A i \in 1..Len(admitted) : Followup(i) =>
          /\ admitted[i].turn <= turn
          /\ FirstBoundary \/ Held \cap Queued # {} => admitted[i].turn < turn
          /\ \A m \in ToSet(nextTurn) \union (Held \cap Queued) : Before(admitted[i].message, m)
    /\ \A i, j \in 1..Len(admitted) : Followup(i) /\ Followup(j) /\ i < j =>
          admitted[i].turn < admitted[j].turn /\ Before(admitted[i].message, admitted[j].message)

OrderInv == WaitingInv /\ HeldInv /\ RecordedInv

\* The turn of an entry.
LEMMA EntryTurn ==
    ASSUME NEW s \in Seq([message : Message, turn : Nat]), NEW i \in 1..Len(s)
    PROVE  s[i].turn \in Nat
<1>1. s[i] \in [message : Message, turn : Nat]
  BY ElementOfSeq, Zenon
<1>2. QED
  BY <1>1

\* A step that queues and records nothing, and moves messages nowhere.
LEMMA OrderShrinks ==
    ASSUME TypeOK, OrderInv, UNCHANGED <<queued, admitted, unsent>>,
           ToSet(nextStep') \subseteq ToSet(nextStep), ToSet(nextTurn') \subseteq ToSet(nextTurn),
           \A i, j \in 1..Len(nextTurn') : i < j => Before(nextTurn'[i], nextTurn'[j]),
           Held' \subseteq Held, turn' = turn \/ turn' = turn + 1,
           FirstBoundary' => FirstBoundary \/ turn' = turn + 1
    PROVE  OrderInv'
<1>1. Queued' = Queued /\ \A a, b : Before(a, b)' <=> Before(a, b)
  BY DEF Queued, Before
<1>2. \A i : Followup(i)' <=> Followup(i)
  BY <1>1 DEF Followup
<1>3. WaitingInv'
  BY <1>1 DEF OrderInv, WaitingInv
<1>4. HeldInv'
  BY <1>1 DEF OrderInv, HeldInv
<1>5. RecordedInv'
  <2>1. ASSUME NEW i \in 1..Len(admitted), Followup(i)
        PROVE  /\ admitted[i].turn <= turn'
               /\ FirstBoundary' \/ (Held \cap Queued)' # {} => admitted[i].turn < turn'
               /\ \A m \in (ToSet(nextTurn) \union (Held \cap Queued))' : Before(admitted[i].message, m)
    <3>1. turn \in Nat /\ admitted[i].turn \in Nat
      <4>1. turn \in Nat /\ admitted \in Seq([message : Message, turn : Nat])
        BY DEF TypeOK, PhaseType, HistoryType
      <4>2. QED
        BY <4>1, EntryTurn
    <3>2. /\ admitted[i].turn <= turn
          /\ FirstBoundary \/ Held \cap Queued # {} => admitted[i].turn < turn
      BY <2>1 DEF OrderInv, RecordedInv
    <3>3. (Held \cap Queued)' # {} => Held \cap Queued # {}
      BY <1>1
    <3>4. \A m \in (ToSet(nextTurn) \union (Held \cap Queued))' : Before(admitted[i].message, m)
      BY <1>1, <2>1 DEF OrderInv, RecordedInv
    <3>5. QED
      BY <3>1, <3>2, <3>3, <3>4
  <2>2. QED
    BY <1>1, <1>2, <2>1 DEF OrderInv, RecordedInv
<1>6. QED
  BY <1>3, <1>4, <1>5 DEF OrderInv

\* A step that leaves the inbox alone.
LEMMA OrderFrame ==
    ASSUME TypeOK, OrderInv, UNCHANGED <<inboxVars, queued, admitted, unsent>>,
           batch' = batch \/ batch' = <<>>, Proposed' => Proposed, turn' = turn \/ turn' = turn + 1,
           FirstBoundary' => FirstBoundary \/ turn' = turn + 1
    PROVE  OrderInv'
<1>1. ToSet(<<>>) = {}
  BY MessagesOf DEF TypeOK, TurnType
<1>2. Held' \subseteq Held
  BY <1>1 DEF Held
<1>3. UNCHANGED <<nextTurn, nextStep>>
  BY DEF inboxVars
<1>4. QED
  BY <1>2, <1>3, OrderShrinks DEF OrderInv, WaitingInv

\* What a list of messages becomes when one is appended to it.
LEMMA AppendOrder ==
    ASSUME NEW m \in Message, queued \in Seq(Message), queued' = Append(queued, m)
    PROVE  /\ Queued' = Queued \union {m}
           /\ \A a, b : Before(a, b) => Before(a, b)'
           /\ \A a \in Queued : Before(a, m)'
<1>1. /\ Len(queued') = Len(queued) + 1 /\ Len(queued) \in Nat
      /\ \A i \in 1..Len(queued) : queued'[i] = queued[i]
      /\ queued'[Len(queued) + 1] = m
  BY AppendProperties
<1>2. Queued = {queued[i] : i \in 1..Len(queued)} /\ Queued' = Queued \union {m}
  BY MessagesOf, AppendUnique DEF Queued
<1>3. ASSUME NEW a, NEW b, Before(a, b) PROVE Before(a, b)'
  <2>1. PICK k \in 1..Len(queued), l \in 1..Len(queued) : k < l /\ queued[k] = a /\ queued[l] = b
    BY <1>3 DEF Before
  <2>2. k \in 1..Len(queued') /\ l \in 1..Len(queued') /\ queued'[k] = a /\ queued'[l] = b
    BY <1>1, <2>1
  <2>3. QED
    BY <2>1, <2>2 DEF Before
<1>4. ASSUME NEW a \in Queued PROVE Before(a, m)'
  <2>1. PICK k \in 1..Len(queued) : queued[k] = a
    BY <1>2
  <2>2. /\ k \in 1..Len(queued') /\ Len(queued') \in 1..Len(queued') /\ k < Len(queued')
        /\ queued'[k] = a /\ queued'[Len(queued')] = m
    BY <1>1, <2>1
  <2>3. QED
    BY <2>2 DEF Before
<1>5. QED
  BY <1>2, <1>3, <1>4

\* A message that is sent is the last of the follow-ups, or none.
LEMMA OrderEnqueue ==
    ASSUME TypeOK, OnceInv, OrderInv, NEW m \in Message, NEW to, Enqueue(m, to),
           UNCHANGED <<pc, target, attempts, batch, admitted, turn>>
    PROVE  OrderInv'
<1>1. nextTurn \in Seq(Message) /\ nextStep \in Seq(Message) /\ queued \in Seq(Message)
  BY DEF TypeOK, InboxType, HistoryType
<1>2. Held' = Held /\ FirstBoundary' = FirstBoundary /\ unsent' = unsent \ {m} /\ m \in unsent
  BY DEF Held, Proposed, FirstBoundary, Enqueue
<1>3. m \notin ToSet(nextTurn) \union ToSet(nextStep) \union Held \union Recorded \union Queued
  BY <1>2 DEF OnceInv, Apart, OrderInv, WaitingInv
<1>4. CASE nextStep' = Append(nextStep, m) /\ UNCHANGED <<nextTurn, queued>>
  <2>1. ToSet(nextStep') = ToSet(nextStep) \union {m}
    BY <1>1, <1>4, AppendUnique
  <2>2. Queued' = Queued /\ (\A a, b : Before(a, b)' <=> Before(a, b)) /\ (\A i : Followup(i)' <=> Followup(i))
    BY <1>4 DEF Queued, Before, Followup
  <2>3. WaitingInv'
    BY <1>2, <1>3, <1>4, <2>1, <2>2 DEF OrderInv, WaitingInv
  <2>4. HeldInv'
    BY <1>2, <1>4, <2>2 DEF OrderInv, HeldInv
  <2>5. RecordedInv'
    BY <1>2, <1>4, <2>2 DEF OrderInv, RecordedInv
  <2>6. QED
    BY <2>3, <2>4, <2>5 DEF OrderInv
<1>5. CASE nextTurn' = Append(nextTurn, m) /\ queued' = Append(queued, m) /\ nextStep' = nextStep
  <2>1. ToSet(nextTurn') = ToSet(nextTurn) \union {m}
    BY <1>1, <1>5, AppendUnique
  <2>2. /\ Queued' = Queued \union {m}
        /\ \A a, b : Before(a, b) => Before(a, b)'
        /\ \A a \in Queued : Before(a, m)'
    BY <1>1, <1>5, AppendOrder
  <2>3. \A i \in 1..Len(admitted) : Followup(i)' <=> Followup(i)
    BY <1>3, <2>2 DEF Followup, Recorded
  <2>4. (Held \cap Queued)' = Held \cap Queued
    BY <1>2, <1>3, <2>2
  <2>5. WaitingInv'
    <3>1. ASSUME NEW i \in 1..Len(nextTurn'), NEW j \in 1..Len(nextTurn'), i < j
          PROVE  Before(nextTurn[i], nextTurn[j])'
      <4>1. /\ Len(nextTurn') = Len(nextTurn) + 1 /\ Len(nextTurn) \in Nat
            /\ \A n \in 1..Len(nextTurn) : nextTurn'[n] = nextTurn[n]
            /\ nextTurn'[Len(nextTurn) + 1] = m
        BY <1>1, <1>5, AppendProperties
      <4>2. i \in 1..Len(nextTurn) /\ nextTurn'[i] = nextTurn[i]
        BY <3>1, <4>1
      <4>3. CASE j \in 1..Len(nextTurn)
        BY <2>2, <3>1, <4>1, <4>2, <4>3 DEF OrderInv, WaitingInv
      <4>4. CASE j = Len(nextTurn) + 1
        <5>1. nextTurn[i] \in ToSet(nextTurn)
          BY <1>1, <4>2, MessagesOf
        <5>2. nextTurn[i] \in Queued
          BY <5>1 DEF OrderInv, WaitingInv
        <5>3. QED
          BY <2>2, <4>1, <4>2, <4>4, <5>2
      <4>5. QED
        BY <4>1, <4>3, <4>4
    <3>2. QED
      BY <1>2, <1>3, <1>5, <2>1, <2>2, <3>1 DEF OrderInv, WaitingInv
  <2>6. HeldInv'
    BY <2>1, <2>2, <2>4 DEF OrderInv, HeldInv
  <2>7. RecordedInv'
    <3>1. ASSUME NEW i \in 1..Len(admitted), Followup(i)
          PROVE  /\ admitted[i].turn <= turn
                 /\ FirstBoundary \/ Held \cap Queued # {} => admitted[i].turn < turn
                 /\ \A n \in ToSet(nextTurn') \union (Held \cap Queued) : Before(admitted[i].message, n)'
      <4>1. admitted[i].message \in Queued
        BY <3>1 DEF Followup
      <4>2. QED
        BY <2>1, <2>2, <3>1, <4>1 DEF OrderInv, RecordedInv
    <3>2. ASSUME NEW i \in 1..Len(admitted), NEW j \in 1..Len(admitted), Followup(i), Followup(j), i < j
          PROVE  admitted[i].turn < admitted[j].turn /\ Before(admitted[i].message, admitted[j].message)'
      BY <2>2, <3>2 DEF OrderInv, RecordedInv
    <3>3. QED
      BY <1>2, <2>3, <2>4, <3>1, <3>2 DEF RecordedInv
  <2>8. QED
    BY <2>5, <2>6, <2>7 DEF OrderInv
<1>6. QED
  BY <1>4, <1>5 DEF Enqueue

\* What is left of the queue keeps its order when a message is taken out.
LEMMA RemoveOrder ==
    ASSUME OrderInv, nextTurn \in Seq(Message), NEW i \in 1..Len(nextTurn), nextTurn' = RemoveAt(nextTurn, i)
    PROVE  \A j, k \in 1..Len(nextTurn') : j < k => Before(nextTurn'[j], nextTurn'[k])
<1> DEFINE a == SubSeq(nextTurn, 1, i - 1)
           b == SubSeq(nextTurn, i + 1, Len(nextTurn))
           at(j) == IF j < i THEN j ELSE j + 1
<1>1. /\ a \in Seq(Message) /\ Len(a) = i - 1 /\ \A j \in 1..i - 1 : a[j] = nextTurn[j]
      /\ b \in Seq(Message) /\ Len(b) = Len(nextTurn) - i
      /\ \A j \in 1..Len(nextTurn) - i : b[j] = nextTurn[i + j]
  OBVIOUS
<1>2. nextTurn' = a \o b
  BY DEF RemoveAt
<1> HIDE DEF a, b
<1>3. /\ Len(nextTurn') = Len(a) + Len(b)
      /\ \A j \in 1..Len(a) + Len(b) : nextTurn'[j] = IF j <= Len(a) THEN a[j] ELSE b[j - Len(a)]
  <2>1. a \in Seq(Message) /\ b \in Seq(Message)
    BY <1>1
  <2>2. /\ Len(a \o b) = Len(a) + Len(b)
        /\ \A j \in 1..Len(a) + Len(b) : (a \o b)[j] = IF j <= Len(a) THEN a[j] ELSE b[j - Len(a)]
    BY <2>1, ConcatProperties, Zenon
  <2>3. QED
    BY <1>2, <2>2
<1>4. Len(nextTurn) \in Nat /\ Len(nextTurn') = Len(nextTurn) - 1
  BY <1>1, <1>3
<1>5. ASSUME NEW j \in 1..Len(nextTurn')
      PROVE  at(j) \in 1..Len(nextTurn) /\ nextTurn'[j] = nextTurn[at(j)]
  <2>1. CASE j < i
    BY <1>1, <1>3, <1>4, <2>1
  <2>2. CASE j >= i
    <3>1. j - Len(a) \in 1..Len(nextTurn) - i /\ nextTurn'[j] = b[j - Len(a)]
      BY <1>1, <1>3, <1>4, <2>2
    <3>2. b[j - Len(a)] = nextTurn[i + (j - Len(a))] /\ i + (j - Len(a)) = j + 1
      BY <1>1, <3>1
    <3>3. QED
      BY <1>4, <2>2, <3>1, <3>2
  <2>3. QED
    BY <1>4, <2>1, <2>2
<1>6. ASSUME NEW j \in 1..Len(nextTurn'), NEW k \in 1..Len(nextTurn'), j < k
      PROVE  at(j) < at(k)
  BY <1>4, <1>6
<1> HIDE DEF at
<1>7. QED
  BY <1>5, <1>6 DEF OrderInv, WaitingInv

\* The batch holds the oldest follow-up, if the turn's first boundary took one.
LEMMA OrderClaim == TypeOK /\ OnceInv /\ OrderInv /\ Claim => OrderInv'
<1> SUFFICES ASSUME TypeOK, OnceInv, OrderInv, Claim PROVE OrderInv'
  OBVIOUS
<1>1. nextTurn \in Seq(Message) /\ nextStep \in Seq(Message) /\ turn \in Nat /\ Len(nextTurn) \in Nat
  BY DEF TypeOK, InboxType, PhaseType
<1>2. UNCHANGED <<unsent, admitted, attempts, queued, turn, target>> /\ pc = "boundary"
  BY DEF Claim, Runs, historyVars, phaseVars
<1>3. CASE aborted
  <2>1. batch' = batch /\ UNCHANGED inboxVars /\ pc' = "closeTurn"
    BY <1>3 DEF Claim, ThrowTurn, EndTurn
  <2>2. QED
    BY <1>2, <2>1, OrderFrame DEF Proposed, FirstBoundary
<1>4. CASE ~aborted
  <2> DEFINE k == FollowupsTaken
             taken == SubSeq(nextTurn, 1, k)
             left == SubSeq(nextTurn, k + 1, Len(nextTurn))
  <2>1. batch' = nextStep \o taken /\ nextStep' = <<>> /\ nextTurn' = left /\ pc' = "proposing"
    BY <1>4 DEF Claim
  <2>2. k \in {0, 1} /\ k <= Len(nextTurn) /\ (k = 1 => FirstBoundary)
    BY <1>1, <1>2 DEF FollowupsTaken, FirstBoundary
  <2>3. ToSet(<<>>) = {} /\ ToSet(nextTurn) = {nextTurn[i] : i \in 1..Len(nextTurn)}
    BY <1>1, MessagesOf
  <2>4. taken \in Seq(Message) /\ ToSet(taken) = {nextTurn[i] : i \in 1..k}
    BY <1>1, <2>2, PartUnique
  <2>5. ToSet(left) = {nextTurn[i] : i \in k + 1..Len(nextTurn)}
    BY <1>1, <2>2, PartUnique
  <2>6. Len(left) = Len(nextTurn) - k /\ \A i \in 1..Len(nextTurn) - k : left[i] = nextTurn[i + k]
    BY <1>1, <2>2
  <2> HIDE DEF taken, left, k
  <2>7. ToSet(batch') = ToSet(nextStep) \union ToSet(taken)
    BY <1>1, <2>1, <2>4, JoinUnique
  <2>8. Queued' = Queued /\ (\A a, b : Before(a, b)' <=> Before(a, b)) /\ (\A i : Followup(i)' <=> Followup(i))
    BY <1>2 DEF Queued, Before, Followup
  <2>9. ~FirstBoundary'
    BY <2>1 DEF FirstBoundary
  <2>10. (Held \cap Queued)' \subseteq ToSet(taken)
    BY <2>7, <2>8 DEF Held, OrderInv, WaitingInv
  <2>11. ToSet(taken) \subseteq ToSet(nextTurn) /\ ToSet(left) \subseteq ToSet(nextTurn)
    BY <1>1, <2>2, <2>3, <2>4, <2>5
  <2>12. \A a \in ToSet(taken) : k = 1 /\ a = nextTurn[1]
    BY <2>2, <2>4
  <2>13. \A i, j \in 1..Len(nextTurn) : i < j => Before(nextTurn[i], nextTurn[j])
    BY DEF OrderInv, WaitingInv
  <2>14. WaitingInv'
    <3>1. ASSUME NEW i \in 1..Len(left), NEW j \in 1..Len(left), i < j PROVE Before(left[i], left[j])
      <4>1. /\ i + k \in 1..Len(nextTurn) /\ j + k \in 1..Len(nextTurn) /\ i + k < j + k
            /\ left[i] = nextTurn[i + k] /\ left[j] = nextTurn[j + k]
        BY <1>1, <2>2, <2>6, <3>1
      <4>2. QED
        BY <2>13, <4>1
    <3>2. QED
      BY <1>2, <2>1, <2>3, <2>8, <2>11, <3>1 DEF OrderInv, WaitingInv
  <2>15. HeldInv'
    <3>1. ASSUME NEW a \in ToSet(taken), NEW m \in ToSet(left) PROVE Before(a, m)
      <4>1. PICK i \in k + 1..Len(nextTurn) : m = nextTurn[i]
        BY <2>5
      <4>2. 1 \in 1..Len(nextTurn) /\ i \in 1..Len(nextTurn) /\ 1 < i /\ a = nextTurn[1]
        BY <1>1, <2>2, <2>12, <4>1
      <4>3. QED
        BY <2>13, <4>1, <4>2
    <3>2. QED
      BY <2>1, <2>8, <2>10, <2>12, <3>1 DEF HeldInv
  <2>16. RecordedInv'
    <3>1. ASSUME NEW i \in 1..Len(admitted), Followup(i)
          PROVE  /\ admitted[i].turn <= turn
                 /\ (Held \cap Queued)' # {} => admitted[i].turn < turn
                 /\ \A m \in ToSet(left) \union (Held \cap Queued)' : Before(admitted[i].message, m)
      BY <2>2, <2>10, <2>11, <2>12, <3>1 DEF OrderInv, RecordedInv
    <3>2. ASSUME NEW i \in 1..Len(admitted), NEW j \in 1..Len(admitted), Followup(i), Followup(j), i < j
          PROVE  admitted[i].turn < admitted[j].turn /\ Before(admitted[i].message, admitted[j].message)
      BY <3>2 DEF OrderInv, RecordedInv
    <3>3. QED
      BY <1>2, <2>1, <2>8, <2>9, <3>1, <3>2 DEF RecordedInv
  <2>17. QED
    BY <2>14, <2>15, <2>16 DEF OrderInv
<1>5. QED
  BY <1>3, <1>4

\* The log takes the batch's follow-up after the earlier ones, in a later turn.
LEMMA OrderAdmit == TypeOK /\ OnceInv /\ OrderInv /\ Admit => OrderInv'
<1> SUFFICES ASSUME TypeOK, OnceInv, OrderInv, Admit PROVE OrderInv'
  OBVIOUS
<1> DEFINE Entry == [message : Message, turn : Nat]
           fresh == [i \in 1..Len(Joining) |-> [message |-> Joining[i], turn |-> turn]]
<1>1. batch \in Seq(Message) /\ admitted \in Seq(Entry) /\ turn \in Nat /\ Joining \in Seq(Message)
      /\ Joining \in {batch, <<>>}
  BY DEF TypeOK, TurnType, HistoryType, PhaseType, Joining
<1>2. /\ admitted' = admitted \o fresh /\ UNCHANGED <<nextTurn, nextStep, unsent, queued, turn>>
      /\ ~Proposed' /\ ~FirstBoundary'
  BY DEF Admit, inboxVars, phaseVars, Proposed, StepFails, FirstBoundary
<1>3. /\ fresh \in Seq(Entry) /\ Len(fresh) = Len(Joining)
      /\ \A i \in 1..Len(Joining) : fresh[i] = [message |-> Joining[i], turn |-> turn]
  BY <1>1
<1> HIDE DEF fresh, Entry
<1>4. Len(admitted) \in Nat /\ Len(Joining) \in Nat
  BY <1>1
<1>5. /\ Len(admitted') = Len(admitted) + Len(Joining)
      /\ \A i \in 1..Len(admitted) + Len(Joining) :
            admitted'[i] = IF i <= Len(admitted) THEN admitted[i] ELSE fresh[i - Len(admitted)]
  <2>1. admitted \in Seq(Entry) /\ fresh \in Seq(Entry)
    BY <1>1, <1>3, Zenon
  <2>2. /\ Len(admitted \o fresh) = Len(admitted) + Len(fresh)
        /\ \A i \in 1..Len(admitted) + Len(fresh) :
              (admitted \o fresh)[i] = IF i <= Len(admitted) THEN admitted[i] ELSE fresh[i - Len(admitted)]
    BY <2>1, ConcatProperties, Zenon
  <2>3. QED
    BY <1>2, <1>3, <2>2
<1>6. ASSUME NEW i \in 1..Len(admitted') PROVE
         \/ i \in 1..Len(admitted) /\ admitted'[i] = admitted[i]
         \/ i > Len(admitted) /\ i - Len(admitted) \in 1..Len(Joining)
              /\ admitted'[i].message = Joining[i - Len(admitted)] /\ admitted'[i].turn = turn
  <2>1. CASE i <= Len(admitted)
    BY <1>4, <1>5, <2>1
  <2>2. CASE i > Len(admitted)
    <3>1. i - Len(admitted) \in 1..Len(Joining) /\ admitted'[i] = fresh[i - Len(admitted)]
      BY <1>4, <1>5, <2>2
    <3>2. fresh[i - Len(admitted)] = [message |-> Joining[i - Len(admitted)], turn |-> turn]
      BY <1>3, <3>1
    <3>3. admitted'[i].message = Joining[i - Len(admitted)] /\ admitted'[i].turn = turn
      BY <3>1, <3>2
    <3>4. QED
      BY <2>2, <3>1, <3>3
  <2>3. QED
    BY <1>4, <1>5, <2>1, <2>2
<1>6a. ASSUME NEW i \in 1..Len(admitted'), i > Len(admitted)
       PROVE  i - Len(admitted) \in 1..Len(Joining) /\ admitted'[i].message = Joining[i - Len(admitted)]
  <2>1. ~(i \in 1..Len(admitted))
    BY <1>4, <1>6a
  <2>2. QED
    BY <1>6, <2>1
<1>7. Unique(Joining) /\ \A i \in 1..Len(Joining) : Joining[i] \in Held
  <2>1. Unique(<<>>) /\ Len(<<>>) = 0 /\ ToSet(batch) = {batch[i] : i \in 1..Len(batch)}
    <3>1. Len(<<>>) = 0
      OBVIOUS
    <3>2. QED
      BY <1>1, <3>1, MessagesOf
  <2>2. CASE attempts = 0
    BY <2>1, <2>2 DEF Joining, Held, Proposed, OnceInv, Admit, Runs
  <2>3. CASE attempts # 0
    BY <2>1, <2>3 DEF Joining
  <2>4. QED
    BY <2>2, <2>3
<1>8. Queued' = Queued /\ (\A a, b : Before(a, b)' <=> Before(a, b))
  BY <1>2 DEF Queued, Before
<1>9. Held' = {}
  BY <1>2 DEF Held
<1>10. WaitingInv' /\ HeldInv'
  BY <1>2, <1>8, <1>9 DEF OrderInv, WaitingInv, HeldInv
<1>11. ASSUME NEW i \in 1..Len(admitted'), Followup(i)'
       PROVE  admitted'[i].turn <= turn /\ \A m \in ToSet(nextTurn) : Before(admitted'[i].message, m)
  <2>1. CASE i \in 1..Len(admitted) /\ admitted'[i] = admitted[i]
    BY <1>8, <1>11, <2>1 DEF Followup, OrderInv, RecordedInv
  <2>2. CASE i - Len(admitted) \in 1..Len(Joining) /\ admitted'[i].message = Joining[i - Len(admitted)]
               /\ admitted'[i].turn = turn
    <3>1. admitted'[i].message \in Held \cap Queued
      BY <1>7, <1>8, <1>11, <2>2 DEF Followup
    <3>2. QED
      BY <1>1, <2>2, <3>1 DEF OrderInv, HeldInv
  <2>3. QED
    BY <1>6, <2>1, <2>2
<1>12. ASSUME NEW i \in 1..Len(admitted'), NEW j \in 1..Len(admitted'), Followup(i)', Followup(j)', i < j
       PROVE  admitted'[i].turn < admitted'[j].turn /\ Before(admitted'[i].message, admitted'[j].message)
  <2>1. CASE i \in 1..Len(admitted) /\ j \in 1..Len(admitted)
    BY <1>4, <1>6, <1>8, <1>12, <2>1 DEF Followup, OrderInv, RecordedInv
  <2>2. CASE i \in 1..Len(admitted) /\ j > Len(admitted)
    <3>1. admitted'[i] = admitted[i] /\ Followup(i)
      BY <1>4, <1>6, <1>8, <1>12, <2>2 DEF Followup
    <3>2. admitted'[j].message \in Held \cap Queued /\ admitted'[j].turn = turn
      BY <1>4, <1>6, <1>7, <1>8, <1>12, <2>2 DEF Followup
    <3>3. QED
      BY <2>2, <3>1, <3>2 DEF OrderInv, RecordedInv
  <2>3. CASE i > Len(admitted) /\ j > Len(admitted)
    <3>1. /\ i - Len(admitted) \in 1..Len(Joining) /\ admitted'[i].message = Joining[i - Len(admitted)]
          /\ j - Len(admitted) \in 1..Len(Joining) /\ admitted'[j].message = Joining[j - Len(admitted)]
      BY <1>6a, <2>3
    <3>2. admitted'[i].message \in Held \cap Queued /\ admitted'[j].message \in Held \cap Queued
      BY <1>7, <1>8, <1>12, <3>1 DEF Followup
    <3>3. admitted'[i].message = admitted'[j].message
      BY <3>2 DEF OrderInv, HeldInv
    <3>4. i - Len(admitted) = j - Len(admitted)
      BY <1>7, <3>1, <3>3 DEF Unique
    <3>5. QED
      BY <1>4, <1>12, <3>4
  <2>4. QED
    BY <1>4, <1>5, <1>12, <2>1, <2>2, <2>3
<1>13. RecordedInv'
  BY <1>2, <1>8, <1>9, <1>11, <1>12 DEF RecordedInv
<1>14. QED
  BY <1>10, <1>13 DEF OrderInv

\* No message is queued at first.
LEMMA OrderInit == Init => OrderInv
<1> SUFFICES ASSUME Init PROVE OrderInv
  OBVIOUS
<1>1. nextTurn = <<>> /\ nextStep = <<>> /\ batch = <<>> /\ admitted = <<>> /\ queued = <<>> /\ pc = "idle"
  BY DEF Init
<1>2. Len(<<>>) = 0 /\ ToSet(<<>>) = {}
  <2>1. <<>> \in Seq(Message) /\ Len(<<>>) = 0
    OBVIOUS
  <2>2. QED
    BY <2>1, MessagesOf, Zenon
<1>3. Queued = {} /\ Held = {}
  BY <1>1, <1>2 DEF Queued, Held, Proposed
<1>4. QED
  BY <1>1, <1>2, <1>3 DEF OrderInv, WaitingInv, HeldInv, RecordedInv

\* No step moves a follow-up past another, or into a turn that has one.
LEMMA OrderStep == TypeOK /\ OnceInv /\ OrderInv /\ [Next]_vars => OrderInv'
<1> SUFFICES ASSUME TypeOK, OnceInv, OrderInv, [Next]_vars PROVE OrderInv'
  OBVIOUS
<1>0. /\ nextTurn \in Seq(Message) /\ nextStep \in Seq(Message) /\ attempts \in Nat
      /\ ToSet(<<>>) = {} /\ Len(<<>>) = 0 /\ unsent \subseteq Message
  <2>1. <<>> \in Seq(Message) /\ Len(<<>>) = 0
    OBVIOUS
  <2>2. QED
    BY <2>1, MessagesOf DEF TypeOK, InboxType, TurnType, HistoryType
<1>1. ASSUME NEW m \in Message, NEW to \in {"next-turn", "next-step"}, NEW wakeup \in BOOLEAN,
             Send(m, to, wakeup)
      PROVE  OrderInv'
  <2>1. UNCHANGED <<pc, target, attempts, batch, admitted, turn>>
    BY <1>1 DEF Send, turnVars, phaseVars
  <2>2. \E t : Enqueue(m, t)
    BY <1>1 DEF Send
  <2>3. QED
    BY <2>1, <2>2, OrderEnqueue
<1>2. CASE ToolContext
  <2>1. UNCHANGED <<pc, target, attempts, batch, admitted, turn>>
    BY <1>2 DEF ToolContext, turnVars, phaseVars
  <2>2. PICK m \in unsent : Enqueue(m, "next-step")
    BY <1>2 DEF ToolContext
  <2>3. m \in Message
    BY <1>0
  <2>4. QED
    BY <2>1, <2>2, <2>3, OrderEnqueue
<1>3. ASSUME UNCHANGED <<inboxVars, queued, admitted, unsent>>, batch' = batch \/ batch' = <<>>,
             Proposed' => Proposed, turn' = turn \/ turn' = turn + 1,
             FirstBoundary' => FirstBoundary \/ turn' = turn + 1
      PROVE  OrderInv'
  BY <1>3, OrderFrame
<1>4. ASSUME NEW c \in Causes, CancelKeeping(c) \/ CancelEmpty(c)
      PROVE  OrderInv'
  <2>1. UNCHANGED <<pc, target, attempts, batch, inboxVars, queued, unsent, admitted, turn>>
    BY <1>4 DEF CancelKeeping, CancelEmpty, turnVars
  <2>2. QED
    BY <1>3, <2>1 DEF Proposed, FirstBoundary
<1>5. ASSUME UNCHANGED <<pc, target, attempts, batch, unsent, queued, admitted, turn>>,
             nextTurn' = nextTurn \/ nextTurn' = <<>>, nextStep' = nextStep \/ nextStep' = <<>>
      PROVE  OrderInv'
  <2>1. ToSet(nextTurn') \subseteq ToSet(nextTurn) /\ ToSet(nextStep') \subseteq ToSet(nextStep)
    BY <1>0, <1>5
  <2>2. \A i, j \in 1..Len(nextTurn') : i < j => Before(nextTurn'[i], nextTurn'[j])
    BY <1>0, <1>5 DEF OrderInv, WaitingInv
  <2>3. Held' = Held /\ FirstBoundary' = FirstBoundary
    BY <1>5 DEF Held, Proposed, FirstBoundary
  <2>4. QED
    BY <1>5, <2>1, <2>2, <2>3, OrderShrinks
<1>6. ASSUME NEW c \in Causes, CancelClearing(c)
      PROVE  OrderInv'
  <2>1. UNCHANGED <<pc, target, attempts, batch, unsent, queued, admitted, turn>>
    BY <1>6 DEF CancelClearing, turnVars, phaseVars
  <2>2. (nextTurn' = nextTurn \/ nextTurn' = <<>>) /\ (nextStep' = nextStep \/ nextStep' = <<>>)
    BY <1>6, Zenon DEF CancelClearing
  <2>3. QED
    BY <1>5, <2>1, <2>2
<1>7. CASE CancelClearsTurns
  BY <1>5, <1>7 DEF CancelClearsTurns, turnVars, phaseVars, historyVars
<1>8. CASE RemoveQueued
  <2>1. UNCHANGED <<pc, target, attempts, batch, unsent, queued, admitted, turn>>
    BY <1>8 DEF RemoveQueued, turnVars, phaseVars, historyVars
  <2>2. Held' = Held /\ FirstBoundary' = FirstBoundary
    BY <2>1 DEF Held, Proposed, FirstBoundary
  <2>3. ASSUME NEW i \in 1..Len(nextTurn), nextTurn' = RemoveAt(nextTurn, i), nextStep' = nextStep
        PROVE  OrderInv'
    <3>1. ToSet(nextTurn') \subseteq ToSet(nextTurn)
      BY <1>0, <2>3, RemoveUnique DEF OnceInv
    <3>2. \A j, k \in 1..Len(nextTurn') : j < k => Before(nextTurn'[j], nextTurn'[k])
      BY <1>0, <2>3, RemoveOrder
    <3>3. QED
      BY <2>1, <2>2, <2>3, <3>1, <3>2, OrderShrinks
  <2>4. ASSUME NEW i \in 1..Len(nextStep), nextStep' = RemoveAt(nextStep, i), nextTurn' = nextTurn
        PROVE  OrderInv'
    <3>1. ToSet(nextStep') \subseteq ToSet(nextStep)
      BY <1>0, <2>4, RemoveUnique DEF OnceInv
    <3>2. \A j, k \in 1..Len(nextTurn') : j < k => Before(nextTurn'[j], nextTurn'[k])
      BY <2>4 DEF OrderInv, WaitingInv
    <3>3. QED
      BY <2>1, <2>2, <2>4, <3>1, <3>2, OrderShrinks
  <2>5. QED
    BY <1>8, <2>3, <2>4 DEF RemoveQueued
<1>9. CASE SendWakes \/ Replay \/ MaintenanceEnds
  <2>1. UNCHANGED <<inboxVars, queued, unsent, admitted, batch, attempts, target>>
    BY <1>9 DEF SendWakes, Replay, MaintenanceEnds, turnVars, historyVars
  <2>2. (pc' = pc \/ pc' = "begin") /\ turn' = turn
    BY <1>9 DEF SendWakes, Replay, MaintenanceEnds, WakeDriver, phaseVars
  <2>3. QED
    BY <1>3, <2>1, <2>2 DEF Proposed, FirstBoundary
<1>10. CASE CancelAborts \/ RunMaintenance \/ WhenIdle \/ WhenIdleResumes \/ DriverSettles \/ UNCHANGED vars
  <2>1. UNCHANGED <<pc, target, attempts, batch, inboxVars, queued, unsent, admitted, turn>>
    BY <1>10 DEF CancelAborts, RunMaintenance, WhenIdle, WhenIdleResumes, DriverSettles, vars, turnVars,
       phaseVars, historyVars
  <2>2. QED
    BY <1>3, <2>1 DEF Proposed, FirstBoundary
<1>11. CASE Claim \/ Admit
  BY <1>11, OrderClaim, OrderAdmit
<1>12. CASE Propose
  <2>1. UNCHANGED <<nextTurn, nextStep, queued, unsent, admitted, attempts, turn>> /\ pc = "proposing" /\ ~FirstBoundary'
    BY <1>12 DEF Propose, Runs, driverFrame, inboxVars, historyVars, phaseVars, FirstBoundary
  <2>2. ToSet(batch') \subseteq ToSet(batch)
    <3>1. batch \in Seq(Message)
      BY DEF TypeOK, TurnType
    <3>2. CASE batch' = batch \/ batch' = <<>>
      BY <1>0, <3>2
    <3>3. CASE batch # <<>> /\ batch' = Tail(batch)
      <4>1. /\ Tail(batch) \in Seq(Message) /\ Len(Tail(batch)) = Len(batch) - 1 /\ Len(batch) \in Nat
            /\ \A i \in 1..Len(Tail(batch)) : Tail(batch)[i] = batch[i + 1]
        BY <3>1, <3>3, HeadTailProperties
      <4>2. /\ ToSet(Tail(batch)) = {Tail(batch)[i] : i \in 1..Len(Tail(batch))}
            /\ ToSet(batch) = {batch[i] : i \in 1..Len(batch)}
        BY <3>1, <4>1, MessagesOf
      <4>3. \A i \in 1..Len(Tail(batch)) : i + 1 \in 1..Len(batch)
        BY <4>1
      <4>4. QED
        BY <3>3, <4>1, <4>2, <4>3
    <3>4. QED
      BY <1>12, <3>2, <3>3 DEF Propose
  <2>3. Held' \subseteq Held
    BY <2>1, <2>2 DEF Held, Proposed
  <2>4. \A j, k \in 1..Len(nextTurn') : j < k => Before(nextTurn'[j], nextTurn'[k])
    BY <2>1 DEF OrderInv, WaitingInv
  <2>5. QED
    BY <2>1, <2>3, <2>4, OrderShrinks
<1>13. CASE OpenTurn
  BY <1>3, <1>13 DEF OpenTurn, turnVars, driverFrame, historyVars, Runs, Proposed, FirstBoundary
<1>14. CASE ProposalFails \/ DeclineStep \/ EnterStep
  BY <1>3, <1>14 DEF ProposalFails, DeclineStep, EnterStep, ThrowTurn, EndTurn, StepLocalsEnd,
     turnVars, phaseVars, driverFrame, historyVars, Runs, Proposed, FirstBoundary
<1>15. CASE PrepareFails \/ Prepare \/ Chunk \/ StreamFails \/ StreamErrors \/ StreamFinishes
  BY <1>3, <1>15 DEF PrepareFails, Prepare, Chunk, StreamFails, StreamErrors, StreamFinishes, StepFails,
     StepReturns, turnVars, phaseVars, driverFrame, historyVars, Runs, Proposed, FirstBoundary
<1>16. CASE Retry \/ GiveUp \/ ToolsReturn \/ CloseStep \/ CloseFailedStep \/ FailTurn
  BY <1>0, <1>3, <1>16 DEF Retry, GiveUp, ToolsReturn, CloseStep, CloseFailedStep, FailTurn, ThrowTurn, EndTurn,
     StepFails, StepReturns, StepLocalsEnd, turnVars, phaseVars, driverFrame, historyVars, Runs, Proposed, FirstBoundary
<1>17. CASE AfterStep \/ Stopped \/ CloseTurn \/ LeaveTurn \/ Retire
  BY <1>3, <1>17 DEF AfterStep, Stopped, CloseTurn, LeaveTurn, Retire, ThrowTurn, EndTurn, GoRound, FreshPhase,
     turnVars, phaseVars, driverFrame, historyVars, Runs, Proposed, FirstBoundary
<1>18. QED
  BY <1>1, <1>2, <1>4, <1>6, <1>7, <1>8, <1>9, <1>10, <1>11, <1>12, <1>13, <1>14, <1>15, <1>16, <1>17
     DEF Next, Caller, CallerContinues, Driver

\* Follow-ups enter the log in the order in which they were queued, each as the
\* only one of its turn, for any number of messages, turns and cancels.
THEOREM FollowupsAlwaysInOrder == Spec => []FollowupsKeepTheirTurns
<1>1. OrderInv => FollowupsKeepTheirTurns
  BY DEF OrderInv, RecordedInv, Followup, Queued, Before, FollowupsKeepTheirTurns
<1>2. QED
  BY <1>1, OnceInit, OnceStep, OrderInit, OrderStep, TypeCorrect, PTL DEF Spec

-----------------------------------------------------------------------------
(* What a completed turn owes.                                             *)

\* A driver enters its turn without an outcome, and between a step and the
\* turn's end an outcome `completed` is the last step's.
OweInv ==
    /\ pc \in {"idle", "begin", "retiring"} => turnEnds = "none"
    /\ turnEnds = "completed" /\ (pc \in {"afterStep", "stopping", "boundary", "proposing", "decided"}
                                    \/ (pc = "closeTurn" /\ exit = "continue"))
         => stepEnd = "completed"

\* Only a step's return and the turn's end set an outcome.
LEMMA OweStep == TypeOK /\ CursorInv /\ OweInv /\ [Next]_vars => OweInv'
<1> SUFFICES ASSUME TypeOK, CursorInv, OweInv, [Next]_vars PROVE OweInv'
  OBVIOUS
<1> USE DEF OweInv
<1>1. CASE UNCHANGED <<turnEnds, stepEnd, exit>> /\ (UNCHANGED pc \/ (phase # "running" /\ pc' = "begin"))
  BY <1>1 DEF CursorInv
<1>2. CASE Caller
  BY <1>1, <1>2 DEF Caller, Send, CancelKeeping, CancelClearing, CancelEmpty, RemoveQueued, RunMaintenance,
     WhenIdle, turnVars
<1>3. CASE CallerContinues \/ MaintenanceEnds
  BY <1>1, <1>3 DEF CallerContinues, SendWakes, CancelClearsTurns, CancelAborts, Replay, WakeDriver,
     DriverSettles, WhenIdleResumes, MaintenanceEnds, turnVars
<1>4. CASE Chunk \/ ToolContext \/ UNCHANGED vars
  BY <1>1, <1>4 DEF Chunk, ToolContext, vars, turnVars
<1>5. CASE OpenTurn \/ Claim \/ ProposalFails \/ Propose \/ EnterStep
  BY <1>5 DEF OpenTurn, Claim, ProposalFails, Propose, EnterStep, ThrowTurn, EndTurn, Runs, turnVars
<1>6. CASE DeclineStep
  BY <1>6 DEF DeclineStep, EndTurn, Runs
<1>7. CASE PrepareFails \/ Prepare \/ Admit \/ StreamFails \/ StreamErrors \/ StreamFinishes
  BY <1>7 DEF PrepareFails, Prepare, Admit, StreamFails, StreamErrors, StreamFinishes, StepFails, StepReturns, turnVars
<1>8. CASE Retry \/ GiveUp \/ ToolsReturn
  BY <1>8 DEF Retry, GiveUp, ToolsReturn, StepFails, StepReturns, turnVars
<1>9. CASE CloseStep
  BY <1>9 DEF CloseStep, OutcomeAfterStep, StepLocalsEnd
<1>10. CASE CloseFailedStep \/ FailTurn
  BY <1>10 DEF CloseFailedStep, FailTurn, ThrowTurn, EndTurn
<1>11. CASE AfterStep \/ Stopped
  BY <1>11 DEF AfterStep, Stopped, ThrowTurn, EndTurn, GoRound, Runs
<1>12. CASE CloseTurn \/ LeaveTurn \/ Retire
  BY <1>12 DEF CloseTurn, LeaveTurn, Retire, TurnLocalsEnd, Runs, turnVars
<1>13. QED
  BY <1>2, <1>3, <1>4, <1>5, <1>6, <1>7, <1>8, <1>9, <1>10, <1>11, <1>12 DEF Next, Driver

\* A turn that closes as completed, free to be followed by another, has had the
\* model's answer to every tool result, whatever max-tokens steps came before.
THEOREM CompletionOwesNothing == Spec => []CompletedTurnsOweNothing
<1>1. Init => OweInv
  BY DEF Init, OweInv
<1>2. OweInv => CompletedTurnsOweNothing
  BY DEF OweInv, CompletedTurnsOweNothing
<1>3. QED
  BY <1>1, <1>2, OweStep, CursorInit, CursorStep, TypeCorrect, PTL DEF Spec

=============================================================================
