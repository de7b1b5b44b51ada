---------------------------- MODULE Jobs_proofs ----------------------------
(***************************************************************************)
(* Proofs about Jobs, for all sets of jobs, owners and waiters and every   *)
(* limit.                                                                  *)
(***************************************************************************)
EXTENDS Jobs, FiniteSetTheorems, TLAPS

-----------------------------------------------------------------------------
(* Type correctness.                                                       *)

\* The initial state has its type.
LEMMA TypeInit == Init => TypeOK
  BY JobsAssumption DEF Init, TypeOK

\* Every operation keeps the type.
LEMMA TypeStep == TypeOK /\ [Next]_vars => TypeOK'
<1> SUFFICES ASSUME TypeOK, [Next]_vars PROVE TypeOK'
  OBVIOUS
<1> USE JobsAssumption DEF TypeOK, registryVars, ownerVars, waitVars, jobVars
<1>1. ASSUME NEW j \in Job, NEW o \in Owner \union {Nobody}, Start(j, o) PROVE TypeOK'
  BY <1>1 DEF Start
<1>2. ASSUME NEW j \in Job, ProducerDone(j) PROVE TypeOK'
  BY <1>2 DEF ProducerDone, Release
<1>3. ASSUME NEW j \in Job, Read(j) \/ Kill(j) PROVE TypeOK'
  BY <1>3 DEF Read, Kill, TellCaller
<1>4. ASSUME NEW w \in Waiter, NEW j \in Job, StartWait(w, j) PROVE TypeOK'
  BY <1>4 DEF StartWait
<1>5. ASSUME NEW w \in Waiter, WaitTimesOut(w) \/ WaitAborts(w) PROVE TypeOK'
  BY <1>5 DEF WaitTimesOut, WaitAborts
<1>6. ASSUME NEW w \in Waiter, WaitReturns(w) PROVE TypeOK'
  BY <1>6 DEF WaitReturns, TellCaller
<1>7. ASSUME NEW o \in Owner, DisposeOwned(o) PROVE TypeOK'
  <2>1. OwnedBy(o) \subseteq Job
    BY DEF OwnedBy
  <2>2. QED
    BY <1>7, <2>1 DEF DisposeOwned, CancelForTeardown, Release
<1>8. ASSUME NEW o \in Owner, DisposeOwner(o) \/ OwnedDisposed(o) \/ OwnerGone(o) PROVE TypeOK'
  BY <1>8 DEF DisposeOwner, OwnedDisposed, OwnerGone
<1>9. CASE DisposeAll
  BY <1>9 DEF DisposeAll, CancelForTeardown, Release
<1>10. CASE AllDisposed \/ Finished \/ UNCHANGED vars
  BY <1>10 DEF AllDisposed, Finished, vars
<1>11. QED
  BY <1>1, <1>2, <1>3, <1>4, <1>5, <1>6, <1>7, <1>8, <1>9, <1>10 DEF Next, Teardown

\* Every state of the registry has its type.
THEOREM Typing == Spec => []TypeOK
  BY TypeInit, TypeStep, PTL DEF Spec

-----------------------------------------------------------------------------
(* Where records and producers are.                                        *)

\* A job that was not started has no trace; a live job is in the store; a
\* terminal record over live work was forced.
RecordInv ==
    /\ \A j \in Job : status[j] = "none" =>
          j \notin store \union reported \union threw /\ told[j] = {} /\ producer[j] = "none"
    /\ \A j \in Job : status[j] \in {"running", "stopping"} => j \in store
    /\ \A j \in Job : Terminal(j) /\ producer[j] = "alive" => j \in threw

\* An owner with records has its cleanup until disposeOwned has taken over,
\* and a job whose cancel threw has an owner that owns nothing more.
OwnerInv ==
    /\ \A o \in Owner : agent[o] \in {"collecting", "gone"} => o \notin cleanup
    /\ registry = "open" =>
          \A j \in store : owner[j] \in Owner =>
              /\ agent[owner[j]] \in {"live", "unwinding"} => owner[j] \in cleanup
              /\ agent[owner[j]] = "collecting" => j \in disposing[owner[j]]
              /\ agent[owner[j]] # "gone"
    /\ registry = "open" =>
          \A j \in threw : owner[j] \in Owner /\ agent[owner[j]] \in {"collecting", "gone"}
    /\ registry # "closed" => \A j \in Job : registry = "closing" /\ j \in store => j \in closing
    /\ registry = "closed" => \A j \in Job : status[j] \notin {"running", "stopping"}

\* A report is claimed by telling somebody, by a wait that will be told, or by teardown.
ReportInv ==
    /\ \A j \in Job : "caller" \in told[j] => j \in reported
    /\ \A j \in Job : "notice" \in told[j] => Terminal(j)
    /\ \A j \in reported : ~Terminal(j) /\ ~TornDown(j) => told[j] # {}
    /\ SettlementIsTold

JobsInv == TypeOK /\ RecordInv /\ OwnerInv /\ ReportInv

\* The invariant holds before the first job.
LEMMA JobsInvInit == Init => JobsInv
<1> SUFFICES ASSUME Init PROVE JobsInv
  OBVIOUS
<1>1. TypeOK
  BY TypeInit
<1>2. RecordInv /\ OwnerInv
  BY DEF Init, RecordInv, OwnerInv, Terminal
<1>3. ReportInv
  BY DEF Init, ReportInv, SettlementIsTold, Terminal
<1>4. QED
  BY <1>1, <1>2, <1>3 DEF JobsInv

\* Every operation keeps records and producers together.
LEMMA RecordStep == JobsInv /\ [Next]_vars => RecordInv'
<1> SUFFICES ASSUME TypeOK, RecordInv, OwnerInv, [Next]_vars PROVE RecordInv'
  BY DEF JobsInv
<1> USE JobsAssumption DEF TypeOK, RecordInv, Terminal, registryVars, ownerVars, waitVars, jobVars
<1>1. ASSUME NEW j \in Job, NEW o \in Owner \union {Nobody}, Start(j, o) PROVE RecordInv'
  BY <1>1 DEF Start
<1>2. ASSUME NEW j \in Job, ProducerDone(j) PROVE RecordInv'
  BY <1>2 DEF ProducerDone
<1>3. ASSUME NEW j \in Job, Read(j) \/ Kill(j) PROVE RecordInv'
  BY <1>3 DEF Read, Kill, TellCaller
<1>4. ASSUME NEW w \in Waiter, NEW j \in Job, StartWait(w, j) PROVE RecordInv'
  BY <1>4 DEF StartWait
<1>5. ASSUME NEW w \in Waiter, WaitTimesOut(w) \/ WaitAborts(w) PROVE RecordInv'
  BY <1>5 DEF WaitTimesOut, WaitAborts
<1>6. ASSUME NEW w \in Waiter, WaitReturns(w) PROVE RecordInv'
  BY <1>6 DEF WaitReturns, TellCaller
<1>7. ASSUME NEW o \in Owner, DisposeOwned(o) PROVE RecordInv'
  BY <1>7 DEF DisposeOwned, CancelForTeardown, OwnedBy
<1>8. ASSUME NEW o \in Owner, DisposeOwner(o) \/ OwnerGone(o) PROVE RecordInv'
  BY <1>8 DEF DisposeOwner, OwnerGone
<1>9. ASSUME NEW o \in Owner, OwnedDisposed(o) PROVE RecordInv'
  BY <1>9 DEF OwnedDisposed
<1>10. CASE DisposeAll
  BY <1>10 DEF DisposeAll, CancelForTeardown
<1>11. CASE AllDisposed
  BY <1>11 DEF AllDisposed, OwnerInv
<1>12. CASE Finished \/ UNCHANGED vars
  BY <1>12 DEF Finished, vars
<1>13. QED
  BY <1>1, <1>2, <1>3, <1>4, <1>5, <1>6, <1>7, <1>8, <1>9, <1>10, <1>11, <1>12 DEF Next, Teardown

\* Every operation keeps owners answerable for their jobs.
LEMMA OwnerStep == JobsInv /\ [Next]_vars => OwnerInv'
<1> SUFFICES ASSUME TypeOK, RecordInv, OwnerInv, [Next]_vars PROVE OwnerInv'
  BY DEF JobsInv
<1> USE JobsAssumption DEF TypeOK, OwnerInv, registryVars, ownerVars, waitVars, jobVars
<1>1. ASSUME NEW j \in Job, NEW o \in Owner \union {Nobody}, Start(j, o) PROVE OwnerInv'
  <2>1. \A k \in threw : k # j
    BY <1>1 DEF Start, RecordInv
  <2>2. QED
    BY <1>1, <2>1 DEF Start, CanOwn, RecordInv
<1>2. ASSUME NEW j \in Job, ProducerDone(j) PROVE OwnerInv'
  BY <1>2 DEF ProducerDone
<1>3. ASSUME NEW j \in Job, Read(j) \/ Kill(j) PROVE OwnerInv'
  BY <1>3 DEF Read, Kill
<1>4. ASSUME NEW w \in Waiter, NEW j \in Job, StartWait(w, j) PROVE OwnerInv'
  BY <1>4 DEF StartWait
<1>5. ASSUME NEW w \in Waiter, WaitTimesOut(w) \/ WaitAborts(w) \/ WaitReturns(w) PROVE OwnerInv'
  BY <1>5 DEF WaitTimesOut, WaitAborts, WaitReturns
<1>7. ASSUME NEW o \in Owner, DisposeOwned(o) PROVE OwnerInv'
  BY <1>7 DEF DisposeOwned, CancelForTeardown, OwnedBy, Terminal, RecordInv
<1>8. ASSUME NEW o \in Owner, DisposeOwner(o) \/ OwnerGone(o) PROVE OwnerInv'
  BY <1>8 DEF DisposeOwner, OwnerGone
<1>9. ASSUME NEW o \in Owner, OwnedDisposed(o) PROVE OwnerInv'
  BY <1>9 DEF OwnedDisposed
<1>10. CASE DisposeAll
  BY <1>10 DEF DisposeAll, CancelForTeardown
<1>11. CASE AllDisposed
  BY <1>11 DEF AllDisposed, RecordInv, Terminal
<1>12. CASE Finished \/ UNCHANGED vars
  BY <1>12 DEF Finished, vars
<1>13. QED
  BY <1>1, <1>2, <1>3, <1>4, <1>5, <1>7, <1>8, <1>9, <1>10, <1>11, <1>12 DEF Next, Teardown

\* Every operation keeps settlements told, or owed to a caller that waits.
LEMMA ReportStep == JobsInv /\ [Next]_vars => ReportInv'
<1> SUFFICES ASSUME TypeOK, RecordInv, OwnerInv, ReportInv, [Next]_vars PROVE ReportInv'
  BY DEF JobsInv
<1> USE JobsAssumption DEF TypeOK, ReportInv, SettlementIsTold, TornDown, Owed, Terminal,
                           registryVars, ownerVars, waitVars, jobVars
<1>1. ASSUME NEW j \in Job, NEW o \in Owner \union {Nobody}, Start(j, o) PROVE ReportInv'
  BY <1>1 DEF Start, RecordInv
<1>2. ASSUME NEW j \in Job, ProducerDone(j) PROVE ReportInv'
  <2>1. CASE Terminal(j)
    BY <1>2, <2>1 DEF ProducerDone
  <2>2. CASE ~Terminal(j) /\ Counted(j) # {}
    <3>1. Owed(j)' # {}
      BY <1>2, <2>2 DEF ProducerDone, Release, Counted
    <3>2. \A k \in Job : Owed(k) \subseteq Owed(k)'
      BY <1>2, <2>2 DEF ProducerDone, Release
    <3>3. told' = told /\ reported' = reported \union {j}
      BY <1>2, <2>2 DEF ProducerDone
    <3>4. QED
      BY <1>2, <2>2, <3>1, <3>2, <3>3 DEF ProducerDone
  <2>3. CASE ~Terminal(j) /\ Counted(j) = {}
    <3>1. \A k \in Job : Owed(k) \subseteq Owed(k)'
      BY <1>2, <2>3 DEF ProducerDone, Release
    <3>2. reported' = reported
      BY <1>2, <2>3 DEF ProducerDone
    <3>3. \A k \in Job : k # j => told'[k] = told[k] /\ status'[k] = status[k]
      BY <1>2, <2>3 DEF ProducerDone
    <3>4. \A k \in Job : TornDown(k)' = TornDown(k)
      BY <1>2 DEF ProducerDone
    <3>5. told[j] # {} => told'[j] # {}
      BY <1>2, <2>3 DEF ProducerDone
    <3>6. QED
      BY <1>2, <2>3, <3>1, <3>2, <3>3, <3>4, <3>5 DEF ProducerDone
  <2>4. QED
    BY <2>1, <2>2, <2>3
<1>3. ASSUME NEW j \in Job, Read(j) \/ Kill(j) PROVE ReportInv'
  <2>1. told'[j] = told[j] \union {"caller"} /\ reported' = reported \union {j}
    BY <1>3 DEF Read, Kill, TellCaller
  <2>2. \A k \in Job : k # j => told'[k] = told[k] /\ status'[k] = status[k]
    BY <1>3 DEF Read, Kill, TellCaller
  <2>3. QED
    BY <1>3, <2>1, <2>2 DEF Read, Kill
<1>4. ASSUME NEW w \in Waiter, NEW j \in Job, StartWait(w, j) PROVE ReportInv'
  BY <1>4 DEF StartWait
<1>5. ASSUME NEW w \in Waiter, WaitTimesOut(w) \/ WaitAborts(w) PROVE ReportInv'
  <2>1. \A k \in Job : Owed(k) \subseteq Owed(k)'
    BY <1>5 DEF WaitTimesOut, WaitAborts
  <2>2. QED
    BY <1>5, <2>1 DEF WaitTimesOut, WaitAborts
<1>6. ASSUME NEW w \in Waiter, WaitReturns(w) PROVE ReportInv'
  <2>1. \A k \in Job : k # awaited[w] => Owed(k) \subseteq Owed(k)'
    BY <1>6 DEF WaitReturns
  <2>2. CASE Terminal(awaited[w])
    <3>1. told'[awaited[w]] = told[awaited[w]] \union {"caller"} /\ reported' = reported \union {awaited[w]}
      BY <1>6, <2>2 DEF WaitReturns, TellCaller
    <3>2. \A k \in Job : k # awaited[w] => told'[k] = told[k]
      BY <1>6, <2>2 DEF WaitReturns, TellCaller
    <3>3. QED
      BY <1>6, <2>1, <2>2, <3>1, <3>2 DEF WaitReturns
  <2>3. CASE ~Terminal(awaited[w])
    BY <1>6, <2>1, <2>3 DEF WaitReturns
  <2>4. QED
    BY <2>2, <2>3
<1>7. ASSUME NEW o \in Owner, DisposeOwned(o) PROVE ReportInv'
  <2>1. \A k \in Job : Owed(k) \subseteq Owed(k)'
    BY <1>7 DEF DisposeOwned, CancelForTeardown, Release
  <2>2. \A k \in OwnedBy(o) : TornDown(k)'
    BY <1>7 DEF DisposeOwned, CancelForTeardown, OwnedBy
  <2>3. QED
    BY <1>7, <2>1, <2>2 DEF DisposeOwned, CancelForTeardown
<1>8. ASSUME NEW o \in Owner, DisposeOwner(o) \/ OwnerGone(o) \/ OwnedDisposed(o) PROVE ReportInv'
  BY <1>8 DEF DisposeOwner, OwnerGone, OwnedDisposed
<1>10. CASE DisposeAll
  BY <1>10 DEF DisposeAll, CancelForTeardown
<1>11. CASE AllDisposed
  BY <1>11 DEF AllDisposed
<1>12. CASE Finished \/ UNCHANGED vars
  BY <1>12 DEF Finished, vars
<1>13. QED
  BY <1>1, <1>2, <1>3, <1>4, <1>5, <1>6, <1>7, <1>8, <1>10, <1>11, <1>12 DEF Next, Teardown

\* The three parts together are inductive.
LEMMA JobsInvStep == JobsInv /\ [Next]_vars => JobsInv'
  BY TypeStep, RecordStep, OwnerStep, ReportStep DEF JobsInv

\* Every reachable state satisfies the invariant.
THEOREM JobsInvariant == Spec => []JobsInv
  BY JobsInvInit, JobsInvStep, PTL DEF Spec

-----------------------------------------------------------------------------
(* What the invariant gives.                                               *)

\* While its owner and the registry live, no owned job ends unnoticed.
THEOREM SettlementIsAlwaysTold == Spec => []SettlementIsTold
<1>1. JobsInv => SettlementIsTold
  BY DEF JobsInv, ReportInv
<1>2. QED
  BY <1>1, JobsInvariant, PTL

\* A completion notice never repeats what a caller was told or is owed.
THEOREM NoticeNeverRepeats == Spec => NoticeOnlyIfUntold
<1>1. ASSUME JobsInv, [Next]_vars, NEW j \in Job, "notice" \in told'[j] \ told[j]
      PROVE  told[j] = {} /\ Owed(j)' = {}
  <2> USE <1>1, JobsAssumption DEF JobsInv, TypeOK, registryVars, ownerVars, waitVars, jobVars
  <2>1. ProducerDone(j)
    <3>1. \A k \in Job, o \in Owner \union {Nobody} : ~Start(k, o)
      BY DEF Start
    <3>2. \A k \in Job : ~Read(k) /\ ~Kill(k)
      BY DEF Read, Kill, TellCaller
    <3>3. \A w \in Waiter : /\ \A k \in Job : ~StartWait(w, k)
                             /\ ~WaitTimesOut(w) /\ ~WaitAborts(w)
      BY DEF StartWait, WaitTimesOut, WaitAborts
    <3>4. \A w \in Waiter : ~WaitReturns(w)
      BY DEF WaitReturns, TellCaller
    <3>5. \A o \in Owner : ~DisposeOwner(o) /\ ~Teardown(o)
      BY DEF DisposeOwner, Teardown, DisposeOwned, CancelForTeardown, OwnedDisposed, OwnerGone
    <3>6. ~DisposeAll /\ ~AllDisposed /\ ~Finished /\ vars' # vars
      BY DEF DisposeAll, CancelForTeardown, AllDisposed, Finished, vars
    <3>7. \A k \in Job : ProducerDone(k) => k = j
      BY DEF ProducerDone
    <3>8. QED
      BY <3>1, <3>2, <3>3, <3>4, <3>5, <3>6, <3>7 DEF Next
  <2>2. ~Terminal(j) /\ Counted(j) = {} /\ j \notin reported
    BY <2>1 DEF ProducerDone
  <2>3. told[j] = {}
    BY <2>2 DEF ReportInv
  <2>4. Owed(j)' = {}
    BY <2>1, <2>2 DEF ProducerDone, Release, Counted, Owed
  <2>5. QED
    BY <2>3, <2>4
<1>2. JobsInv /\ [Next]_vars =>
        [\A j \in Job : "notice" \in told'[j] \ told[j] => told[j] = {} /\ Owed(j)' = {}]_vars
  BY <1>1
<1>3. QED
  BY <1>2, JobsInvariant, PTL DEF Spec, NoticeOnlyIfUntold

\* A disposed owner leaves neither a record nor work that was never cancelled.
THEOREM DisposalAlwaysCleans == Spec => []DisposalLeavesNothing
<1>1. JobsInv => DisposalLeavesNothing
  BY DEF JobsInv, TypeOK, RecordInv, OwnerInv, DisposalLeavesNothing, Terminal
<1>2. QED
  BY <1>1, JobsInvariant, PTL

-----------------------------------------------------------------------------
(* The work behind the jobs is bounded.                                    *)

Alive(o) == {j \in Job : owner[j] = o /\ producer[j] = "alive"}

\* An owner that may start a job has no orphaned work: all of it is in active records.
LEMMA AliveIsActive ==
    ASSUME JobsInv, registry = "open", NEW o \in Owner \union {Nobody}, CanOwn(o)
    PROVE  Alive(o) \subseteq ActiveJobs(o)
<1> USE JobsAssumption DEF JobsInv, TypeOK
<1>1. SUFFICES ASSUME NEW j \in Job, owner[j] = o, producer[j] = "alive" PROVE j \in ActiveJobs(o)
  BY DEF Alive
<1>2. j \notin threw
  BY <1>1 DEF OwnerInv, CanOwn
<1>3. status[j] \in {"running", "stopping"}
  BY <1>1, <1>2 DEF RecordInv, Terminal
<1>4. QED
  BY <1>1, <1>3 DEF RecordInv, ActiveJobs, OwnedBy, Active

\* start() refuses a job at the limit, and no other operation adds one.
LEMMA BoundedStep == JobsInv /\ ProducersBounded /\ [Next]_vars => ProducersBounded'
<1> SUFFICES ASSUME JobsInv, ProducersBounded, [Next]_vars, NEW o \in Owner \union {Nobody}
             PROVE  Cardinality(Alive(o)') <= MaxConcurrentJobs
  BY DEF ProducersBounded, Alive
<1> USE JobsAssumption DEF JobsInv, TypeOK, registryVars, ownerVars, waitVars, jobVars
<1>0. IsFiniteSet(Alive(o)) /\ Cardinality(Alive(o)) \in Nat /\ Cardinality(Alive(o)) <= MaxConcurrentJobs
  BY FS_Subset, FS_CardinalityType DEF Alive, ProducersBounded
<1>1. ASSUME Alive(o)' \subseteq Alive(o) PROVE Cardinality(Alive(o)') <= MaxConcurrentJobs
  <2>1. Cardinality(Alive(o)') <= Cardinality(Alive(o)) /\ Cardinality(Alive(o)') \in Nat
    BY <1>0, <1>1, FS_Subset, FS_CardinalityType
  <2>2. QED
    BY <1>0, <2>1
<1>2. ASSUME NEW j \in Job, NEW p \in Owner \union {Nobody}, Start(j, p)
      PROVE  Cardinality(Alive(o)') <= MaxConcurrentJobs
  <2>1. CASE p # o
    <3>1. Alive(o)' \subseteq Alive(o)
      BY <1>2, <2>1 DEF Start, Alive
    <3>2. QED
      BY <1>1, <3>1
  <2>2. CASE p = o
    <3>1. Alive(o)' = Alive(o) \union {j}
      BY <1>2, <2>2 DEF Start, Alive, RecordInv
    <3>2. Alive(o) \subseteq ActiveJobs(o)
      BY <1>2, <2>2, AliveIsActive DEF Start
    <3>3. IsFiniteSet(ActiveJobs(o))
      BY FS_Subset DEF ActiveJobs, OwnedBy
    <3>4. Cardinality(Alive(o)) <= Cardinality(ActiveJobs(o)) /\ Cardinality(ActiveJobs(o)) \in Nat
      BY <3>2, <3>3, FS_Subset, FS_CardinalityType
    <3>5. Cardinality(ActiveJobs(o)) < MaxConcurrentJobs
      BY <1>2, <2>2 DEF Start
    <3>6. Cardinality(Alive(o)') <= Cardinality(Alive(o)) + 1 /\ Cardinality(Alive(o)') \in Nat
      <4>1. /\ IsFiniteSet(Alive(o) \union {j})
            /\ Cardinality(Alive(o) \union {j}) \in {Cardinality(Alive(o)), Cardinality(Alive(o)) + 1}
        BY <1>0, FS_AddElement, Zenon
      <4>2. QED
        BY <1>0, <3>1, <4>1
    <3>7. QED
      BY <1>0, <3>4, <3>5, <3>6
  <2>3. QED
    BY <2>1, <2>2
<1>3. ASSUME ~(\E j \in Job : \E p \in Owner \union {Nobody} : Start(j, p))
      PROVE  Alive(o)' \subseteq Alive(o)
  <2>1. ASSUME NEW j \in Job, ProducerDone(j) PROVE Alive(o)' \subseteq Alive(o)
    BY <2>1 DEF ProducerDone, Alive
  <2>2. ASSUME UNCHANGED <<owner, producer>> PROVE Alive(o)' \subseteq Alive(o)
    BY <2>2 DEF Alive
  <2>3. ASSUME NEW j \in Job, Read(j) \/ Kill(j) PROVE UNCHANGED <<owner, producer>>
    BY <2>3 DEF Read, Kill
  <2>4. ASSUME NEW w \in Waiter, \/ \E j \in Job : StartWait(w, j)
                                 \/ WaitTimesOut(w) \/ WaitAborts(w) \/ WaitReturns(w)
        PROVE  UNCHANGED <<owner, producer>>
    BY <2>4 DEF StartWait, WaitTimesOut, WaitAborts, WaitReturns
  <2>5. ASSUME NEW p \in Owner, DisposeOwner(p) \/ Teardown(p) PROVE UNCHANGED <<owner, producer>>
    BY <2>5 DEF DisposeOwner, Teardown, DisposeOwned, CancelForTeardown, OwnedDisposed, OwnerGone
  <2>6. CASE DisposeAll \/ AllDisposed \/ Finished \/ UNCHANGED vars
    BY <2>2, <2>6 DEF DisposeAll, CancelForTeardown, AllDisposed, Finished, vars
  <2>7. QED
    BY <1>3, <2>1, <2>2, <2>3, <2>4, <2>5, <2>6 DEF Next
<1>4. QED
  BY <1>1, <1>2, <1>3

\* No owner ever has more live work than the limit allows records.
THEOREM ProducersAlwaysBounded == Spec => []ProducersBounded
<1>1. Init => ProducersBounded
  <2> SUFFICES ASSUME Init PROVE ProducersBounded
    OBVIOUS
  <2>1. \A o \in Owner \union {Nobody} : {j \in Job : owner[j] = o /\ producer[j] = "alive"} = {}
    BY DEF Init
  <2>2. QED
    BY <2>1, FS_EmptySet, JobsAssumption DEF ProducersBounded
<1>2. QED
  BY <1>1, BoundedStep, JobsInvariant, PTL DEF Spec

=============================================================================
