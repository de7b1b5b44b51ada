-------------------------------- MODULE Jobs --------------------------------
(***************************************************************************)
(* LocalJobRegistry (packages/jobs/jobs-local/src/index.ts) with the       *)
(* completion listener of tool-jobs: background jobs owned by agents,      *)
(* their producers, the calls that wait for, read and kill them, and the   *)
(* teardown of an owner or of the registry.                                *)
(*                                                                         *)
(* Every operation is one synchronous segment; the awaits are a wait until *)
(* its job settles, times out or is aborted, and the two teardowns until   *)
(* the jobs they cancelled settled.  The terminal statuses are one,        *)
(* "settled".  Job ids are not reused, so a record dropped from the store  *)
(* keeps its last state for the waits that still hold it.                  *)
(***************************************************************************)
EXTENDS Integers, FiniteSets

CONSTANTS Job, Owner, Waiter,
          Nobody,           \* the owner of unowned jobs
          NoJob,            \* what a free waiter waits for
          MaxConcurrentJobs \* maxConcurrentJobsPerOwner

ASSUME JobsAssumption == /\ IsFiniteSet(Job) /\ Nobody \notin Owner /\ NoJob \notin Job
                         /\ MaxConcurrentJobs \in Nat \ {0}

VARIABLES
    status, owner, reported,  \* the tracked job
    store,                    \* jobs the registry holds
    producer,                 \* the work behind a job: none, alive, done
    threw,                    \* jobs whose cancel threw during teardown
    told,                     \* who learned how the job ends: a caller, or its owner by notice
    awaited, wait,            \* each waiter's job and where its call is suspended
    agent,                    \* each owner's lifecycle
    cleanup,                  \* owners with an attached cleanup (ownerCleanups)
    disposing,                \* each owner's jobs that disposeOwned awaits
    registry, closing         \* the registry's lifecycle, the jobs disposeAll awaits

jobVars == <<status, owner, reported, store, producer, threw, told>>
waitVars == <<awaited, wait>>
ownerVars == <<agent, cleanup, disposing>>
registryVars == <<registry, closing>>
vars == <<jobVars, waitVars, ownerVars, registryVars>>

Terminal(j) == status[j] = "settled"
Active == {j \in store : status[j] \in {"running", "stopping"}}
OwnedBy(o) == {j \in store : owner[j] = o}

Init ==
    /\ status = [j \in Job |-> "none"] /\ owner = [j \in Job |-> Nobody]
    /\ reported = {} /\ store = {}
    /\ producer = [j \in Job |-> "none"] /\ threw = {} /\ told = [j \in Job |-> {}]
    /\ awaited = [w \in Waiter |-> NoJob] /\ wait = [w \in Waiter |-> "free"]
    /\ agent = [o \in Owner |-> "live"] /\ cleanup = {} /\ disposing = [o \in Owner |-> {}]
    /\ registry = "open" /\ closing = {}

-----------------------------------------------------------------------------
(* start and settle.                                                       *)

\* Mutant: an owner whose scope is already unwinding still gets a cleanup.
AttachesToAnyone(o) == o \in Owner => agent[o] # "gone"

\* ensureOwnerCleanup: the owner is the registered agent, and either has its
\* cleanup or a scope that still accepts one.  An agent leaves the agent
\* registry only after its scope is disposed.
CanOwn(o) == o \in Owner => agent[o] # "gone" /\ (o \in cleanup \/ agent[o] = "live")

ActiveJobs(o) == OwnedBy(o) \intersect Active

\* start(): preflight, run the producer, register.
Start(j, o) ==
    /\ registry = "open" /\ status[j] = "none" /\ CanOwn(o)
    /\ Cardinality(ActiveJobs(o)) < MaxConcurrentJobs
    /\ cleanup' = cleanup \union ({o} \intersect Owner)
    /\ status' = [status EXCEPT ![j] = "running"] /\ owner' = [owner EXCEPT ![j] = o]
    /\ producer' = [producer EXCEPT ![j] = "alive"] /\ store' = store \union {j}
    /\ UNCHANGED <<reported, threw, told, waitVars, agent, disposing, registryVars>>

\* Mutant: only a wait that is still pending counts, not one whose deadline
\* has passed but which has not resumed.
CountedWhilePending(j) == {w \in Waiter : awaited[w] = j /\ wait[w] = "waiting"}

\* The waits counted in job.waiters.
Counted(j) == {w \in Waiter : awaited[w] = j /\ wait[w] \in {"waiting", "timedOut", "released"}}

\* settle() releases every live wait of the jobs it settles.
Release(settled) ==
    wait' = [w \in Waiter |-> IF awaited[w] \in settled /\ wait[w] = "waiting" THEN "released" ELSE wait[w]]

\* The producer's done promise.  The first outcome wins; an unreported one is
\* announced, last, to the owner's completion listener.
ProducerDone(j) ==
    /\ producer[j] = "alive" /\ producer' = [producer EXCEPT ![j] = "done"]
    /\ IF Terminal(j) THEN UNCHANGED <<status, reported, told, wait>>
       ELSE /\ status' = [status EXCEPT ![j] = "settled"]
            /\ reported' = IF Counted(j) # {} THEN reported \union {j} ELSE reported
            /\ Release({j})
            /\ told' = IF registry = "open" /\ j \notin reported' /\ owner[j] # Nobody
                       THEN [told EXCEPT ![j] = @ \union {"notice"}] ELSE told
    /\ UNCHANGED <<owner, store, threw, awaited, ownerVars, registryVars>>

-----------------------------------------------------------------------------
(* read, kill and wait.                                                    *)

TellCaller(j) == told' = [told EXCEPT ![j] = @ \union {"caller"}]

\* read() of a terminal job; an earlier read changes no registry state.
Read(j) ==
    /\ registry = "open" /\ j \in store /\ Terminal(j)
    /\ reported' = reported \union {j} /\ TellCaller(j)
    /\ UNCHANGED <<status, owner, store, producer, threw, waitVars, ownerVars, registryVars>>

\* kill(): the caller learns that the job stops, or that it already finished.
\* A cancel that throws changes nothing.
Kill(j) ==
    /\ registry = "open" /\ j \in store
    /\ status' = IF Terminal(j) THEN status ELSE [status EXCEPT ![j] = "stopping"]
    /\ reported' = reported \union {j} /\ TellCaller(j)
    /\ UNCHANGED <<owner, store, producer, threw, waitVars, ownerVars, registryVars>>

\* wait() on a live job.  On a terminal one it returns like a read.
StartWait(w, j) ==
    /\ registry = "open" /\ wait[w] = "free" /\ j \in store /\ ~Terminal(j)
    /\ awaited' = [awaited EXCEPT ![w] = j] /\ wait' = [wait EXCEPT ![w] = "waiting"]
    /\ UNCHANGED <<jobVars, ownerVars, registryVars>>

\* The deadline resolves the wait, which stays counted until it resumes.
WaitTimesOut(w) ==
    /\ wait[w] = "waiting"
    /\ wait' = [wait EXCEPT ![w] = "timedOut"]
    /\ UNCHANGED <<jobVars, awaited, ownerVars, registryVars>>

\* Mutant: settlement does not detach the abort listener of the waits it releases.
AbortsReleased(w) ==
    /\ wait[w] \in {"waiting", "released"}
    /\ wait' = [wait EXCEPT ![w] = "free"] /\ awaited' = [awaited EXCEPT ![w] = NoJob]
    /\ UNCHANGED <<jobVars, ownerVars, registryVars>>

\* The caller's abort uncounts and rejects in one segment.  A wait that was
\* released or timed out no longer listens.
WaitAborts(w) ==
    /\ wait[w] = "waiting"
    /\ wait' = [wait EXCEPT ![w] = "free"] /\ awaited' = [awaited EXCEPT ![w] = NoJob]
    /\ UNCHANGED <<jobVars, ownerVars, registryVars>>

\* The resumed wait: a terminal snapshot reports the job.
WaitReturns(w) ==
    /\ wait[w] \in {"released", "timedOut"}
    /\ wait' = [wait EXCEPT ![w] = "free"] /\ awaited' = [awaited EXCEPT ![w] = NoJob]
    /\ IF Terminal(awaited[w])
       THEN reported' = reported \union {awaited[w]} /\ TellCaller(awaited[w])
       ELSE UNCHANGED <<reported, told>>
    /\ UNCHANGED <<status, owner, store, producer, threw, ownerVars, registryVars>>

-----------------------------------------------------------------------------
(* Teardown.                                                               *)

\* Mutant: a cancel that throws leaves the record as it was.
CancelWithoutForce(js) ==
    LET live == {j \in js : ~Terminal(j)}
    IN  \E failing \in SUBSET live :
            /\ threw' = threw \union failing
            /\ status' = [j \in Job |-> IF j \in live \ failing THEN "stopping" ELSE status[j]]
            /\ reported' = reported \union live
            /\ Release({})
            /\ UNCHANGED <<owner, producer, told>>

\* cancelForTeardown: claim the report of every live job, then cancel it; a
\* cancel that throws settles the record at once, as failed.
CancelForTeardown(js) ==
    LET live == {j \in js : ~Terminal(j)}
    IN  \E failing \in SUBSET live :
            /\ threw' = threw \union failing
            /\ status' = [j \in Job |-> IF j \in failing THEN "settled"
                                        ELSE IF j \in live THEN "stopping" ELSE status[j]]
            /\ reported' = reported \union live
            /\ Release(failing)
            /\ UNCHANGED <<owner, producer, told>>

\* The owner's scope starts to unwind.
DisposeOwner(o) ==
    /\ agent[o] = "live" /\ agent' = [agent EXCEPT ![o] = "unwinding"]
    /\ UNCHANGED <<jobVars, waitVars, cleanup, disposing, registryVars>>

\* It reaches the cleanup attached by ensureOwnerCleanup: disposeOwned.
DisposeOwned(o) ==
    /\ agent[o] = "unwinding" /\ o \in cleanup
    /\ agent' = [agent EXCEPT ![o] = "collecting"] /\ cleanup' = cleanup \ {o}
    /\ disposing' = [disposing EXCEPT ![o] = OwnedBy(o)]
    /\ CancelForTeardown(OwnedBy(o))
    /\ UNCHANGED <<store, awaited, registryVars>>

\* disposeOwned after its await.
OwnedDisposed(o) ==
    /\ agent[o] = "collecting" /\ \A j \in disposing[o] : Terminal(j)
    /\ agent' = [agent EXCEPT ![o] = "gone"] /\ store' = store \ disposing[o]
    /\ UNCHANGED <<status, owner, reported, producer, threw, told, waitVars, cleanup, disposing,
                   registryVars>>

\* An owner without a cleanup has nothing to await here.
OwnerGone(o) ==
    /\ agent[o] = "unwinding" /\ o \notin cleanup
    /\ agent' = [agent EXCEPT ![o] = "gone"]
    /\ UNCHANGED <<jobVars, waitVars, cleanup, disposing, registryVars>>

\* disposeAll: close the listeners, cancel every live job.
DisposeAll ==
    /\ registry = "open" /\ registry' = "closing"
    /\ closing' = store
    /\ CancelForTeardown(store)
    /\ UNCHANGED <<store, awaited, ownerVars>>

\* disposeAll after its await: clear the store and run the owners' cleanups,
\* which find nothing left to cancel.
AllDisposed ==
    /\ registry = "closing" /\ \A j \in closing : Terminal(j)
    /\ registry' = "closed" /\ store' = {} /\ cleanup' = {}
    /\ UNCHANGED <<status, owner, reported, producer, threw, told, waitVars, agent, disposing, closing>>

\* A process that keeps running has nothing more to do here.
Finished ==
    /\ registry = "closed" /\ \A o \in Owner : agent[o] = "gone"
    /\ \A w \in Waiter : wait[w] = "free"
    /\ UNCHANGED vars

Teardown(o) == DisposeOwned(o) \/ OwnedDisposed(o) \/ OwnerGone(o)

Next ==
    \/ \E j \in Job : \/ \E o \in Owner \union {Nobody} : Start(j, o)
                      \/ ProducerDone(j) \/ Read(j) \/ Kill(j)
    \/ \E w \in Waiter : \/ \E j \in Job : StartWait(w, j)
                         \/ WaitTimesOut(w) \/ WaitAborts(w) \/ WaitReturns(w)
    \/ \E o \in Owner : DisposeOwner(o) \/ Teardown(o)
    \/ DisposeAll \/ AllDisposed \/ Finished

Spec == Init /\ [][Next]_vars

\* A producer that was cancelled without throwing settles; teardown goes on.
\* Nobody has to dispose, kill, or wait, and a running job may run forever.
FairSpec ==
    /\ Spec
    /\ \A j \in Job : WF_vars(ProducerDone(j) /\ status[j] = "stopping")
    /\ \A o \in Owner : WF_vars(Teardown(o))
    /\ WF_vars(AllDisposed)

-----------------------------------------------------------------------------
(* Properties.                                                             *)

TypeOK ==
    /\ status \in [Job -> {"none", "running", "stopping", "settled"}]
    /\ owner \in [Job -> Owner \union {Nobody}] /\ reported \subseteq Job
    /\ store \subseteq Job /\ producer \in [Job -> {"none", "alive", "done"}] /\ threw \subseteq Job
    /\ told \in [Job -> SUBSET {"notice", "caller"}]
    /\ awaited \in [Waiter -> Job \union {NoJob}]
    /\ wait \in [Waiter -> {"free", "waiting", "timedOut", "released"}]
    /\ \A w \in Waiter : wait[w] # "free" <=> awaited[w] \in Job
    /\ agent \in [Owner -> {"live", "unwinding", "collecting", "gone"}]
    /\ cleanup \subseteq Owner /\ disposing \in [Owner -> SUBSET Job]
    /\ registry \in {"open", "closing", "closed"} /\ closing \subseteq Job

\* A wait that will return the job's terminal snapshot.
Owed(j) == {w \in Waiter : awaited[w] = j /\ wait[w] \in {"timedOut", "released"}}
TornDown(j) == registry # "open" \/ (owner[j] \in Owner /\ agent[owner[j]] \in {"collecting", "gone"})

\* "Caller abort rejects only while the job is live ... so a notice suppressed
\* for this waiter is still delivered" (jobs/src/index.ts): while its owner and
\* the registry live, an owned job never ends without somebody being told.
SettlementIsTold ==
    \A j \in Job : Terminal(j) /\ owner[j] # Nobody /\ ~TornDown(j) => told[j] # {} \/ Owed(j) # {}

\* The completion notice, which may open a model turn, is not sent for a job
\* whose end somebody was told of or is about to be told of.
NoticeOnlyIfUntold ==
    [][\A j \in Job : "notice" \in told'[j] \ told[j] => told[j] = {} /\ Owed(j)' = {}]_vars

\* The limit counts records; what must be bounded is the work itself.
ProducersBounded ==
    \A o \in Owner \union {Nobody} :
        Cardinality({j \in Job : owner[j] = o /\ producer[j] = "alive"}) <= MaxConcurrentJobs

\* A disposed owner leaves no record, and no work but what refused to be
\* cancelled ("work may be orphaned").
DisposalLeavesNothing ==
    \A j \in Job : owner[j] \in Owner /\ agent[owner[j]] = "gone" /\ registry = "open"
                     => j \notin store /\ (producer[j] = "alive" => j \in threw)

\* "Teardown never deadlocks" (jobs-local/README.md), if cancelled producers settle.
TeardownEnds ==
    /\ \A o \in Owner : agent[o] = "unwinding" ~> agent[o] = "gone"
    /\ registry = "closing" ~> registry = "closed"

=============================================================================
