------------------------------ MODULE LogHandle ------------------------------
(***************************************************************************)
(* One write handle of the JSONL session store: JsonlSessionHandle and its *)
(* event routing (packages/session/session-persistence-jsonl/src/          *)
(* storage.ts).  Published events are buffered behind a batching timer,    *)
(* drained by one shared drain through the handle's mutation chain, and    *)
(* forced to disk by flush barriers and by close(); writes fail and are    *)
(* retried, and other fibers keep publishing while the handle closes.      *)
(*                                                                         *)
(* Events are their sequence numbers 1, 2, ...  A run of microtasks is one *)
(* step: whatever awaits I/O, the timer or a chained turn is an action.    *)
(***************************************************************************)
EXTENDS Integers, Sequences, SequencesExt

CONSTANTS MaxEvents,   \* events ever published
          MaxFailures, \* failing I/O operations
          Barriers     \* session/flush calls

ASSUME HandleBounds == {MaxEvents, MaxFailures} \subseteq Nat /\ "drain" \notin Barriers

VARIABLES
    published,       \* events routed to the handle, or stored before it opened
    buffered,        \* routed and not yet taken by a drain
    timer,           \* the batching window is open
    drainPaused,     \* a drain failed: no window opens by itself
    drain,           \* the shared drain
    chain,           \* mutation chain: "drain" turns and the flush of a barrier
    started,         \* the head of the chain is executing
    batch,           \* what the executing drain turn took
    disk,            \* the events durably stored
    torn, recovered, \* torn final frame, and the complete events read out of it
    materialized,    \* the artifact exists
    lease,           \* the cross-process write lock
    barrier, needs,  \* each flush call, and what was published when it was made
    close, ahead,    \* close() or revoke(), and the chain turns it still awaits
    drainFailed,     \* close's own drain failed
    revoked, routed, failures

bufferVars == <<buffered, timer, drainPaused>>
diskVars == <<disk, torn, recovered, materialized>>
callerVars == <<barrier, close, drainFailed>>
fixedVars == <<published, needs, revoked, routed>>
vars == <<fixedVars, bufferVars, drain, chain, started, batch, diskVars, lease, callerVars, ahead,
          failures>>

\* A created handle has nothing on disk; one opened on a stored log holds its
\* lock, and may owe the repair of a torn tail.
Init ==
    /\ \/ /\ disk = <<>> /\ recovered = <<>> /\ torn = FALSE
          /\ materialized = FALSE /\ lease = "none"
       \/ /\ disk = <<1>> /\ materialized = TRUE /\ lease = "held"
          /\ torn \in BOOLEAN /\ recovered \in (IF torn THEN {<<>>, <<2>>} ELSE {<<>>})
    /\ published = Len(disk) + Len(recovered)
    /\ buffered = <<>> /\ timer = FALSE /\ drainPaused = FALSE
    /\ drain = "idle" /\ chain = <<>> /\ started = FALSE /\ batch = <<>>
    /\ barrier = [b \in Barriers |-> "idle"] /\ needs = [b \in Barriers |-> 0]
    /\ close = "open" /\ ahead = 0 /\ drainFailed = FALSE
    /\ revoked = FALSE /\ routed = TRUE /\ failures = 0

-----------------------------------------------------------------------------
(* Publication, the batching window, and the shared drain.                 *)

\* Mutant: only a later event opens the window.
ArmLate == timer' = (timer \/ (~drainPaused /\ buffered # <<>>))
Arm == timer' = (timer \/ ~drainPaused)

\* enqueueLive, for a session/event routed to this handle.
Publish ==
    /\ routed /\ published < MaxEvents
    /\ published' = published + 1
    /\ buffered' = Append(buffered, published + 1)
    /\ Arm
    /\ UNCHANGED <<drainPaused, drain, chain, started, batch, diskVars, lease, callerVars, ahead,
                   needs, revoked, routed, failures>>

\* Mutant: a caller does not wait for a drain that someone else started.
DrainWaitsOwn == drain = "idle" /\ buffered # <<>>
\* drainLive() returns at once when no drain runs and nothing is buffered.
DrainWaits == drain # "idle" \/ buffered # <<>>

\* drainLive(): join the running drain, or start one.
DrainLive ==
    IF drain # "idle" THEN UNCHANGED <<timer, drainPaused, drain, chain>>
    ELSE /\ timer' = FALSE /\ drainPaused' = FALSE
         /\ IF buffered = <<>> THEN UNCHANGED <<drain, chain>>
            ELSE drain' = "waiting" /\ chain' = Append(chain, "drain")

TimerFires ==
    /\ timer
    /\ IF drain # "idle" THEN timer' = FALSE /\ UNCHANGED <<drainPaused, drain, chain>>
       ELSE DrainLive
    /\ UNCHANGED <<fixedVars, buffered, started, batch, diskVars, lease, callerVars, ahead, failures>>

-----------------------------------------------------------------------------
(* The mutation chain.  Every turn that awaits may fail at what it awaits. *)

Turn == IF started THEN Head(chain) ELSE "none"
Ahead == ahead' = IF ahead > 0 THEN ahead - 1 ELSE 0

\* enqueueChain's next turn: a drain takes the whole buffer; a flush is refused
\* on a closing handle and has nothing to do on a materialized one.
StartTurn ==
    /\ chain # <<>> /\ ~started
    /\ Head(chain) = "drain" \/ (close = "open" /\ ~materialized)
    /\ started' = TRUE
    /\ IF Head(chain) = "drain" THEN batch' = buffered /\ buffered' = <<>>
       ELSE UNCHANGED <<batch, buffered>>
    /\ UNCHANGED <<fixedVars, timer, drainPaused, drain, chain, diskVars, lease, callerVars, ahead,
                   failures>>

TurnEnds == chain' = Tail(chain) /\ started' = FALSE /\ batch' = <<>> /\ Ahead

FlushTurnReturns ==
    /\ chain # <<>> /\ ~started /\ Head(chain) # "drain"
    /\ close # "open" \/ materialized
    /\ barrier' = [barrier EXCEPT ![Head(chain)] = IF close = "open" THEN "resolved" ELSE "rejected"]
    /\ TurnEnds
    /\ UNCHANGED <<fixedVars, bufferVars, drain, diskVars, lease, close, drainFailed, failures>>

\* ensureLease, then the pending tail repair, in persistContiguous' order.  An
\* emptied drain turn does none of it.
Acts == Turn # "none" /\ (Turn = "drain" => batch # <<>>)
Writable == Acts /\ lease # "none"

AcquireLease ==
    /\ Acts /\ lease = "none"
    /\ lease' = "held"
    /\ UNCHANGED <<fixedVars, bufferVars, drain, chain, started, batch, diskVars, callerVars, ahead,
                   failures>>

TruncateTail ==
    /\ Writable /\ torn
    /\ torn' = FALSE
    /\ UNCHANGED <<fixedVars, bufferVars, drain, chain, started, batch, disk, recovered,
                   materialized, lease, callerVars, ahead, failures>>

RewriteTail ==
    /\ Writable /\ ~torn /\ recovered # <<>>
    /\ disk' = disk \o recovered /\ recovered' = <<>>
    /\ UNCHANGED <<fixedVars, bufferVars, drain, chain, started, batch, torn, materialized, lease,
                   callerVars, ahead, failures>>

\* Everyone awaiting the shared drain goes on: session/flush calls and close().
DrainSettles(atBarrier, atClose) ==
    /\ drain' = "idle"
    /\ barrier' = [b \in Barriers |-> IF barrier[b] = "draining" THEN atBarrier ELSE barrier[b]]
    /\ close' = IF close = "draining" THEN atClose ELSE close

\* The chain once its drain turn is over; events that landed meanwhile make
\* the drain take another turn.
AfterDrainTurn ==
    /\ started' = FALSE /\ batch' = <<>>
    /\ IF buffered # <<>>
       THEN /\ chain' = Append(Tail(chain), "drain")
            /\ Ahead /\ UNCHANGED <<drain, barrier, close>>
       ELSE /\ chain' = Tail(chain)
            /\ DrainSettles("drained", "chained")
            /\ ahead' = IF close = "draining" THEN Len(chain) - 1 ELSE IF ahead > 0 THEN ahead - 1 ELSE 0

WriteBatch ==
    /\ Turn = "drain"
    /\ batch # <<>> => Writable /\ ~torn /\ recovered = <<>>
    /\ disk' = disk \o batch /\ materialized' = (materialized \/ batch # <<>>)
    /\ AfterDrainTurn
    /\ UNCHANGED <<fixedVars, bufferVars, torn, recovered, lease, drainFailed, failures>>

WriteHeader ==
    /\ Writable /\ Turn # "drain"
    /\ materialized' = TRUE
    /\ barrier' = [barrier EXCEPT ![Turn] = "resolved"]
    /\ TurnEnds
    /\ UNCHANGED <<fixedVars, bufferVars, drain, disk, torn, recovered, lease, close, drainFailed,
                   failures>>

\* Mutant: a retained batch is put behind the events that followed it.
RestoredBehind == buffered \o batch
Restored == batch \o buffered

\* Mutant: a failed drain is reported to flush calls only.
FailedCloseKeepsWaiting == "draining"
FailedCloseGoesOn == "settling"

\* What the turn awaits fails: the drain keeps its batch, in order.
IoFails ==
    /\ Acts /\ failures < MaxFailures /\ failures' = failures + 1
    /\ IF Turn = "drain"
       THEN /\ buffered' = Restored /\ drainPaused' = TRUE
            /\ DrainSettles("rejected", FailedCloseGoesOn)
            /\ drainFailed' = (drainFailed \/ close = "draining")
            /\ chain' = Tail(chain) /\ started' = FALSE /\ batch' = <<>>
            /\ ahead' = IF close = "draining" THEN Len(chain) - 1 ELSE IF ahead > 0 THEN ahead - 1 ELSE 0
       ELSE /\ barrier' = [barrier EXCEPT ![Turn] = "rejected"]
            /\ TurnEnds
            /\ UNCHANGED <<buffered, drainPaused, drain, close, drainFailed>>
    /\ UNCHANGED <<fixedVars, timer, diskVars, lease>>

-----------------------------------------------------------------------------
(* session/flush, close and revoke.                                        *)

FlushCalled(b) ==
    /\ routed /\ barrier[b] = "idle"
    /\ needs' = [needs EXCEPT ![b] = published]
    /\ barrier' = [barrier EXCEPT ![b] = IF DrainWaits THEN "draining" ELSE "drained"]
    /\ DrainLive
    /\ UNCHANGED <<published, revoked, routed, buffered, started, batch, diskVars, lease, close,
                   ahead, drainFailed, failures>>

\* writer.flush() behind the drain: refused once the handle is closing.
FlushQueued(b) ==
    /\ barrier[b] = "drained"
    /\ IF close = "open"
       THEN barrier' = [barrier EXCEPT ![b] = "queued"] /\ chain' = Append(chain, b)
       ELSE barrier' = [barrier EXCEPT ![b] = "rejected"] /\ UNCHANGED chain
    /\ UNCHANGED <<fixedVars, bufferVars, drain, started, batch, diskVars, lease, close, ahead,
                   drainFailed, failures>>

\* close(): a pass of its drain loop.
ClosePass ==
    /\ DrainLive
    /\ close' = IF DrainWaits THEN "draining" ELSE "chained"
    /\ ahead' = Len(chain)

CloseCalled ==
    /\ close = "open" /\ ClosePass
    /\ UNCHANGED <<fixedVars, buffered, started, batch, diskVars, lease, barrier, drainFailed, failures>>

\* After the chain settled: another pass for events that landed meanwhile, or
\* on to the release of the lock.
CloseLoops ==
    /\ close = "chained" /\ ahead = 0
    /\ IF buffered # <<>> THEN ClosePass
       ELSE /\ close' = "settling" /\ ahead' = Len(chain)
            /\ UNCHANGED <<timer, drainPaused, drain, chain>>
    /\ UNCHANGED <<fixedVars, buffered, started, batch, diskVars, lease, barrier, drainFailed, failures>>

\* lease.release() begins: the last await of close() before it unroutes.
ReleaseBegins ==
    /\ close = "settling" /\ ahead = 0
    /\ close' = "releasing"
    /\ UNCHANGED <<fixedVars, bufferVars, drain, chain, started, batch, diskVars, lease, barrier,
                   ahead, drainFailed, failures>>

\* The lock is gone, or its release failed; either way releaseHandle unroutes.
CloseEnds ==
    /\ close = "releasing"
    /\ close' = "closed" /\ routed' = FALSE
    /\ lease' = IF lease = "held" THEN "released" ELSE lease
    /\ UNCHANGED <<published, needs, revoked, bufferVars, drain, chain, started, batch, diskVars,
                   barrier, ahead, drainFailed, failures>>

\* Mutant: the batching window survives the revocation, with its events.
RevokedBuffer == UNCHANGED <<buffered, timer>>
Discarded == buffered' = <<>> /\ timer' = FALSE

\* JsonlBackendTracker.revoke, for a permanent deletion: unroute, drop, settle.
Revoke ==
    /\ close = "open"
    /\ routed' = FALSE /\ revoked' = TRUE
    /\ Discarded /\ drainPaused' = TRUE
    /\ close' = "revoking" /\ ahead' = Len(chain)
    /\ UNCHANGED <<published, needs, drain, chain, started, batch, diskVars, lease, barrier,
                   drainFailed, failures>>

RevokeEnds ==
    /\ close = "revoking" /\ ahead = 0
    /\ close' = "closed" /\ lease' = IF lease = "held" THEN "released" ELSE lease
    /\ UNCHANGED <<fixedVars, bufferVars, drain, chain, started, batch, diskVars, barrier, ahead,
                   drainFailed, failures>>

ChainRuns ==
    \/ StartTurn \/ FlushTurnReturns \/ AcquireLease \/ TruncateTail \/ RewriteTail
    \/ WriteBatch \/ WriteHeader \/ IoFails
Closing == CloseLoops \/ ReleaseBegins \/ CloseEnds \/ RevokeEnds

Next ==
    \/ Publish \/ TimerFires \/ ChainRuns \/ CloseCalled \/ Closing \/ Revoke
    \/ \E b \in Barriers : FlushCalled(b) \/ FlushQueued(b)

Spec == Init /\ [][Next]_vars

\* I/O settles, timers fire, and awaited promises resume their callers; nobody
\* has to publish, flush or close.
FairSpec == /\ Spec
            /\ WF_vars(TimerFires) /\ WF_vars(ChainRuns) /\ WF_vars(Closing)
            /\ \A b \in Barriers : WF_vars(FlushQueued(b))

-----------------------------------------------------------------------------
(* Properties.                                                             *)

BarrierStates == {"idle", "draining", "drained", "queued", "resolved", "rejected"}
CloseStates == {"open", "draining", "chained", "settling", "releasing", "revoking", "closed"}

Flags ==
    /\ timer \in BOOLEAN /\ drainPaused \in BOOLEAN /\ started \in BOOLEAN /\ torn \in BOOLEAN
    /\ materialized \in BOOLEAN /\ drainFailed \in BOOLEAN /\ revoked \in BOOLEAN /\ routed \in BOOLEAN

Data ==
    /\ published \in Nat /\ buffered \in Seq(Nat) /\ batch \in Seq(Nat)
    /\ disk \in Seq(Nat) /\ recovered \in Seq(Nat) /\ chain \in Seq({"drain"} \union Barriers)
    /\ drain \in {"idle", "waiting"} /\ lease \in {"none", "held", "released"}
    /\ barrier \in [Barriers -> BarrierStates] /\ needs \in [Barriers -> Nat]
    /\ close \in CloseStates /\ ahead \in 0..Len(chain) /\ failures \in 0..MaxFailures

TypeOK == Flags /\ Data

\* No event is lost, duplicated or reordered between publication and the disk,
\* whatever fails and is retried and whoever drains; so the append's own
\* contiguity assertion never rejects a batch.
NothingLost ==
    ~revoked => disk \o recovered \o batch \o buffered = [i \in 1..published |-> i]

\* A session/flush that resolves has made durable every event published to
\* this handle before it was called, those another caller's drain was already
\* writing included.  (A recovered tail was published by an earlier process and
\* precedes everything published here.)
Stored == Len(disk) + Len(recovered)
FlushIsDurable ==
    [][\A b \in Barriers : barrier[b] # "resolved" /\ barrier'[b] = "resolved"
                            => materialized' /\ needs[b] <= Stored']_vars

\* After a permanent deletion revoked the handle and its settlement resolved,
\* nothing re-creates the artifact.
RevokedWritesNothing == [][revoked /\ close = "closed" => UNCHANGED diskVars]_vars

\* A buffered event reaches the disk by itself, unless a failed write paused
\* the batching window: no interleaving of drains and closes strands it.
BufferDrains == buffered # <<>> ~> buffered = <<>> \/ drainPaused

\* Every flush call settles, and so do close() and revoke(), also after failures
\* and while others publish.
CallersSettle ==
    /\ \A b \in Barriers : barrier[b] # "idle" ~> barrier[b] \in {"resolved", "rejected"}
    /\ close # "open" ~> close = "closed"

\* "close() itself drains the routed buffer through the still-open storage
\* before releasing ownership, so backend teardown's close sweep keeps
\* application shutdown lossless even though root-fiber disposal runs fibers'
\* disposers concurrently" (session-persistence/README.md:57).
DrainedBeforeRelease == close = "closed" /\ ~revoked /\ ~drainFailed => buffered = <<>>

=============================================================================
