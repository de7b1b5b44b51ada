--------------------------- MODULE AgentLifecycle ---------------------------
(***************************************************************************)
(* Creating, resuming and disposing agents (packages/core/agent-loop/src/  *)
(* index.ts) with the agent registry they publish into (packages/core/     *)
(* agent/src/index.ts), a persistence backend being mounted.               *)
(*                                                                         *)
(* The lifecycles of this module are attempts at one identity, so they     *)
(* compete for its write handle and its registry entries.  Each has a      *)
(* create (or resume) coroutine, at pc, a memoized dispose coroutine, at   *)
(* dp, and an owner fiber that may unload; all belong to one factory.  The *)
(* fused abort signal of prepare() is `abort`.                             *)
(***************************************************************************)
EXTENDS Integers, FiniteSets

CONSTANTS Lifecycle, None

ASSUME LifecycleAssumption == None \notin Lifecycle

VARIABLES
    pc,                \* the create or resume calls
    resuming, direct,  \* resumes, and public create() calls; the others are createAgent
    caller, reentrant, \* whose caller aborted before prepare(), and while it minted the scope
    opening,           \* the backend still works on create/open
    handle,            \* the write handle: none, open, closing, closed
    materialized,      \* the identity has a stored log
    abort, scope,      \* prepare's abort signal, the agent's scope
    turn,              \* a published agent runs a turn
    registered,        \* which lifecycle is in the session and agent registries
    dp, byOwner,       \* the dispose coroutine, and whether the owner's unload started it
    owner, factory,    \* the owner fiber, the factory
    rejected           \* a disposal that the factory's disposal joins has rejected

callVars == <<resuming, direct, caller, reentrant>>
createVars == <<pc, callVars, opening>>
agentVars == <<abort, scope, turn>>
disposeVars == <<dp, byOwner>>
fiberVars == <<owner, factory, rejected>>
vars == <<createVars, handle, materialized, agentVars, registered, disposeVars, fiberVars>>

Init ==
    /\ pc = [l \in Lifecycle |-> "idle"] /\ resuming = {} /\ direct = {}
    /\ caller = {} /\ reentrant = {} /\ opening = {}
    /\ handle = [l \in Lifecycle |-> "none"] /\ materialized = FALSE
    /\ abort = {} /\ scope = [l \in Lifecycle |-> "none"]
    /\ turn = {} /\ registered = None
    /\ dp = [l \in Lifecycle |-> "none"] /\ byOwner = {}
    /\ owner = [l \in Lifecycle |-> "active"] /\ factory = "active" /\ rejected = FALSE

Goto(l, label) == pc' = [pc EXCEPT ![l] = label]
Claimed == \E l \in Lifecycle : handle[l] \in {"open", "closing"}

-----------------------------------------------------------------------------
(* The memoized dispose of prepare().                                      *)

\* The first suspension: creation listeners retain the session and the scope.
FirstStop(l) == IF pc[l] = "announcing" THEN "publication" ELSE "idle"

\* dispose() up to its first await; a later call joins it.
Disposing(ls) ==
    LET fresh == {l \in ls : dp[l] = "none"}
    IN  /\ dp' = [l \in Lifecycle |-> IF l \in fresh THEN FirstStop(l) ELSE dp[l]]
        /\ abort' = abort \union fresh

\* runMaintenance around the initialization, or a turn.
Busy(l) == pc[l] \in {"setup", "appending", "announcing"} \/ l \in turn

\* Mutant: a publication that fails leaves its promise unresolved.
PublicationSucceeds(l) ==
    /\ dp[l] = "publication" /\ pc[l] = "published"
    /\ dp' = [dp EXCEPT ![l] = "idle"]
    /\ UNCHANGED <<createVars, handle, materialized, agentVars, registered, byOwner, fiberVars>>

\* publish() has settled, either way.
PublicationOver(l) ==
    /\ dp[l] = "publication" /\ pc[l] # "announcing"
    /\ dp' = [dp EXCEPT ![l] = "idle"]
    /\ UNCHANGED <<createVars, handle, materialized, agentVars, registered, byOwner, fiberVars>>

\* machine.cancel(disposed) and whenIdle, then scope.dispose(), which joins an
\* unwinding somebody else has started.
MachineIdle(l) ==
    /\ dp[l] = "idle" /\ ~Busy(l)
    /\ dp' = [dp EXCEPT ![l] = "scope"]
    /\ scope' = [scope EXCEPT ![l] = IF @ = "live" THEN "unwinding" ELSE @]
    /\ UNCHANGED <<createVars, handle, materialized, abort, turn, registered, byOwner, fiberVars>>

ScopeUnwound(l) ==
    /\ scope[l] = "unwinding" /\ scope' = [scope EXCEPT ![l] = "gone"]
    /\ UNCHANGED <<createVars, handle, materialized, abort, turn, registered, disposeVars, fiberVars>>

ClosesHandle(l) ==
    /\ dp[l] = "scope" /\ scope[l] = "gone"
    /\ dp' = [dp EXCEPT ![l] = "closing"]
    /\ handle' = [handle EXCEPT ![l] = IF @ = "open" THEN "closing" ELSE @]
    /\ UNCHANGED <<createVars, materialized, agentVars, registered, byOwner, fiberVars>>

\* Mutant: a dispose that the owner's unload started leaves the registries to it.
DetachesUnlessOwner(l) == IF registered = l /\ l \notin byOwner THEN None ELSE registered

\* detachAgent and detachSession remove this lifecycle's own entries only.
Detached(l) == IF registered = l THEN None ELSE registered

\* handle.close() settled: leave the registries and the factory's list; then
\* the disposal rejects with the failures it has collected, if any.  The owner's
\* effect finds nothing left to do.
Disposed(l) ==
    /\ dp[l] = "closing"
    /\ dp' = [dp EXCEPT ![l] = "done"] /\ handle' = [handle EXCEPT ![l] = "closed"]
    /\ registered' = Detached(l)
    /\ rejected' \in IF factory = "disposing" THEN {rejected, TRUE} ELSE {rejected}
    /\ UNCHANGED <<createVars, materialized, agentVars, byOwner, owner, factory>>

\* AgentHandle.dispose(), called by whoever was given the handle.
DisposeHandle(l) ==
    /\ pc[l] = "published" /\ dp[l] = "none"
    /\ Disposing({l})
    /\ UNCHANGED <<createVars, handle, materialized, scope, turn, registered, byOwner, fiberVars>>

-----------------------------------------------------------------------------
(* create, createAgent and resumeWith.                                     *)

\* A public create() has no setup and no caller's signal, and the factory does
\* not track its continuation.
Call(l, kind) ==
    /\ pc[l] = "idle" /\ factory = "active" /\ owner[l] = "active"
    /\ Goto(l, "opening") /\ opening' = opening \union {l}
    /\ resuming' = IF kind = "resume" THEN resuming \union {l} ELSE resuming
    /\ direct' = IF kind = "create" THEN direct \union {l} ELSE direct
    /\ UNCHANGED <<caller, reentrant, handle, materialized, agentVars, registered, disposeVars, fiberVars>>

\* The caller aborts; once prepare() has run, that aborts its fused signal,
\* until dispose() stops listening.
CallerAborts(l) ==
    /\ pc[l] \in {"opening", "opened", "setup", "appending", "announcing"}
    /\ l \notin direct \union caller \union abort
    /\ \/ scope[l] = "none" /\ caller' = caller \union {l} /\ UNCHANGED abort
       \/ scope[l] # "none" /\ abort' = abort \union {l} /\ UNCHANGED caller
    /\ UNCHANGED <<pc, resuming, direct, reentrant, opening, handle, materialized, scope, turn, registered,
                   disposeVars, fiberVars>>

\* The signals that raceAbortCall follows: a resume also follows its owner and
\* the factory.
OpeningAborted(l) == l \in caller \/ (l \in resuming /\ (owner[l] # "active" \/ factory # "active"))

\* raceAbortCall gives up on a backend that may never settle.
Abandon(l) ==
    /\ pc[l] = "opening" /\ OpeningAborted(l)
    /\ Goto(l, "failed")
    /\ UNCHANGED <<callVars, opening, handle, materialized, agentVars, registered, disposeVars,
                   fiberVars>>

\* The backend hands out one write handle per identity; it creates a session
\* that is not stored, and opens one that is.  A handle that arrives after the
\* call was abandoned is closed (releaseAbandoned).
Opened(l) ==
    /\ l \in opening /\ opening' = opening \ {l}
    /\ ~Claimed /\ (materialized <=> l \in resuming)
    /\ handle' = [handle EXCEPT ![l] = IF pc[l] = "opening" THEN "open" ELSE "closing"]
    /\ IF pc[l] = "opening" THEN Goto(l, "opened") ELSE UNCHANGED pc
    /\ UNCHANGED <<callVars, materialized, agentVars, registered, disposeVars, fiberVars>>

OpenFails(l) ==
    /\ l \in opening /\ opening' = opening \ {l}
    /\ IF pc[l] = "opening" THEN Goto(l, "failed") ELSE UNCHANGED pc
    /\ UNCHANGED <<callVars, handle, materialized, agentVars, registered, disposeVars, fiberVars>>

AbandonedClosed(l) ==
    /\ handle[l] = "closing" /\ pc[l] = "failed" /\ dp[l] = "none"
    /\ handle' = [handle EXCEPT ![l] = "closed"]
    /\ UNCHANGED <<createVars, materialized, agentVars, registered, disposeVars, fiberVars>>

\* assertActive, isActive and the caller's signal, before anything exists.
MayPrepare(l) == owner[l] = "active" /\ factory = "active" /\ l \notin caller

\* prepare(): construct the driver and its scope, track the teardown with
\* factory and owner.  A resume has read and repaired the log before.
Prepare(l) ==
    /\ pc[l] = "opened" /\ MayPrepare(l)
    /\ Goto(l, IF l \in direct THEN "appending" ELSE "setup") /\ scope' = [scope EXCEPT ![l] = "live"]
    /\ UNCHANGED <<callVars, opening, handle, materialized, abort, turn, registered, disposeVars,
                   fiberVars>>

\* The caller aborts while the scope is minted: assertLive throws.  prepare()
\* starts dispose() and does not wait for it, setupAndPublish closes the handle.
PrepareAborted(l) ==
    /\ pc[l] = "opened" /\ MayPrepare(l) /\ l \notin direct
    /\ reentrant' = reentrant \union {l} /\ scope' = [scope EXCEPT ![l] = "live"]
    /\ Disposing({l})
    /\ Goto(l, "discarding") /\ handle' = [handle EXCEPT ![l] = "closing"]
    /\ UNCHANGED <<resuming, direct, caller, opening, materialized, turn, registered, byOwner, fiberVars>>

\* prepare() throws before that, or the resume's read or repair fails: close the handle.
PrepareFails(l) ==
    /\ pc[l] = "opened" /\ (~MayPrepare(l) \/ l \in resuming)
    /\ Goto(l, "discarding") /\ handle' = [handle EXCEPT ![l] = "closing"]
    /\ UNCHANGED <<callVars, opening, materialized, agentVars, registered, disposeVars, fiberVars>>

Discarded(l) ==
    /\ pc[l] = "discarding"
    /\ Goto(l, "failed") /\ handle' = [handle EXCEPT ![l] = "closed"]
    /\ UNCHANGED <<callVars, opening, materialized, agentVars, registered, disposeVars, fiberVars>>

\* setup() resolved: commit, and store the suffix appended so far.
SetupDone(l) ==
    /\ pc[l] = "setup"
    /\ Goto(l, "appending")
    /\ UNCHANGED <<callVars, opening, handle, materialized, agentVars, registered, disposeVars,
                   fiberVars>>

\* publish(): enter and announce the session, enter the agent, announce it.
Publish(l) ==
    /\ pc[l] = "appending" /\ l \notin abort
    /\ materialized' \in {materialized, TRUE}
    /\ registered' = l /\ Goto(l, "announcing")
    /\ UNCHANGED <<callVars, opening, handle, agentVars, disposeVars, fiberVars>>

AssertLive(l) == l \notin abort

\* The agent/created listeners are through and nothing has aborted meanwhile.
Announced(l) ==
    /\ pc[l] = "announcing" /\ AssertLive(l)
    /\ Goto(l, "published")
    /\ UNCHANGED <<callVars, opening, handle, materialized, agentVars, registered, disposeVars,
                   fiberVars>>

\* Any step of the initialization rejects: setup, the append, a listener, or
\* assertLive after an abort.  The driver is cancelled, the maintenance ends,
\* and the lifecycle is disposed of.  The append may have stored events.
InitializeFails(l) ==
    /\ pc[l] \in {"setup", "appending", "announcing"}
    /\ materialized' \in IF pc[l] = "appending" THEN {materialized, TRUE} ELSE {materialized}
    /\ Goto(l, "rollback")
    /\ dp' = [dp EXCEPT ![l] = IF @ = "none" THEN "idle" ELSE @] /\ abort' = abort \union {l}
    /\ UNCHANGED <<callVars, opening, handle, scope, turn, registered, byOwner, fiberVars>>

\* Mutant: the caller gets its error while the rollback goes on.
RollsBackDetached(l) == TRUE
RolledBack(l) == dp[l] = "done"

CreateFails(l) ==
    /\ pc[l] = "rollback" /\ RolledBack(l)
    /\ Goto(l, "failed")
    /\ UNCHANGED <<callVars, opening, handle, materialized, agentVars, registered, disposeVars,
                   fiberVars>>

\* The driver, which a disposed cancel leaves parked.
TurnStarts(l) ==
    /\ pc[l] = "published" /\ dp[l] = "none" /\ l \notin turn
    /\ turn' = turn \union {l}
    /\ UNCHANGED <<createVars, handle, materialized, abort, scope, registered, disposeVars, fiberVars>>

TurnEnds(l) ==
    /\ l \in turn /\ turn' = turn \ {l}
    /\ UNCHANGED <<createVars, handle, materialized, abort, scope, registered, disposeVars, fiberVars>>

-----------------------------------------------------------------------------
(* The owner fiber and the factory unload.                                 *)

\* The fiber collects its effects, then runs each of them a microtask later.
OwnerUnloads(l) ==
    /\ owner[l] = "active" /\ owner' = [owner EXCEPT ![l] = "unloading"]
    /\ UNCHANGED <<createVars, handle, materialized, agentVars, registered, disposeVars, factory, rejected>>

Followed(l) == scope[l] # "none" /\ dp[l] # "done"

\* The agentLoop.lifecycle effect, last disposer first: dispose(true), unless
\* a disposal is under way.
OwnerDisposes(l) ==
    /\ owner[l] = "unloading" /\ Followed(l) /\ dp[l] = "none"
    /\ Disposing({l}) /\ byOwner' = byOwner \union {l}
    /\ owner' = [owner EXCEPT ![l] = "awaiting"]
    /\ UNCHANGED <<createVars, handle, materialized, scope, turn, registered, factory, rejected>>

\* Then the effect goes on with scope.rawDispose.
OwnerFindsDisposal(l) ==
    /\ owner[l] = "unloading" /\ Followed(l) /\ dp[l] # "none"
    /\ owner' = [owner EXCEPT ![l] = "unwinding"]
    /\ scope' = [scope EXCEPT ![l] = IF @ = "live" THEN "unwinding" ELSE @]
    /\ UNCHANGED <<createVars, handle, materialized, abort, turn, registered, disposeVars, factory, rejected>>

OwnerUnloaded(l) ==
    /\ \/ owner[l] = "unloading" /\ ~Followed(l)
       \/ owner[l] = "awaiting" /\ dp[l] = "done"
       \/ owner[l] = "unwinding" /\ scope[l] = "gone"
    /\ owner' = [owner EXCEPT ![l] = "unloaded"]
    /\ UNCHANGED <<createVars, handle, materialized, agentVars, registered, disposeVars, factory, rejected>>

\* FactoryOwnership.dispose: refuse new work, abort, dispose of every tracked agent.
FactoryDisposes ==
    /\ factory = "active" /\ factory' = "disposing"
    /\ Disposing({l \in Lifecycle : Followed(l)})
    /\ UNCHANGED <<createVars, handle, materialized, scope, turn, registered, byOwner, owner, rejected>>

\* Mutant: the factory does not join the create and resume calls.
JoinsAgents == \A l \in Lifecycle : scope[l] = "none" \/ dp[l] = "done"

\* Tracked agents and startup tasks, the continuations of createAgent and
\* resume among them.
AllJoined == \A l \in Lifecycle : /\ scope[l] = "none" \/ dp[l] = "done"
                                  /\ l \in direct \/ pc[l] \in {"idle", "published", "failed"}

\* Promise.all: everything it joins has settled, or one disposal has rejected.
FactoryDisposed ==
    /\ factory = "disposing" /\ (AllJoined \/ rejected)
    /\ factory' = "disposed"
    /\ UNCHANGED <<createVars, handle, materialized, agentVars, registered, disposeVars, owner, rejected>>

-----------------------------------------------------------------------------
Creation(l) == \/ Prepare(l) \/ PrepareAborted(l) \/ PrepareFails(l) \/ Discarded(l)
               \/ Abandon(l) \/ AbandonedClosed(l)
               \/ Publish(l) \/ Announced(l) \/ InitializeFails(l) \/ CreateFails(l)
Backend(l) == Opened(l) \/ OpenFails(l)
Disposal(l) == \/ PublicationOver(l) \/ MachineIdle(l) \/ ScopeUnwound(l) \/ ClosesHandle(l) \/ Disposed(l)
               \/ TurnEnds(l)
Unload(l) == OwnerDisposes(l) \/ OwnerFindsDisposal(l) \/ OwnerUnloaded(l)

Next ==
    \/ \E l \in Lifecycle :
          \/ \E kind \in {"create", "createAgent", "resume"} : Call(l, kind)
          \/ CallerAborts(l) \/ Backend(l) \/ Creation(l) \/ SetupDone(l)
          \/ TurnStarts(l) \/ Disposal(l) \/ DisposeHandle(l) \/ OwnerUnloads(l) \/ Unload(l)
    \/ FactoryDisposes \/ FactoryDisposed

Spec == Init /\ [][Next]_vars

\* Appends, listeners, closes and turns settle, and so does an aborted setup,
\* which is raced against its signal.  A backend or a setup may hang.
FairSpec ==
    /\ Spec
    /\ \A l \in Lifecycle :
          /\ WF_vars(Creation(l) /\ (pc[l] = "setup" => l \in abort))
          /\ WF_vars(Disposal(l)) /\ WF_vars(Unload(l))
    /\ WF_vars(FactoryDisposed)

-----------------------------------------------------------------------------
(* Properties.                                                             *)

TypeOK ==
    /\ pc \in [Lifecycle -> {"idle", "opening", "opened", "discarding", "setup", "appending", "announcing",
                             "rollback", "published", "failed"}]
    /\ resuming \subseteq Lifecycle /\ direct \subseteq Lifecycle
    /\ caller \subseteq Lifecycle /\ reentrant \subseteq Lifecycle
    /\ opening \subseteq Lifecycle /\ handle \in [Lifecycle -> {"none", "open", "closing", "closed"}]
    /\ materialized \in BOOLEAN /\ abort \subseteq Lifecycle
    /\ scope \in [Lifecycle -> {"none", "live", "unwinding", "gone"}] /\ turn \subseteq Lifecycle
    /\ registered \in Lifecycle \union {None}
    /\ dp \in [Lifecycle -> {"none", "publication", "idle", "scope", "closing", "done"}]
    /\ byOwner \subseteq Lifecycle /\ factory \in {"active", "disposing", "disposed"} /\ rejected \in BOOLEAN
    /\ owner \in [Lifecycle -> {"active", "unloading", "awaiting", "unwinding", "unloaded"}]

\* "Taking write ownership FIRST excludes a concurrent resume of the same id":
\* whoever holds the handle finds the registries free, so enter() cannot collide,
\* and what is registered has its write path.
RegistryFollowsHandle ==
    \A l \in Lifecycle : /\ handle[l] \in {"open", "closing"} => registered \in {None, l}
                         /\ registered = l => handle[l] \in {"open", "closing"}

\* A create or resume that fails has released the registries, its scope and
\* its handle, so that the identity can be used again; only a handle that the
\* backend delivers late is still to be closed, and only a scope whose caller
\* aborted while it was minted still to be unwound.
FailureLeavesNothing ==
    \A l \in Lifecycle : pc[l] = "failed" =>
        /\ registered # l /\ l \notin turn
        /\ handle[l] # "open" /\ (scope[l] # "none" => handle[l] = "closed")
        /\ \/ scope[l] \in {"none", "gone"}
           \/ l \in reentrant /\ l \in abort /\ dp[l] \in {"idle", "scope"}

\* A call that returns an agent returns one nobody has begun to tear down.
ReturnsLiveAgents ==
    [][\A l \in Lifecycle : pc[l] # "published" /\ pc'[l] = "published" =>
          dp'[l] = "none" /\ registered' = l /\ factory' = "active"]_vars

\* When the factory's disposal has settled, every agent is being torn down; if
\* no disposal it joined rejected, nothing of them runs: no agent, no turn, no
\* scope, and no continuation but an untracked create(), which holds nothing
\* more than the handle it has just been given.
FactoryQuiescent ==
    factory = "disposed" =>
        \A l \in Lifecycle :
            /\ scope[l] # "none" => dp[l] # "none" /\ l \in abort
            /\ ~rejected => /\ registered # l /\ l \notin turn /\ scope[l] \in {"none", "gone"}
                            /\ l \in direct \/ pc[l] \in {"idle", "published", "failed"}
                            /\ handle[l] = "open" => l \in direct /\ scope[l] = "none"

\* Every teardown ends, whoever starts it and wherever it meets the creation.
TeardownSettles ==
    \A l \in Lifecycle :
        /\ l \in abort ~> (pc[l] \in {"published", "failed"} /\ dp[l] \in {"none", "done"})
        /\ owner[l] = "unloading" ~> owner[l] = "unloaded"

=============================================================================
