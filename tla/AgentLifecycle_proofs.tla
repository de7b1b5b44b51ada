----------------------- MODULE AgentLifecycle_proofs -----------------------
(***************************************************************************)
(* Proofs about AgentLifecycle, for any number of lifecycles that compete  *)
(* for one identity.                                                       *)
(***************************************************************************)
EXTENDS AgentLifecycle, TLAPS

Kinds == {"create", "createAgent", "resume"}
Prepared == {"setup", "appending", "announcing", "rollback", "published"}

\* What a create coroutine has acquired, by where it is.  `failed` is reached
\* with nothing prepared, with everything disposed of, or, if the caller aborted
\* while the scope was minted, with the disposal begun and the handle closed.
CreateInv ==
    \A l \in Lifecycle :
        /\ pc[l] \in {"idle", "opening"} => handle[l] = "none"
        /\ pc[l] \in {"idle", "opening", "opened"} => scope[l] = "none" /\ dp[l] = "none"
        /\ l \in opening => pc[l] \in {"opening", "failed"} /\ handle[l] = "none" /\ scope[l] = "none"
        /\ pc[l] = "opened" => handle[l] = "open"
        /\ pc[l] = "discarding" =>
              \/ handle[l] = "closing" /\ scope[l] = "none" /\ dp[l] = "none"
              \/ l \in reentrant
        /\ l \in reentrant => /\ pc[l] \in {"discarding", "failed"} /\ scope[l] # "none"
                             /\ dp[l] \notin {"none", "publication"}
        /\ pc[l] \in Prepared => scope[l] # "none"
        /\ pc[l] = "failed" => /\ handle[l] # "open"
                               /\ scope[l] = "none" => dp[l] = "none"
                               /\ scope[l] # "none" => handle[l] = "closed"
                               /\ scope[l] # "none" => dp[l] = "done" \/ l \in reentrant

\* The dispose coroutine: it is the only one to close a prepared lifecycle's
\* handle, but for a creation aborted while it prepared, and it finds the
\* machine idle first.
DisposeInv ==
    \A l \in Lifecycle :
        /\ scope[l] # "none" /\ l \notin reentrant =>
              (handle[l] = IF dp[l] = "closing" THEN "closing" ELSE IF dp[l] = "done" THEN "closed" ELSE "open")
        /\ l \in reentrant => handle[l] \in {"closing", "closed"} /\ (dp[l] = "done" => handle[l] = "closed")
        /\ dp[l] # "none" => l \in abort /\ scope[l] # "none"
        /\ dp[l] \in {"closing", "done"} => scope[l] = "gone"
        /\ pc[l] \in {"setup", "appending", "announcing"} => dp[l] \in {"none", "publication", "idle"}
        /\ pc[l] = "rollback" => dp[l] # "none"
        /\ l \in turn => pc[l] = "published" /\ dp[l] \in {"none", "publication", "idle"}

RegistryInv ==
    \A l \in Lifecycle :
        /\ registered = l => pc[l] \in {"announcing", "rollback", "published"} /\ dp[l] # "done"
        /\ pc[l] = "announcing" => registered = l
        /\ pc[l] = "published" /\ dp[l] # "done" => registered = l
        /\ \A m \in Lifecycle : handle[l] \in {"open", "closing"} /\ handle[m] \in {"open", "closing"} => l = m

\* Disposal of the factory reaches everything that was prepared, and waits for
\* everything it joins unless a disposal rejects.
FactoryInv ==
    /\ factory # "active" => \A l \in Lifecycle : scope[l] # "none" => dp[l] # "none"
    /\ factory = "disposed" => AllJoined \/ rejected

LifecycleInv == TypeOK /\ CreateInv /\ DisposeInv /\ RegistryInv /\ FactoryInv

\* The initial state satisfies the invariant.
LEMMA LifecycleInit == Init => LifecycleInv
<1> SUFFICES ASSUME Init PROVE LifecycleInv
  OBVIOUS
<1> USE LifecycleAssumption DEF Init
<1>1. TypeOK
  BY DEF TypeOK
<1>2. CreateInv
  BY DEF CreateInv, Prepared
<1>3. DisposeInv
  BY DEF DisposeInv
<1>4. RegistryInv
  BY DEF RegistryInv
<1>5. FactoryInv
  BY DEF FactoryInv
<1>6. QED
  BY <1>1, <1>2, <1>3, <1>4, <1>5 DEF LifecycleInv

\* Every step preserves the types.
LEMMA TypeStep ==
  ASSUME TypeOK, [Next]_vars
  PROVE  TypeOK'
<1> USE LifecycleAssumption DEF TypeOK, callVars, createVars, agentVars, disposeVars, fiberVars
<1>1. ASSUME NEW l \in Lifecycle, NEW kind \in Kinds, Call(l, kind) PROVE TypeOK'
  BY <1>1 DEF Call, Goto
<1>2. ASSUME NEW l \in Lifecycle, CallerAborts(l) PROVE TypeOK'
  BY <1>2 DEF CallerAborts
<1>3. ASSUME NEW l \in Lifecycle, Opened(l) PROVE TypeOK'
  BY <1>3 DEF Opened, Goto, Claimed
<1>4. ASSUME NEW l \in Lifecycle, OpenFails(l) PROVE TypeOK'
  BY <1>4 DEF OpenFails, Goto
<1>5. ASSUME NEW l \in Lifecycle, Prepare(l) PROVE TypeOK'
  BY <1>5 DEF Prepare, Goto, MayPrepare
<1>30. ASSUME NEW l \in Lifecycle, PrepareAborted(l) PROVE TypeOK'
  BY <1>30 DEF PrepareAborted, Goto, MayPrepare, Disposing, FirstStop
<1>6. ASSUME NEW l \in Lifecycle, PrepareFails(l) PROVE TypeOK'
  BY <1>6 DEF PrepareFails, Goto, MayPrepare
<1>7. ASSUME NEW l \in Lifecycle, Discarded(l) PROVE TypeOK'
  BY <1>7 DEF Discarded, Goto
<1>8. ASSUME NEW l \in Lifecycle, Abandon(l) PROVE TypeOK'
  BY <1>8 DEF Abandon, Goto, OpeningAborted
<1>9. ASSUME NEW l \in Lifecycle, AbandonedClosed(l) PROVE TypeOK'
  BY <1>9 DEF AbandonedClosed
<1>10. ASSUME NEW l \in Lifecycle, Publish(l) PROVE TypeOK'
  BY <1>10 DEF Publish, Goto
<1>11. ASSUME NEW l \in Lifecycle, Announced(l) PROVE TypeOK'
  BY <1>11 DEF Announced, Goto, AssertLive
<1>12. ASSUME NEW l \in Lifecycle, InitializeFails(l) PROVE TypeOK'
  BY <1>12 DEF InitializeFails, Goto
<1>13. ASSUME NEW l \in Lifecycle, CreateFails(l) PROVE TypeOK'
  BY <1>13 DEF CreateFails, Goto, RolledBack
<1>14. ASSUME NEW l \in Lifecycle, SetupDone(l) PROVE TypeOK'
  BY <1>14 DEF SetupDone, Goto
<1>15. ASSUME NEW l \in Lifecycle, TurnStarts(l) PROVE TypeOK'
  BY <1>15 DEF TurnStarts
<1>16. ASSUME NEW l \in Lifecycle, PublicationOver(l) PROVE TypeOK'
  BY <1>16 DEF PublicationOver
<1>17. ASSUME NEW l \in Lifecycle, MachineIdle(l) PROVE TypeOK'
  BY <1>17 DEF MachineIdle, Busy
<1>18. ASSUME NEW l \in Lifecycle, ScopeUnwound(l) PROVE TypeOK'
  BY <1>18 DEF ScopeUnwound
<1>19. ASSUME NEW l \in Lifecycle, ClosesHandle(l) PROVE TypeOK'
  BY <1>19 DEF ClosesHandle
<1>20. ASSUME NEW l \in Lifecycle, Disposed(l) PROVE TypeOK'
  BY <1>20 DEF Disposed, Detached
<1>21. ASSUME NEW l \in Lifecycle, TurnEnds(l) PROVE TypeOK'
  BY <1>21 DEF TurnEnds
<1>22. ASSUME NEW l \in Lifecycle, DisposeHandle(l) PROVE TypeOK'
  BY <1>22 DEF DisposeHandle, Disposing, FirstStop
<1>23. ASSUME NEW l \in Lifecycle, OwnerUnloads(l) PROVE TypeOK'
  BY <1>23 DEF OwnerUnloads
<1>24. ASSUME NEW l \in Lifecycle, OwnerDisposes(l) PROVE TypeOK'
  BY <1>24 DEF OwnerDisposes, Disposing, FirstStop, Followed
<1>25. ASSUME NEW l \in Lifecycle, OwnerFindsDisposal(l) PROVE TypeOK'
  BY <1>25 DEF OwnerFindsDisposal, Followed
<1>26. ASSUME NEW l \in Lifecycle, OwnerUnloaded(l) PROVE TypeOK'
  BY <1>26 DEF OwnerUnloaded, Followed
<1>27. CASE FactoryDisposes
  BY <1>27 DEF FactoryDisposes, Disposing, FirstStop, Followed
<1>28. CASE FactoryDisposed
  BY <1>28 DEF FactoryDisposed, AllJoined
<1>29. CASE UNCHANGED vars
  BY <1>29 DEF vars
<1>31. QED
  BY <1>1, <1>2, <1>3, <1>4, <1>5, <1>6, <1>7, <1>8, <1>9, <1>10, <1>11, <1>12, <1>13, <1>14, <1>15,
     <1>16, <1>17, <1>18, <1>19, <1>20, <1>21, <1>22, <1>23, <1>24, <1>25, <1>26, <1>27, <1>28, <1>29, <1>30
     DEF Kinds, Next, Creation, Backend, Disposal, Unload

\* What a create coroutine holds follows its place.
LEMMA CreateStep ==
  ASSUME TypeOK, CreateInv, DisposeInv, [Next]_vars
  PROVE  CreateInv'
<1> USE LifecycleAssumption DEF TypeOK, CreateInv, DisposeInv, Prepared, callVars, createVars, agentVars, disposeVars, fiberVars
<1>1. ASSUME NEW l \in Lifecycle, NEW kind \in Kinds, Call(l, kind) PROVE CreateInv'
  BY <1>1 DEF Call, Goto
<1>2. ASSUME NEW l \in Lifecycle, CallerAborts(l) PROVE CreateInv'
  BY <1>2 DEF CallerAborts
<1>3. ASSUME NEW l \in Lifecycle, Opened(l) PROVE CreateInv'
  BY <1>3 DEF Opened, Goto, Claimed
<1>4. ASSUME NEW l \in Lifecycle, OpenFails(l) PROVE CreateInv'
  BY <1>4 DEF OpenFails, Goto
<1>5. ASSUME NEW l \in Lifecycle, Prepare(l) PROVE CreateInv'
  BY <1>5 DEF Prepare, Goto, MayPrepare
<1>30. ASSUME NEW l \in Lifecycle, PrepareAborted(l) PROVE CreateInv'
  BY <1>30 DEF PrepareAborted, Goto, MayPrepare, Disposing, FirstStop
<1>6. ASSUME NEW l \in Lifecycle, PrepareFails(l) PROVE CreateInv'
  BY <1>6 DEF PrepareFails, Goto, MayPrepare
<1>7. ASSUME NEW l \in Lifecycle, Discarded(l) PROVE CreateInv'
  BY <1>7 DEF Discarded, Goto
<1>8. ASSUME NEW l \in Lifecycle, Abandon(l) PROVE CreateInv'
  BY <1>8 DEF Abandon, Goto, OpeningAborted
<1>9. ASSUME NEW l \in Lifecycle, AbandonedClosed(l) PROVE CreateInv'
  BY <1>9 DEF AbandonedClosed
<1>10. ASSUME NEW l \in Lifecycle, Publish(l) PROVE CreateInv'
  BY <1>10 DEF Publish, Goto
<1>11. ASSUME NEW l \in Lifecycle, Announced(l) PROVE CreateInv'
  BY <1>11 DEF Announced, Goto, AssertLive
<1>12. ASSUME NEW l \in Lifecycle, InitializeFails(l) PROVE CreateInv'
  BY <1>12 DEF InitializeFails, Goto
<1>13. ASSUME NEW l \in Lifecycle, CreateFails(l) PROVE CreateInv'
  BY <1>13 DEF CreateFails, Goto, RolledBack
<1>14. ASSUME NEW l \in Lifecycle, SetupDone(l) PROVE CreateInv'
  BY <1>14 DEF SetupDone, Goto
<1>15. ASSUME NEW l \in Lifecycle, TurnStarts(l) PROVE CreateInv'
  BY <1>15 DEF TurnStarts
<1>16. ASSUME NEW l \in Lifecycle, PublicationOver(l) PROVE CreateInv'
  BY <1>16 DEF PublicationOver
<1>17. ASSUME NEW l \in Lifecycle, MachineIdle(l) PROVE CreateInv'
  BY <1>17 DEF MachineIdle, Busy
<1>18. ASSUME NEW l \in Lifecycle, ScopeUnwound(l) PROVE CreateInv'
  BY <1>18 DEF ScopeUnwound
<1>19. ASSUME NEW l \in Lifecycle, ClosesHandle(l) PROVE CreateInv'
  BY <1>19 DEF ClosesHandle
<1>20. ASSUME NEW l \in Lifecycle, Disposed(l) PROVE CreateInv'
  BY <1>20 DEF Disposed, Detached
<1>21. ASSUME NEW l \in Lifecycle, TurnEnds(l) PROVE CreateInv'
  BY <1>21 DEF TurnEnds
<1>22. ASSUME NEW l \in Lifecycle, DisposeHandle(l) PROVE CreateInv'
  BY <1>22 DEF DisposeHandle, Disposing, FirstStop
<1>23. ASSUME NEW l \in Lifecycle, OwnerUnloads(l) PROVE CreateInv'
  BY <1>23 DEF OwnerUnloads
<1>24. ASSUME NEW l \in Lifecycle, OwnerDisposes(l) PROVE CreateInv'
  BY <1>24 DEF OwnerDisposes, Disposing, FirstStop, Followed
<1>25. ASSUME NEW l \in Lifecycle, OwnerFindsDisposal(l) PROVE CreateInv'
  BY <1>25 DEF OwnerFindsDisposal, Followed
<1>26. ASSUME NEW l \in Lifecycle, OwnerUnloaded(l) PROVE CreateInv'
  BY <1>26 DEF OwnerUnloaded, Followed
<1>27. CASE FactoryDisposes
  BY <1>27 DEF FactoryDisposes, Disposing, FirstStop, Followed
<1>28. CASE FactoryDisposed
  BY <1>28 DEF FactoryDisposed, AllJoined
<1>29. CASE UNCHANGED vars
  BY <1>29 DEF vars
<1>31. QED
  BY <1>1, <1>2, <1>3, <1>4, <1>5, <1>6, <1>7, <1>8, <1>9, <1>10, <1>11, <1>12, <1>13, <1>14, <1>15,
     <1>16, <1>17, <1>18, <1>19, <1>20, <1>21, <1>22, <1>23, <1>24, <1>25, <1>26, <1>27, <1>28, <1>29, <1>30
     DEF Kinds, Next, Creation, Backend, Disposal, Unload

\* The dispose coroutine owns the handle and finds the machine idle.
LEMMA DisposeStep ==
  ASSUME TypeOK, CreateInv, DisposeInv, [Next]_vars
  PROVE  DisposeInv'
<1> USE LifecycleAssumption DEF TypeOK, CreateInv, DisposeInv, Prepared, callVars, createVars, agentVars, disposeVars, fiberVars
<1>1. ASSUME NEW l \in Lifecycle, NEW kind \in Kinds, Call(l, kind) PROVE DisposeInv'
  BY <1>1 DEF Call, Goto
<1>2. ASSUME NEW l \in Lifecycle, CallerAborts(l) PROVE DisposeInv'
  BY <1>2 DEF CallerAborts
<1>3. ASSUME NEW l \in Lifecycle, Opened(l) PROVE DisposeInv'
  BY <1>3 DEF Opened, Goto, Claimed
<1>4. ASSUME NEW l \in Lifecycle, OpenFails(l) PROVE DisposeInv'
  BY <1>4 DEF OpenFails, Goto
<1>5. ASSUME NEW l \in Lifecycle, Prepare(l) PROVE DisposeInv'
  BY <1>5 DEF Prepare, Goto, MayPrepare
<1>30. ASSUME NEW l \in Lifecycle, PrepareAborted(l) PROVE DisposeInv'
  BY <1>30 DEF PrepareAborted, Goto, MayPrepare, Disposing, FirstStop
<1>6. ASSUME NEW l \in Lifecycle, PrepareFails(l) PROVE DisposeInv'
  BY <1>6 DEF PrepareFails, Goto, MayPrepare
<1>7. ASSUME NEW l \in Lifecycle, Discarded(l) PROVE DisposeInv'
  BY <1>7 DEF Discarded, Goto
<1>8. ASSUME NEW l \in Lifecycle, Abandon(l) PROVE DisposeInv'
  BY <1>8 DEF Abandon, Goto, OpeningAborted
<1>9. ASSUME NEW l \in Lifecycle, AbandonedClosed(l) PROVE DisposeInv'
  BY <1>9 DEF AbandonedClosed
<1>10. ASSUME NEW l \in Lifecycle, Publish(l) PROVE DisposeInv'
  BY <1>10 DEF Publish, Goto
<1>11. ASSUME NEW l \in Lifecycle, Announced(l) PROVE DisposeInv'
  BY <1>11 DEF Announced, Goto, AssertLive
<1>12. ASSUME NEW l \in Lifecycle, InitializeFails(l) PROVE DisposeInv'
  BY <1>12 DEF InitializeFails, Goto
<1>13. ASSUME NEW l \in Lifecycle, CreateFails(l) PROVE DisposeInv'
  BY <1>13 DEF CreateFails, Goto, RolledBack
<1>14. ASSUME NEW l \in Lifecycle, SetupDone(l) PROVE DisposeInv'
  BY <1>14 DEF SetupDone, Goto
<1>15. ASSUME NEW l \in Lifecycle, TurnStarts(l) PROVE DisposeInv'
  BY <1>15 DEF TurnStarts
<1>16. ASSUME NEW l \in Lifecycle, PublicationOver(l) PROVE DisposeInv'
  BY <1>16 DEF PublicationOver
<1>17. ASSUME NEW l \in Lifecycle, MachineIdle(l) PROVE DisposeInv'
  BY <1>17 DEF MachineIdle, Busy
<1>18. ASSUME NEW l \in Lifecycle, ScopeUnwound(l) PROVE DisposeInv'
  BY <1>18 DEF ScopeUnwound
<1>19. ASSUME NEW l \in Lifecycle, ClosesHandle(l) PROVE DisposeInv'
  BY <1>19 DEF ClosesHandle
<1>20. ASSUME NEW l \in Lifecycle, Disposed(l) PROVE DisposeInv'
  BY <1>20 DEF Disposed, Detached
<1>21. ASSUME NEW l \in Lifecycle, TurnEnds(l) PROVE DisposeInv'
  BY <1>21 DEF TurnEnds
<1>22. ASSUME NEW l \in Lifecycle, DisposeHandle(l) PROVE DisposeInv'
  BY <1>22 DEF DisposeHandle, Disposing, FirstStop
<1>23. ASSUME NEW l \in Lifecycle, OwnerUnloads(l) PROVE DisposeInv'
  BY <1>23 DEF OwnerUnloads
<1>24. ASSUME NEW l \in Lifecycle, OwnerDisposes(l) PROVE DisposeInv'
  BY <1>24 DEF OwnerDisposes, Disposing, FirstStop, Followed
<1>25. ASSUME NEW l \in Lifecycle, OwnerFindsDisposal(l) PROVE DisposeInv'
  BY <1>25 DEF OwnerFindsDisposal, Followed
<1>26. ASSUME NEW l \in Lifecycle, OwnerUnloaded(l) PROVE DisposeInv'
  BY <1>26 DEF OwnerUnloaded, Followed
<1>27. CASE FactoryDisposes
  BY <1>27 DEF FactoryDisposes, Disposing, FirstStop, Followed
<1>28. CASE FactoryDisposed
  BY <1>28 DEF FactoryDisposed, AllJoined
<1>29. CASE UNCHANGED vars
  BY <1>29 DEF vars
<1>31. QED
  BY <1>1, <1>2, <1>3, <1>4, <1>5, <1>6, <1>7, <1>8, <1>9, <1>10, <1>11, <1>12, <1>13, <1>14, <1>15,
     <1>16, <1>17, <1>18, <1>19, <1>20, <1>21, <1>22, <1>23, <1>24, <1>25, <1>26, <1>27, <1>28, <1>29, <1>30
     DEF Kinds, Next, Creation, Backend, Disposal, Unload

\* One lifecycle at a time holds the handle, and only it is registered.
LEMMA RegistryStep ==
  ASSUME TypeOK, CreateInv, DisposeInv, RegistryInv, [Next]_vars
  PROVE  RegistryInv'
<1> USE LifecycleAssumption DEF TypeOK, CreateInv, DisposeInv, RegistryInv, Prepared, callVars, createVars, agentVars, disposeVars, fiberVars
<1>1. ASSUME NEW l \in Lifecycle, NEW kind \in Kinds, Call(l, kind) PROVE RegistryInv'
  BY <1>1 DEF Call, Goto
<1>2. ASSUME NEW l \in Lifecycle, CallerAborts(l) PROVE RegistryInv'
  BY <1>2 DEF CallerAborts
<1>3. ASSUME NEW l \in Lifecycle, Opened(l) PROVE RegistryInv'
  BY <1>3 DEF Opened, Goto, Claimed
<1>4. ASSUME NEW l \in Lifecycle, OpenFails(l) PROVE RegistryInv'
  BY <1>4 DEF OpenFails, Goto
<1>5. ASSUME NEW l \in Lifecycle, Prepare(l) PROVE RegistryInv'
  BY <1>5 DEF Prepare, Goto, MayPrepare
<1>30. ASSUME NEW l \in Lifecycle, PrepareAborted(l) PROVE RegistryInv'
  BY <1>30 DEF PrepareAborted, Goto, MayPrepare, Disposing, FirstStop
<1>6. ASSUME NEW l \in Lifecycle, PrepareFails(l) PROVE RegistryInv'
  BY <1>6 DEF PrepareFails, Goto, MayPrepare
<1>7. ASSUME NEW l \in Lifecycle, Discarded(l) PROVE RegistryInv'
  BY <1>7 DEF Discarded, Goto
<1>8. ASSUME NEW l \in Lifecycle, Abandon(l) PROVE RegistryInv'
  BY <1>8 DEF Abandon, Goto, OpeningAborted
<1>9. ASSUME NEW l \in Lifecycle, AbandonedClosed(l) PROVE RegistryInv'
  BY <1>9 DEF AbandonedClosed
<1>10. ASSUME NEW l \in Lifecycle, Publish(l) PROVE RegistryInv'
  BY <1>10 DEF Publish, Goto
<1>11. ASSUME NEW l \in Lifecycle, Announced(l) PROVE RegistryInv'
  BY <1>11 DEF Announced, Goto, AssertLive
<1>12. ASSUME NEW l \in Lifecycle, InitializeFails(l) PROVE RegistryInv'
  BY <1>12 DEF InitializeFails, Goto
<1>13. ASSUME NEW l \in Lifecycle, CreateFails(l) PROVE RegistryInv'
  BY <1>13 DEF CreateFails, Goto, RolledBack
<1>14. ASSUME NEW l \in Lifecycle, SetupDone(l) PROVE RegistryInv'
  BY <1>14 DEF SetupDone, Goto
<1>15. ASSUME NEW l \in Lifecycle, TurnStarts(l) PROVE RegistryInv'
  BY <1>15 DEF TurnStarts
<1>16. ASSUME NEW l \in Lifecycle, PublicationOver(l) PROVE RegistryInv'
  BY <1>16 DEF PublicationOver
<1>17. ASSUME NEW l \in Lifecycle, MachineIdle(l) PROVE RegistryInv'
  BY <1>17 DEF MachineIdle, Busy
<1>18. ASSUME NEW l \in Lifecycle, ScopeUnwound(l) PROVE RegistryInv'
  BY <1>18 DEF ScopeUnwound
<1>19. ASSUME NEW l \in Lifecycle, ClosesHandle(l) PROVE RegistryInv'
  BY <1>19 DEF ClosesHandle
<1>20. ASSUME NEW l \in Lifecycle, Disposed(l) PROVE RegistryInv'
  BY <1>20 DEF Disposed, Detached
<1>21. ASSUME NEW l \in Lifecycle, TurnEnds(l) PROVE RegistryInv'
  BY <1>21 DEF TurnEnds
<1>22. ASSUME NEW l \in Lifecycle, DisposeHandle(l) PROVE RegistryInv'
  BY <1>22 DEF DisposeHandle, Disposing, FirstStop
<1>23. ASSUME NEW l \in Lifecycle, OwnerUnloads(l) PROVE RegistryInv'
  BY <1>23 DEF OwnerUnloads
<1>24. ASSUME NEW l \in Lifecycle, OwnerDisposes(l) PROVE RegistryInv'
  BY <1>24 DEF OwnerDisposes, Disposing, FirstStop, Followed
<1>25. ASSUME NEW l \in Lifecycle, OwnerFindsDisposal(l) PROVE RegistryInv'
  BY <1>25 DEF OwnerFindsDisposal, Followed
<1>26. ASSUME NEW l \in Lifecycle, OwnerUnloaded(l) PROVE RegistryInv'
  BY <1>26 DEF OwnerUnloaded, Followed
<1>27. CASE FactoryDisposes
  BY <1>27 DEF FactoryDisposes, Disposing, FirstStop, Followed
<1>28. CASE FactoryDisposed
  BY <1>28 DEF FactoryDisposed, AllJoined
<1>29. CASE UNCHANGED vars
  BY <1>29 DEF vars
<1>31. QED
  BY <1>1, <1>2, <1>3, <1>4, <1>5, <1>6, <1>7, <1>8, <1>9, <1>10, <1>11, <1>12, <1>13, <1>14, <1>15,
     <1>16, <1>17, <1>18, <1>19, <1>20, <1>21, <1>22, <1>23, <1>24, <1>25, <1>26, <1>27, <1>28, <1>29, <1>30
     DEF Kinds, Next, Creation, Backend, Disposal, Unload

\* The factory's disposal reaches whatever is prepared, and nothing starts after it.
LEMMA FactoryStep ==
  ASSUME TypeOK, CreateInv, DisposeInv, FactoryInv, [Next]_vars
  PROVE  FactoryInv'
<1> USE LifecycleAssumption DEF TypeOK, CreateInv, DisposeInv, FactoryInv, Prepared, AllJoined, callVars, createVars, agentVars, disposeVars, fiberVars
<1>1. ASSUME NEW l \in Lifecycle, NEW kind \in Kinds, Call(l, kind) PROVE FactoryInv'
  BY <1>1 DEF Call, Goto
<1>2. ASSUME NEW l \in Lifecycle, CallerAborts(l) PROVE FactoryInv'
  BY <1>2 DEF CallerAborts
<1>3. ASSUME NEW l \in Lifecycle, Opened(l) PROVE FactoryInv'
  BY <1>3 DEF Opened, Goto, Claimed
<1>4. ASSUME NEW l \in Lifecycle, OpenFails(l) PROVE FactoryInv'
  BY <1>4 DEF OpenFails, Goto
<1>5. ASSUME NEW l \in Lifecycle, Prepare(l) PROVE FactoryInv'
  BY <1>5 DEF Prepare, Goto, MayPrepare
<1>30. ASSUME NEW l \in Lifecycle, PrepareAborted(l) PROVE FactoryInv'
  BY <1>30 DEF PrepareAborted, Goto, MayPrepare, Disposing, FirstStop
<1>6. ASSUME NEW l \in Lifecycle, PrepareFails(l) PROVE FactoryInv'
  BY <1>6 DEF PrepareFails, Goto, MayPrepare
<1>7. ASSUME NEW l \in Lifecycle, Discarded(l) PROVE FactoryInv'
  BY <1>7 DEF Discarded, Goto
<1>8. ASSUME NEW l \in Lifecycle, Abandon(l) PROVE FactoryInv'
  BY <1>8 DEF Abandon, Goto, OpeningAborted
<1>9. ASSUME NEW l \in Lifecycle, AbandonedClosed(l) PROVE FactoryInv'
  BY <1>9 DEF AbandonedClosed
<1>10. ASSUME NEW l \in Lifecycle, Publish(l) PROVE FactoryInv'
  BY <1>10 DEF Publish, Goto
<1>11. ASSUME NEW l \in Lifecycle, Announced(l) PROVE FactoryInv'
  BY <1>11 DEF Announced, Goto, AssertLive
<1>12. ASSUME NEW l \in Lifecycle, InitializeFails(l) PROVE FactoryInv'
  BY <1>12 DEF InitializeFails, Goto
<1>13. ASSUME NEW l \in Lifecycle, CreateFails(l) PROVE FactoryInv'
  BY <1>13 DEF CreateFails, Goto, RolledBack
<1>14. ASSUME NEW l \in Lifecycle, SetupDone(l) PROVE FactoryInv'
  BY <1>14 DEF SetupDone, Goto
<1>15. ASSUME NEW l \in Lifecycle, TurnStarts(l) PROVE FactoryInv'
  BY <1>15 DEF TurnStarts
<1>16. ASSUME NEW l \in Lifecycle, PublicationOver(l) PROVE FactoryInv'
  BY <1>16 DEF PublicationOver
<1>17. ASSUME NEW l \in Lifecycle, MachineIdle(l) PROVE FactoryInv'
  BY <1>17 DEF MachineIdle, Busy
<1>18. ASSUME NEW l \in Lifecycle, ScopeUnwound(l) PROVE FactoryInv'
  BY <1>18 DEF ScopeUnwound
<1>19. ASSUME NEW l \in Lifecycle, ClosesHandle(l) PROVE FactoryInv'
  BY <1>19 DEF ClosesHandle
<1>20. ASSUME NEW l \in Lifecycle, Disposed(l) PROVE FactoryInv'
  <2>1. /\ UNCHANGED <<pc, direct, scope, factory>> /\ dp' = [dp EXCEPT ![l] = "done"]
        /\ factory # "disposing" => rejected' = rejected
    BY <1>20 DEF Disposed
  <2>2. \A k \in Lifecycle : (dp[k] # "none" => dp'[k] # "none") /\ (dp[k] = "done" => dp'[k] = "done")
    BY <2>1
  <2>3. QED
    BY <2>1, <2>2
<1>21. ASSUME NEW l \in Lifecycle, TurnEnds(l) PROVE FactoryInv'
  BY <1>21 DEF TurnEnds
<1>22. ASSUME NEW l \in Lifecycle, DisposeHandle(l) PROVE FactoryInv'
  BY <1>22 DEF DisposeHandle, Disposing, FirstStop
<1>23. ASSUME NEW l \in Lifecycle, OwnerUnloads(l) PROVE FactoryInv'
  BY <1>23 DEF OwnerUnloads
<1>24. ASSUME NEW l \in Lifecycle, OwnerDisposes(l) PROVE FactoryInv'
  BY <1>24 DEF OwnerDisposes, Disposing, FirstStop, Followed
<1>25. ASSUME NEW l \in Lifecycle, OwnerFindsDisposal(l) PROVE FactoryInv'
  BY <1>25 DEF OwnerFindsDisposal, Followed
<1>26. ASSUME NEW l \in Lifecycle, OwnerUnloaded(l) PROVE FactoryInv'
  BY <1>26 DEF OwnerUnloaded, Followed
<1>27. CASE FactoryDisposes
  BY <1>27 DEF FactoryDisposes, Disposing, FirstStop, Followed
<1>28. CASE FactoryDisposed
  BY <1>28 DEF FactoryDisposed, AllJoined
<1>29. CASE UNCHANGED vars
  BY <1>29 DEF vars
<1>31. QED
  BY <1>1, <1>2, <1>3, <1>4, <1>5, <1>6, <1>7, <1>8, <1>9, <1>10, <1>11, <1>12, <1>13, <1>14, <1>15,
     <1>16, <1>17, <1>18, <1>19, <1>20, <1>21, <1>22, <1>23, <1>24, <1>25, <1>26, <1>27, <1>28, <1>29, <1>30
     DEF Kinds, Next, Creation, Backend, Disposal, Unload

\* The inductive invariant, for any number of competing lifecycles.
THEOREM LifecycleInvariant == Spec => []LifecycleInv
<1>1. LifecycleInv /\ [Next]_vars => LifecycleInv'
  BY TypeStep, CreateStep, DisposeStep, RegistryStep, FactoryStep DEF LifecycleInv
<1>2. QED
  BY LifecycleInit, <1>1, PTL DEF Spec

\* Every reachable state has the types of TypeOK.
THEOREM Typing == Spec => []TypeOK
<1>1. LifecycleInv => TypeOK
  BY DEF LifecycleInv
<1>2. QED
  BY LifecycleInvariant, <1>1, PTL

\* The registries belong to whoever holds the write handle.
THEOREM RegistryAlwaysFollowsHandle == Spec => []RegistryFollowsHandle
<1>1. ASSUME LifecycleInv PROVE RegistryFollowsHandle
  <2> SUFFICES ASSUME NEW l \in Lifecycle
               PROVE  /\ handle[l] \in {"open", "closing"} => registered \in {None, l}
                      /\ registered = l => handle[l] \in {"open", "closing"}
    BY DEF RegistryFollowsHandle
  <2> USE <1>1 DEF LifecycleInv, TypeOK, DisposeInv, RegistryInv, CreateInv, Prepared
  <2>1. ASSUME NEW m \in Lifecycle, registered = m PROVE handle[m] \in {"open", "closing"}
    BY <2>1
  <2>2. ASSUME handle[l] \in {"open", "closing"} PROVE registered \in {None, l}
    BY <2>1, <2>2
  <2>3. QED
    BY <2>1, <2>2
<1>2. QED
  BY LifecycleInvariant, <1>1, PTL

\* A failed create or resume has given back what it acquired.
THEOREM FailureAlwaysCleans == Spec => []FailureLeavesNothing
<1>1. LifecycleInv => FailureLeavesNothing
  BY DEF LifecycleInv, TypeOK, CreateInv, DisposeInv, RegistryInv, FailureLeavesNothing
<1>2. QED
  BY LifecycleInvariant, <1>1, PTL

\* The factory's disposal is quiescence.
THEOREM FactoryDisposalIsQuiescent == Spec => []FactoryQuiescent
<1>1. LifecycleInv => FactoryQuiescent
  BY DEF LifecycleInv, TypeOK, CreateInv, DisposeInv, RegistryInv, FactoryInv, AllJoined, FactoryQuiescent,
         Prepared
<1>2. QED
  BY LifecycleInvariant, <1>1, PTL

\* Who is handed an agent is handed a live, registered one.
THEOREM OnlyLiveAgentsReturned == Spec => ReturnsLiveAgents
<1> DEFINE Returned(l) == pc[l] # "published" /\ pc'[l] = "published" =>
                             dp'[l] = "none" /\ registered' = l /\ factory' = "active"
           Live == \A l \in Lifecycle : Returned(l)
<1>1. ASSUME LifecycleInv, Next PROVE Live
  <2> SUFFICES ASSUME NEW k \in Lifecycle, pc[k] # "published", pc'[k] = "published"
               PROVE  dp'[k] = "none" /\ registered' = k /\ factory' = "active"
    OBVIOUS
  <2> USE <1>1 DEF LifecycleInv, TypeOK, callVars, createVars, agentVars, disposeVars, fiberVars
  <2>1. ASSUME NEW l \in Lifecycle, Creation(l) PROVE Announced(k)
    BY <2>1 DEF Creation, Prepare, PrepareAborted, PrepareFails, Discarded, Abandon, AbandonedClosed, Publish, Announced,
                InitializeFails, CreateFails, Goto
  <2>2. ASSUME NEW l \in Lifecycle, Backend(l) PROVE FALSE
    BY <2>2 DEF Backend, Opened, OpenFails, Goto
  <2>3. ASSUME NEW l \in Lifecycle, Disposal(l) \/ Unload(l) PROVE FALSE
    BY <2>3 DEF Disposal, PublicationOver, MachineIdle, ScopeUnwound, ClosesHandle, Disposed, TurnEnds,
                Unload, OwnerDisposes, OwnerFindsDisposal, OwnerUnloaded
  <2>4. ASSUME NEW l \in Lifecycle,
               \/ \E kind \in {"create", "createAgent", "resume"} : Call(l, kind)
               \/ CallerAborts(l) \/ SetupDone(l) \/ TurnStarts(l) \/ DisposeHandle(l) \/ OwnerUnloads(l)
        PROVE  FALSE
    BY <2>4 DEF Call, CallerAborts, SetupDone, TurnStarts, DisposeHandle, OwnerUnloads, Goto
  <2>5. ~FactoryDisposes /\ ~FactoryDisposed
    BY DEF FactoryDisposes, FactoryDisposed
  <2>6. Announced(k)
    BY <2>1, <2>2, <2>3, <2>4, <2>5 DEF Next
  <2>7. QED
    BY <2>6 DEF Announced, AssertLive, Goto, CreateInv, DisposeInv, RegistryInv, FactoryInv, Prepared
<1>2. ASSUME UNCHANGED vars PROVE Live
  BY <1>2 DEF vars, createVars
<1>3. LifecycleInv /\ [Next]_vars => Live
  BY <1>1, <1>2
<1>4. Spec => [][Live]_vars
  BY LifecycleInvariant, <1>3, PTL DEF Spec
<1>5. QED
  BY <1>4 DEF ReturnsLiveAgents

=============================================================================
