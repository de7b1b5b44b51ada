-------------------------- MODULE LogHandle_proofs --------------------------
(***************************************************************************)
(* Proofs about LogHandle, for any number of events, failures and flush    *)
(* calls.                                                                  *)
(***************************************************************************)
EXTENDS LogHandle, SequenceTheorems, TLAPS

Op == {"drain"} \union Barriers

-----------------------------------------------------------------------------
(* The mutation chain.                                                     *)

\* A turn is in the chain once: the drain's while the shared drain waits, a
\* flush call's while it is queued; only the first turn executes, and only a
\* drain turn holds a batch.
ChainInv ==
    /\ started => chain # <<>>
    /\ batch # <<>> => started /\ chain[1] = "drain"
    /\ \A i, j \in 1 .. Len(chain) : chain[i] = chain[j] => i = j
    /\ \A i \in 1 .. Len(chain) : IF chain[i] = "drain" THEN drain = "waiting" ELSE barrier[chain[i]] = "queued"

\* The first turn, and what is left of the chain when it leaves.
LEMMA TailOfChain ==
    ASSUME Data, chain # <<>>
    PROVE  /\ Head(chain) \in Op /\ Head(chain) = chain[1]
           /\ Tail(chain) \in Seq(Op) /\ Len(Tail(chain)) = Len(chain) - 1 /\ Len(chain) \in Nat \ {0}
           /\ \A i \in 1 .. Len(chain) - 1 : Tail(chain)[i] = chain[i + 1]
<1>1. chain \in Seq(Op)
  BY DEF Data, Op
<1>2. QED
  BY <1>1, HeadTailProperties, EmptySeq

\* What a turn that joins a chain leaves in it.
LEMMA AppendToChain ==
    ASSUME NEW op \in Op, NEW c \in Seq(Op)
    PROVE  /\ Append(c, op) \in Seq(Op) /\ Len(Append(c, op)) = Len(c) + 1 /\ Len(c) \in Nat
           /\ \A i \in 1 .. Len(c) : Append(c, op)[i] = c[i]
           /\ Append(c, op)[Len(c) + 1] = op /\ Append(c, op) # <<>>
  BY AppendProperties, LenProperties

-----------------------------------------------------------------------------
(* Type correctness.                                                       *)

\* A handle, fresh or opened on a stored log, has its type.
LEMMA TypeInit == Init => TypeOK
<1> SUFFICES ASSUME Init PROVE TypeOK
  OBVIOUS
<1>1. Flags
  <2>1. torn \in BOOLEAN /\ materialized \in BOOLEAN
    BY Zenon DEF Init
  <2>2. QED
    BY <2>1, Zenon DEF Init, Flags
<1>2. <<>> \in Seq(Nat) /\ Len(<<>>) = 0 /\ <<1>> \in Seq(Nat) /\ <<2>> \in Seq(Nat) /\ Len(<<1>>) = 1
      /\ Len(<<2>>) = 1 /\ <<>> \in Seq(Op)
  OBVIOUS
<1>3. /\ disk \in {<<>>, <<1>>} /\ recovered \in {<<>>, <<2>>} /\ lease \in {"none", "held"}
  BY Zenon DEF Init
<1>4. published \in Nat
  BY <1>2, <1>3 DEF Init
<1>5. Data
  <2>1. barrier \in [Barriers -> BarrierStates] /\ needs \in [Barriers -> Nat]
    BY DEF Init, BarrierStates
  <2>2. ahead \in 0 .. Len(chain) /\ failures \in 0 .. MaxFailures
    BY <1>2, HandleBounds DEF Init
  <2>3. close \in CloseStates /\ drain \in {"idle", "waiting"} /\ lease \in {"none", "held", "released"}
    BY <1>3 DEF Init, CloseStates
  <2>4. /\ buffered \in Seq(Nat) /\ batch \in Seq(Nat) /\ chain \in Seq(Op)
        /\ disk \in Seq(Nat) /\ recovered \in Seq(Nat)
    BY <1>2, <1>3 DEF Init
  <2>5. QED
    BY <1>4, <2>1, <2>2, <2>3, <2>4 DEF Data, Op
<1>6. QED
  BY <1>1, <1>5 DEF TypeOK

\* Every step keeps the flags.
LEMMA FlagsStep == Flags /\ [Next]_vars => Flags'
<1> SUFFICES ASSUME Flags, [Next]_vars PROVE Flags'
  OBVIOUS
<1> USE DEF fixedVars, bufferVars, diskVars, callerVars, Flags
<1>1. CASE Publish
  BY <1>1, Zenon DEF Publish, Arm
<1>2. CASE TimerFires
  BY <1>2, Zenon DEF TimerFires, DrainLive
<1>3. CASE StartTurn \/ AcquireLease \/ TruncateTail \/ RewriteTail
  BY <1>3, Zenon DEF StartTurn, AcquireLease, TruncateTail, RewriteTail
<1>4. CASE FlushTurnReturns
  BY <1>4, Zenon DEF FlushTurnReturns, TurnEnds
<1>5. CASE WriteBatch
  BY <1>5, Zenon DEF WriteBatch, AfterDrainTurn
<1>6. CASE WriteHeader
  BY <1>6, Zenon DEF WriteHeader, TurnEnds
<1>7. CASE IoFails
  BY <1>7, Zenon DEF IoFails, TurnEnds
<1>8. ASSUME NEW b \in Barriers, FlushCalled(b) \/ FlushQueued(b) PROVE Flags'
  BY <1>8, Zenon DEF FlushCalled, FlushQueued, DrainLive
<1>9. CASE CloseCalled \/ CloseLoops
  BY <1>9, Zenon DEF CloseCalled, CloseLoops, ClosePass, DrainLive
<1>10. CASE ReleaseBegins \/ CloseEnds \/ RevokeEnds \/ Revoke
  BY <1>10, Zenon DEF ReleaseBegins, CloseEnds, RevokeEnds, Revoke, Discarded
<1>11. CASE UNCHANGED vars
  BY <1>11, Zenon DEF vars
<1>12. QED
  BY <1>1, <1>2, <1>3, <1>4, <1>5, <1>6, <1>7, <1>8, <1>9, <1>10, <1>11, Zenon DEF Next, ChainRuns, Closing

\* A drain that is started, or joined.
LEMMA TypeDrainLive ==
    ASSUME Data, DrainLive
    PROVE  /\ drain' \in {"idle", "waiting"}
           /\ chain' \in Seq(Op) /\ Len(chain') \in Nat /\ Len(chain') >= Len(chain) /\ Len(chain) \in Nat
<1>1. chain \in Seq(Op) /\ Len(chain) \in Nat
  BY LenProperties DEF Data, Op
<1>2. \/ drain' = drain /\ chain' = chain
      \/ drain' = "waiting" /\ chain' = Append(chain, "drain")
  BY Zenon DEF DrainLive
<1>3. Append(chain, "drain") \in Seq(Op) /\ Len(Append(chain, "drain")) = Len(chain) + 1
  BY <1>1, AppendToChain DEF Op
<1>4. QED
  <2>1. drain \in {"idle", "waiting"}
    BY DEF Data
  <2>2. CASE drain' = drain /\ chain' = chain
    BY <1>1, <2>1, <2>2
  <2>3. CASE drain' = "waiting" /\ chain' = Append(chain, "drain")
    BY <1>1, <1>3, <2>3
  <2>4. QED
    BY <1>2, <2>2, <2>3

\* Every step keeps the type.
LEMMA DataStep == Data /\ ChainInv /\ [Next]_vars => Data'
<1> SUFFICES ASSUME Data, ChainInv, [Next]_vars PROVE Data'
  OBVIOUS
<1> USE HandleBounds DEF fixedVars, bufferVars, diskVars, callerVars
<1>0. chain \in Seq(Op) /\ Len(chain) \in Nat /\ <<>> \in Seq(Nat)
  BY LenProperties, EmptySeq DEF Data, Op
<1>1. CASE Publish
  BY <1>1 DEF Publish, Arm, Data
<1>2. CASE TimerFires
  BY <1>0, <1>2, TypeDrainLive DEF TimerFires, Data, Op
<1>3. CASE StartTurn
  BY <1>0, <1>3 DEF StartTurn, Data
<1>4. CASE FlushTurnReturns
  BY <1>0, <1>4, TailOfChain DEF FlushTurnReturns, TurnEnds, Ahead, Data, Op, BarrierStates
<1>5. CASE AcquireLease \/ TruncateTail
  BY <1>5 DEF AcquireLease, TruncateTail, Data
<1>6. CASE RewriteTail
  BY <1>0, <1>6, ConcatProperties DEF RewriteTail, Data
<1>7. CASE WriteBatch
  <2>1. started /\ chain # <<>>
    BY <1>7 DEF WriteBatch, Turn, ChainInv
  <2>2. disk' \in Seq(Nat)
    BY <1>7, ConcatProperties DEF WriteBatch, Data
  <2>3. /\ chain' \in Seq(Op) /\ ahead' \in 0 .. Len(chain') /\ batch' \in Seq(Nat)
        /\ drain' \in {"idle", "waiting"} /\ barrier' \in [Barriers -> BarrierStates] /\ close' \in CloseStates
    <3>1. CASE buffered # <<>>
      <4>1. Tail(chain) \in Seq(Op) /\ Len(Tail(chain)) = Len(chain) - 1
        BY <2>1, TailOfChain
      <4>2. Append(Tail(chain), "drain") \in Seq(Op) /\ Len(Append(Tail(chain), "drain")) = Len(chain)
        BY <1>0, <4>1, AppendToChain DEF Op
      <4>3. chain' = Append(Tail(chain), "drain") /\ ahead' = IF ahead > 0 THEN ahead - 1 ELSE 0
        BY <1>7, <3>1 DEF WriteBatch, AfterDrainTurn, Ahead
      <4>4. chain' \in Seq(Op) /\ ahead' \in 0 .. Len(chain')
        BY <1>0, <4>2, <4>3 DEF Data
      <4>5. QED
        BY <1>0, <1>7, <3>1, <4>4 DEF WriteBatch, AfterDrainTurn, Data
    <3>2. CASE buffered = <<>>
      <4>1. Tail(chain) \in Seq(Op) /\ Len(Tail(chain)) = Len(chain) - 1 /\ Len(chain) > 0
        BY <2>1, TailOfChain
      <4>2. /\ chain' = Tail(chain)
            /\ ahead' = IF close = "draining" THEN Len(chain) - 1 ELSE IF ahead > 0 THEN ahead - 1 ELSE 0
        BY <1>7, <3>2 DEF WriteBatch, AfterDrainTurn
      <4>3. chain' \in Seq(Op) /\ ahead' \in 0 .. Len(chain')
        BY <1>0, <4>1, <4>2 DEF Data
      <4>4. barrier' \in [Barriers -> BarrierStates] /\ close' \in CloseStates /\ drain' = "idle"
        BY <1>7, <3>2 DEF WriteBatch, AfterDrainTurn, DrainSettles, Data, BarrierStates, CloseStates
      <4>5. QED
        BY <1>0, <1>7, <3>2, <4>3, <4>4 DEF WriteBatch, AfterDrainTurn
    <3>3. QED
      BY <3>1, <3>2
  <2>4. QED
    BY <1>7, <2>2, <2>3 DEF WriteBatch, Data, Op
<1>8. CASE WriteHeader
  <2>1. chain # <<>>
    BY <1>8 DEF WriteHeader, Writable, Acts, Turn, ChainInv
  <2>2. QED
    <3>1. Tail(chain) \in Seq(Op) /\ Len(Tail(chain)) = Len(chain) - 1
      BY <2>1, TailOfChain
    <3>2. chain' \in Seq(Op) /\ ahead' \in 0 .. Len(chain')
      BY <1>0, <1>8, <3>1 DEF WriteHeader, TurnEnds, Ahead, Data
    <3>3. barrier' \in [Barriers -> BarrierStates]
      BY <1>8 DEF WriteHeader, Data, BarrierStates
    <3>4. QED
      BY <1>0, <1>8, <3>2, <3>3 DEF WriteHeader, TurnEnds, Data, Op
<1>9. CASE IoFails
  <2>1. started /\ chain # <<>>
    BY <1>9 DEF IoFails, Acts, Turn, ChainInv
  <2>2. Restored \in Seq(Nat)
    BY ConcatProperties DEF Restored, Data
  <2>3. CASE Turn = "drain"
    <3>1. Tail(chain) \in Seq(Op) /\ Len(Tail(chain)) = Len(chain) - 1 /\ Len(chain) > 0
      BY <2>1, TailOfChain
    <3>2. /\ chain' = Tail(chain)
          /\ ahead' = IF close = "draining" THEN Len(chain) - 1 ELSE IF ahead > 0 THEN ahead - 1 ELSE 0
      BY <1>9, <2>3 DEF IoFails
    <3>3. chain' \in Seq(Op) /\ ahead' \in 0 .. Len(chain')
      BY <1>0, <3>1, <3>2 DEF Data
    <3>4. barrier' \in [Barriers -> BarrierStates] /\ close' \in CloseStates /\ drain' = "idle"
      BY <1>9, <2>3 DEF IoFails, DrainSettles, FailedCloseGoesOn, Data, BarrierStates, CloseStates
    <3>5. buffered' \in Seq(Nat) /\ batch' = <<>> /\ failures' \in 0 .. MaxFailures
      BY <1>9, <2>2, <2>3 DEF IoFails, Data
    <3>6. QED
      BY <1>0, <1>9, <3>3, <3>4, <3>5 DEF IoFails, Data, Op
  <2>4. CASE Turn # "drain"
    <3>1. Tail(chain) \in Seq(Op) /\ Len(Tail(chain)) = Len(chain) - 1
      BY <2>1, TailOfChain
    <3>0. chain' = Tail(chain) /\ ahead' = IF ahead > 0 THEN ahead - 1 ELSE 0
      BY <1>9, <2>4, Zenon DEF IoFails, TurnEnds, Ahead
    <3>2. chain' \in Seq(Op) /\ ahead' \in 0 .. Len(chain')
      BY <1>0, <3>1, <3>0 DEF Data
    <3>3. barrier' \in [Barriers -> BarrierStates]
      BY <1>9, <2>4 DEF IoFails, Data, BarrierStates
    <3>4. buffered' = buffered /\ batch' = <<>> /\ failures' \in 0 .. MaxFailures
      BY <1>9, <2>4 DEF IoFails, TurnEnds, Data
    <3>5. QED
      BY <1>0, <1>9, <2>4, <3>2, <3>3, <3>4 DEF IoFails, Data, Op
  <2>5. QED
    BY <2>3, <2>4
<1>10. ASSUME NEW b \in Barriers, FlushCalled(b) PROVE Data'
  BY <1>0, <1>10, TypeDrainLive DEF FlushCalled, Data, Op, BarrierStates
<1>11. ASSUME NEW b \in Barriers, FlushQueued(b) PROVE Data'
  <2>1. Append(chain, b) \in Seq(Op) /\ Len(Append(chain, b)) = Len(chain) + 1
    BY <1>0, AppendToChain DEF Op
  <2>2. chain' \in Seq(Op) /\ Len(chain') >= Len(chain) /\ Len(chain') \in Nat
    BY <1>0, <1>11, <2>1 DEF FlushQueued
  <2>3. barrier' \in [Barriers -> BarrierStates]
    BY <1>11 DEF FlushQueued, Data, BarrierStates
  <2>4. QED
    BY <1>0, <1>11, <2>2, <2>3 DEF FlushQueued, Data, Op
<1>12. CASE CloseCalled
  BY <1>0, <1>12, TypeDrainLive DEF CloseCalled, ClosePass, Data, Op, CloseStates
<1>13. CASE CloseLoops
  BY <1>0, <1>13, TypeDrainLive DEF CloseLoops, ClosePass, Data, Op, CloseStates
<1>14. CASE ReleaseBegins \/ CloseEnds \/ RevokeEnds
  BY <1>14 DEF ReleaseBegins, CloseEnds, RevokeEnds, Data, CloseStates
<1>15. CASE Revoke
  BY <1>0, <1>15 DEF Revoke, Discarded, Data, CloseStates
<1>16. CASE UNCHANGED vars
  BY <1>16 DEF vars, Data
<1>17. QED
  BY <1>1, <1>2, <1>3, <1>4, <1>5, <1>6, <1>7, <1>8, <1>9, <1>10, <1>11, <1>12, <1>13, <1>14, <1>15, <1>16
     DEF Next, ChainRuns, Closing

-----------------------------------------------------------------------------
(* The chain's turns stay distinct and in their callers' states.           *)

\* A chain whose first turn leaves keeps the others, each of them another turn.
LEMMA ChainShrinks ==
    ASSUME Data, ChainInv, chain # <<>>, chain' = Tail(chain)
    PROVE  /\ \A i \in 1 .. Len(chain') : i + 1 \in 1 .. Len(chain) /\ chain'[i] = chain[i + 1] /\ chain'[i] # chain[1]
           /\ \A i, j \in 1 .. Len(chain') : chain'[i] = chain'[j] => i = j
<1>1. /\ Len(chain') = Len(chain) - 1 /\ Len(chain) \in Nat \ {0}
      /\ \A i \in 1 .. Len(chain) - 1 : chain'[i] = chain[i + 1]
  BY TailOfChain
<1>2. \A i, j \in 1 .. Len(chain) : chain[i] = chain[j] => i = j
  BY DEF ChainInv
<1>3. QED
  BY <1>1, <1>2

\* A chain that a new turn joins.
LEMMA ChainGrows ==
    ASSUME Data, ChainInv, NEW op \in Op, \A i \in 1 .. Len(chain) : chain[i] # op, chain' = Append(chain, op)
    PROVE  /\ \A i \in 1 .. Len(chain') : chain'[i] = op \/ (i \in 1 .. Len(chain) /\ chain'[i] = chain[i])
           /\ \A i, j \in 1 .. Len(chain') : chain'[i] = chain'[j] => i = j
           /\ chain' # <<>> /\ (chain # <<>> => chain'[1] = chain[1])
<1>1. /\ Len(chain') = Len(chain) + 1 /\ Len(chain) \in Nat /\ chain' # <<>>
      /\ \A i \in 1 .. Len(chain) : chain'[i] = chain[i]
      /\ chain'[Len(chain) + 1] = op
  BY AppendToChain DEF Data, Op
<1>2. \A i, j \in 1 .. Len(chain) : chain[i] = chain[j] => i = j
  BY DEF ChainInv
<1>3. chain # <<>> => Len(chain) >= 1
  BY TailOfChain
<1>4. QED
  BY <1>1, <1>2, <1>3

Distinct(c, n) == \A i, j \in 1 .. n : c[i] = c[j] => i = j
Within(d, c, n) == \A i \in 1 .. n : \E j \in 1 .. n : d[i] = c[j]
Rotated(d, c, n) == (\A i \in 1 .. n - 1 : d[i] = c[i + 1]) /\ d[n] = c[1]

\* Moving the first of n distinct values to the end keeps them and keeps them distinct.
LEMMA Rotation ==
    ASSUME NEW n \in Nat \ {0}, NEW c, NEW d, Rotated(d, c, n), Distinct(c, n)
    PROVE  Within(d, c, n) /\ Distinct(d, n)
<1>1. \A i \in 1 .. n : i = n \/ i \in 1 .. n - 1
  OBVIOUS
<1>2. \A i \in 1 .. n - 1 : i + 1 \in 1 .. n /\ i + 1 # 1
  OBVIOUS
<1>3. 1 \in 1 .. n
  OBVIOUS
<1>4. \A i \in 1 .. n : \E j \in 1 .. n : d[i] = c[j]
  BY <1>1, <1>2, <1>3 DEF Rotated
<1>5. ASSUME NEW i \in 1 .. n, NEW j \in 1 .. n, d[i] = d[j] PROVE i = j
  <2>1. CASE i = n /\ j \in 1 .. n - 1
    BY <1>2, <1>3, <1>5, <2>1 DEF Rotated, Distinct
  <2>2. CASE j = n /\ i \in 1 .. n - 1
    BY <1>2, <1>3, <1>5, <2>2 DEF Rotated, Distinct
  <2>3. CASE i \in 1 .. n - 1 /\ j \in 1 .. n - 1
    <3>1. i + 1 = j + 1
      BY <1>2, <1>5, <2>3 DEF Rotated, Distinct
    <3>2. QED
      BY <3>1
  <2>4. QED
    BY <1>1, <2>1, <2>2, <2>3
<1>6. QED
  BY <1>4, <1>5 DEF Within, Distinct

\* A drain turn that goes round again.
LEMMA ChainRotates ==
    ASSUME Data, ChainInv, chain # <<>>, chain' = Append(Tail(chain), chain[1])
    PROVE  /\ Len(chain') = Len(chain)
           /\ \A i \in 1 .. Len(chain') : \E j \in 1 .. Len(chain) : chain'[i] = chain[j]
           /\ \A i, j \in 1 .. Len(chain') : chain'[i] = chain'[j] => i = j
<1>1. /\ Len(Tail(chain)) = Len(chain) - 1 /\ Len(chain) \in Nat \ {0} /\ Tail(chain) \in Seq(Op)
      /\ \A i \in 1 .. Len(chain) - 1 : Tail(chain)[i] = chain[i + 1]
      /\ chain[1] \in Op
  BY TailOfChain
<1>2. /\ Len(chain') = Len(chain) /\ chain'[Len(chain)] = chain[1]
      /\ \A i \in 1 .. Len(chain) - 1 : chain'[i] = Tail(chain)[i]
  <2>1. /\ Len(chain') = Len(Tail(chain)) + 1 /\ chain'[Len(Tail(chain)) + 1] = chain[1]
        /\ \A i \in 1 .. Len(Tail(chain)) : chain'[i] = Tail(chain)[i]
    BY <1>1, AppendToChain
  <2>2. QED
    BY <1>1, <2>1
<1>3. Distinct(chain, Len(chain))
  BY DEF ChainInv, Distinct
<1>4. Rotated(chain', chain, Len(chain))
  BY <1>1, <1>2, Zenon DEF Rotated
<1>5. Within(chain', chain, Len(chain)) /\ Distinct(chain', Len(chain))
  BY <1>1, <1>3, <1>4, Rotation, Zenon
<1>6. QED
  BY <1>2, <1>5, Zenon DEF Within, Distinct

\* The turns of the chain, and the calls that may not be among them.
LEMMA ChainMembers ==
    ASSUME Data, ChainInv
    PROVE  /\ \A i \in 1 .. Len(chain) : chain[i] \in Op /\ (chain[i] # "drain" => chain[i] \in Barriers)
           /\ drain = "idle" => \A i \in 1 .. Len(chain) : chain[i] # "drain"
           /\ \A b \in Barriers : barrier[b] # "queued" => \A i \in 1 .. Len(chain) : chain[i] # b
           /\ chain # <<>> => 1 \in 1 .. Len(chain)
<1>1. \A i \in 1 .. Len(chain) : chain[i] \in Op
  BY ElementOfSeq DEF Data, Op
<1>2. chain # <<>> => 1 \in 1 .. Len(chain)
  BY TailOfChain
<1>3. \A b \in Barriers : b # "drain"
  BY HandleBounds
<1>4. QED
  BY <1>1, <1>2, <1>3 DEF ChainInv, Op

\* A step that leaves the chain alone and the states of its turns' callers.
LEMMA ChainKept ==
    ASSUME Data, ChainInv, chain' = chain, drain' = drain,
           \A b \in Barriers : barrier[b] = "queued" => barrier'[b] = "queued",
           started' => chain # <<>>, batch' # <<>> => started' /\ chain[1] = "drain"
    PROVE  ChainInv'
<1>1. \A i \in 1 .. Len(chain) : chain[i] # "drain" => chain[i] \in Barriers
  BY ChainMembers
<1>2. QED
  BY <1>1, Zenon DEF ChainInv

\* The drain that a caller starts, or joins.
LEMMA ChainDrainLive ==
    ASSUME Data, ChainInv, DrainLive, UNCHANGED <<started, batch>>,
           \A b \in Barriers : barrier[b] = "queued" => barrier'[b] = "queued"
    PROVE  ChainInv'
<1>1. CASE drain' = drain /\ chain' = chain
  BY <1>1, ChainKept, Zenon DEF ChainInv
<1>2. CASE drain = "idle" /\ drain' = "waiting" /\ chain' = Append(chain, "drain")
  <2>1. \A i \in 1 .. Len(chain) : chain[i] # "drain" /\ chain[i] \in Barriers
    BY <1>2, ChainMembers, Zenon
  <2>2. "drain" \in Op
    BY DEF Op
  <2>3. /\ \A i \in 1 .. Len(chain') : chain'[i] = "drain" \/ (i \in 1 .. Len(chain) /\ chain'[i] = chain[i])
        /\ \A i, j \in 1 .. Len(chain') : chain'[i] = chain'[j] => i = j
        /\ chain' # <<>> /\ (chain # <<>> => chain'[1] = chain[1])
    BY <1>2, <2>1, <2>2, ChainGrows, Zenon
  <2>4. ASSUME NEW i \in 1 .. Len(chain')
        PROVE  IF chain'[i] = "drain" THEN drain' = "waiting" ELSE barrier'[chain'[i]] = "queued"
    <3>1. CASE chain'[i] = "drain"
      BY <1>2, <3>1
    <3>2. CASE i \in 1 .. Len(chain) /\ chain'[i] = chain[i]
      <4>1. chain[i] \in Barriers /\ barrier[chain[i]] = "queued" /\ chain[i] # "drain"
        BY <2>1, <3>2, Zenon DEF ChainInv
      <4>2. QED
        BY <3>2, <4>1
    <3>3. QED
      BY <2>3, <3>1, <3>2, Zenon
  <2>5. QED
    BY <2>3, <2>4, Zenon DEF ChainInv
<1>3. drain = "idle" => (drain' = drain /\ chain' = chain) \/ (drain' = "waiting" /\ chain' = Append(chain, "drain"))
  BY Zenon DEF DrainLive
<1>4. drain # "idle" => drain' = drain /\ chain' = chain
  BY Zenon DEF DrainLive
<1>5. QED
  BY <1>1, <1>2, <1>3, <1>4, Zenon

\* The first turn ends.
LEMMA ChainLeaves ==
    ASSUME Data, ChainInv, chain # <<>>, chain' = Tail(chain), started' = FALSE, batch' = <<>>,
           chain[1] # "drain" => drain' = drain,
           \A b \in Barriers : b # chain[1] /\ barrier[b] = "queued" => barrier'[b] = "queued"
    PROVE  ChainInv'
<1>1. /\ \A i \in 1 .. Len(chain') : i + 1 \in 1 .. Len(chain) /\ chain'[i] = chain[i + 1] /\ chain'[i] # chain[1]
      /\ \A i, j \in 1 .. Len(chain') : chain'[i] = chain'[j] => i = j
  BY ChainShrinks
<1>2. ASSUME NEW i \in 1 .. Len(chain')
      PROVE  IF chain'[i] = "drain" THEN drain' = "waiting" ELSE barrier'[chain'[i]] = "queued"
  <2>1. /\ i + 1 \in 1 .. Len(chain) /\ chain'[i] = chain[i + 1] /\ chain'[i] # chain[1]
    BY <1>1
  <2>2. /\ IF chain'[i] = "drain" THEN drain = "waiting" ELSE barrier[chain'[i]] = "queued"
        /\ chain'[i] # "drain" => chain'[i] \in Barriers
    BY <2>1, ChainMembers, Zenon DEF ChainInv
  <2>3. QED
    BY <2>1, <2>2, Zenon
<1>3. QED
  BY <1>1, <1>2, Zenon DEF ChainInv

\* A handle starts with an empty chain.
LEMMA ChainInit == Init => ChainInv
<1>1. Len(<<>>) = 0 /\ 1 .. 0 = {}
  OBVIOUS
<1>2. QED
  BY <1>1, Zenon DEF Init, ChainInv

\* Every step keeps the chain.
LEMMA ChainStep == Data /\ ChainInv /\ [Next]_vars => ChainInv'
<1> SUFFICES ASSUME Data, ChainInv, [Next]_vars PROVE ChainInv'
  OBVIOUS
<1> USE DEF fixedVars, bufferVars, diskVars, callerVars
<1>0. \A i \in 1 .. Len(chain) : chain[i] \in Op
  BY ChainMembers
<1>1. CASE Publish
  BY <1>1, ChainKept, Zenon DEF Publish, ChainInv
<1>2. CASE TimerFires
  <2>1. CASE DrainLive
    BY <1>2, <2>1, ChainDrainLive, Zenon DEF TimerFires
  <2>2. CASE UNCHANGED <<drain, chain>>
    BY <1>2, <2>2, ChainKept, Zenon DEF TimerFires, ChainInv
  <2>3. QED
    BY <1>2, <2>1, <2>2, Zenon DEF TimerFires
<1>3. CASE StartTurn
  <2>1. chain # <<>> /\ Head(chain) = chain[1]
    BY <1>3, TailOfChain, Zenon DEF StartTurn
  <2>2. CASE Head(chain) = "drain"
    BY <1>3, <2>1, <2>2, ChainKept, Zenon DEF StartTurn, ChainInv
  <2>3. CASE Head(chain) # "drain"
    BY <1>3, <2>1, <2>3, ChainKept, Zenon DEF StartTurn, ChainInv
  <2>4. QED
    BY <2>2, <2>3
<1>4. ASSUME chain # <<>>, Head(chain) # "drain", TurnEnds, drain' = drain, NEW v,
             barrier' = [barrier EXCEPT ![Head(chain)] = v]
      PROVE  ChainInv'
  <2>1. Head(chain) = chain[1]
    BY <1>4, TailOfChain, Zenon
  <2>2. \A b \in Barriers : b # chain[1] /\ barrier[b] = "queued" => barrier'[b] = "queued"
    BY <1>4, <2>1 DEF Data
  <2>3. QED
    BY <1>4, <2>2, ChainLeaves, Zenon DEF TurnEnds
<1>5. CASE FlushTurnReturns
  <2>1. CASE close = "open"
    BY <1>4, <1>5, <2>1, Zenon DEF FlushTurnReturns
  <2>2. CASE close # "open"
    BY <1>4, <1>5, <2>2, Zenon DEF FlushTurnReturns
  <2>3. QED
    BY <2>1, <2>2
<1>6. CASE AcquireLease \/ TruncateTail \/ RewriteTail
  <2>1. UNCHANGED <<chain, drain, barrier, started, batch>>
    BY <1>6, Zenon DEF AcquireLease, TruncateTail, RewriteTail
  <2>2. QED
    BY <2>1, ChainKept, Zenon DEF ChainInv
<1>7. ASSUME Turn # "none" PROVE started /\ chain # <<>> /\ Turn = Head(chain) /\ Head(chain) = chain[1]
  <2>1. started /\ chain # <<>> /\ Turn = Head(chain)
    BY <1>7, Zenon DEF Turn, ChainInv
  <2>2. QED
    BY <2>1, TailOfChain, Zenon
<1>8. ASSUME NEW r, NEW s, DrainSettles(r, s) PROVE \A b \in Barriers : barrier[b] = "queued" => barrier'[b] = "queued"
  BY <1>8 DEF DrainSettles
<1>9. CASE WriteBatch
  <2>1. Turn = "drain" /\ Turn # "none"
    BY <1>9 DEF WriteBatch
  <2>2. started /\ chain # <<>> /\ chain[1] = "drain" /\ Head(chain) = chain[1]
    BY <1>7, <2>1, Zenon
  <2>3. CASE buffered # <<>>
    <3>1. /\ chain' = Append(Tail(chain), chain[1]) /\ drain' = drain /\ barrier' = barrier
          /\ started' = FALSE /\ batch' = <<>>
      BY <1>9, <2>2, <2>3, Zenon DEF WriteBatch, AfterDrainTurn
    <3>2. /\ Len(chain') = Len(chain)
          /\ \A i \in 1 .. Len(chain') : \E j \in 1 .. Len(chain) : chain'[i] = chain[j]
          /\ \A i, j \in 1 .. Len(chain') : chain'[i] = chain'[j] => i = j
      BY <2>2, <3>1, ChainRotates, Zenon
    <3>3. ASSUME NEW i \in 1 .. Len(chain')
          PROVE  IF chain'[i] = "drain" THEN drain' = "waiting" ELSE barrier'[chain'[i]] = "queued"
      <4>1. PICK j \in 1 .. Len(chain) : chain'[i] = chain[j]
        BY <3>2, Zenon
      <4>2. IF chain[j] = "drain" THEN drain = "waiting" ELSE barrier[chain[j]] = "queued"
        BY Zenon DEF ChainInv
      <4>3. QED
        BY <3>1, <4>1, <4>2
    <3>4. QED
      BY <3>1, <3>2, <3>3, Zenon DEF ChainInv
  <2>4. CASE buffered = <<>>
    <3>1. /\ chain' = Tail(chain) /\ started' = FALSE /\ batch' = <<>> /\ DrainSettles("drained", "chained")
      BY <1>9, <2>4, Zenon DEF WriteBatch, AfterDrainTurn
    <3>2. QED
      BY <1>8, <2>2, <3>1, ChainLeaves, Zenon
  <2>5. QED
    BY <2>3, <2>4
<1>10. CASE WriteHeader
  <2>1. Turn # "none" /\ Turn # "drain"
    BY <1>10, Zenon DEF WriteHeader, Writable, Acts
  <2>2. QED
    BY <1>4, <1>7, <1>10, <2>1, Zenon DEF WriteHeader
<1>11. CASE IoFails
  <2>1. Turn # "none"
    BY <1>11, Zenon DEF IoFails, Acts
  <2>2. CASE Turn = "drain"
    <3>1. chain # <<>> /\ chain[1] = "drain"
      BY <1>7, <2>1, <2>2, Zenon
    <3>2. /\ chain' = Tail(chain) /\ started' = FALSE /\ batch' = <<>>
          /\ DrainSettles("rejected", FailedCloseGoesOn)
      BY <1>11, <2>2, Zenon DEF IoFails
    <3>3. QED
      BY <1>8, <3>1, <3>2, ChainLeaves, Zenon
  <2>3. CASE Turn # "drain"
    BY <1>4, <1>7, <1>11, <2>1, <2>3, Zenon DEF IoFails
  <2>4. QED
    BY <2>2, <2>3
<1>12. ASSUME NEW b \in Barriers, FlushCalled(b) PROVE ChainInv'
  <2>1. \A c \in Barriers : barrier[c] = "queued" => barrier'[c] = "queued"
    BY <1>12 DEF FlushCalled, Data
  <2>2. QED
    BY <1>12, <2>1, ChainDrainLive, Zenon DEF FlushCalled
<1>13. ASSUME NEW b \in Barriers, FlushQueued(b) PROVE ChainInv'
  <2>1. barrier[b] = "drained" /\ UNCHANGED <<drain, started, batch>>
    BY <1>13, Zenon DEF FlushQueued
  <2>2. CASE close = "open"
    <3>1. barrier' = [barrier EXCEPT ![b] = "queued"] /\ chain' = Append(chain, b)
      BY <1>13, <2>2, Zenon DEF FlushQueued
    <3>2. b \in Op /\ \A i \in 1 .. Len(chain) : chain[i] # b
      BY <2>1, ChainMembers DEF Op
    <3>3. /\ \A i \in 1 .. Len(chain') : chain'[i] = b \/ (i \in 1 .. Len(chain) /\ chain'[i] = chain[i])
          /\ \A i, j \in 1 .. Len(chain') : chain'[i] = chain'[j] => i = j
          /\ chain' # <<>> /\ (chain # <<>> => chain'[1] = chain[1])
      BY <3>1, <3>2, ChainGrows, Zenon
    <3>4. barrier'[b] = "queued" /\ \A c \in Barriers : barrier[c] = "queued" => barrier'[c] = "queued"
      BY <3>1 DEF Data
    <3>5. b # "drain"
      BY HandleBounds
    <3>6. ASSUME NEW i \in 1 .. Len(chain')
          PROVE  IF chain'[i] = "drain" THEN drain' = "waiting" ELSE barrier'[chain'[i]] = "queued"
      <4>1. CASE chain'[i] = b
        BY <3>4, <3>5, <4>1
      <4>2. CASE i \in 1 .. Len(chain) /\ chain'[i] = chain[i]
        <5>1. /\ IF chain[i] = "drain" THEN drain = "waiting" ELSE barrier[chain[i]] = "queued"
              /\ chain[i] # "drain" => chain[i] \in Barriers
          BY <4>2, ChainMembers, Zenon DEF ChainInv
        <5>2. QED
          BY <2>1, <3>4, <4>2, <5>1
      <4>3. QED
        BY <3>3, <4>1, <4>2, Zenon
    <3>7. QED
      BY <2>1, <3>3, <3>6, Zenon DEF ChainInv
  <2>3. CASE close # "open"
    <3>1. barrier' = [barrier EXCEPT ![b] = "rejected"] /\ chain' = chain
      BY <1>13, <2>3, Zenon DEF FlushQueued
    <3>2. \A c \in Barriers : barrier[c] = "queued" => barrier'[c] = "queued"
      BY <2>1, <3>1 DEF Data
    <3>3. QED
      BY <2>1, <3>1, <3>2, ChainKept, Zenon DEF ChainInv
  <2>4. QED
    BY <2>2, <2>3
<1>14. CASE CloseCalled
  BY <1>14, ChainDrainLive, Zenon DEF CloseCalled, ClosePass
<1>15. CASE CloseLoops
  <2>1. CASE ClosePass
    BY <1>15, <2>1, ChainDrainLive, Zenon DEF CloseLoops, ClosePass
  <2>2. CASE UNCHANGED <<drain, chain>>
    BY <1>15, <2>2, ChainKept, Zenon DEF CloseLoops, ChainInv
  <2>3. QED
    BY <1>15, <2>1, <2>2, Zenon DEF CloseLoops
<1>16. CASE ReleaseBegins \/ CloseEnds \/ RevokeEnds \/ Revoke
  <2>1. UNCHANGED <<chain, drain, barrier, started, batch>>
    BY <1>16, Zenon DEF ReleaseBegins, CloseEnds, RevokeEnds, Revoke
  <2>2. QED
    BY <2>1, ChainKept, Zenon DEF ChainInv
<1>17. CASE UNCHANGED vars
  BY <1>17, ChainKept, Zenon DEF vars, ChainInv
<1>18. QED
  BY <1>1, <1>2, <1>3, <1>5, <1>6, <1>9, <1>10, <1>11, <1>12, <1>13, <1>14, <1>15, <1>16, <1>17, Zenon
     DEF Next, ChainRuns, Closing

-----------------------------------------------------------------------------
(* Nothing is lost.                                                        *)

Upto(n) == [i \in 1 .. n |-> i]
Log == disk \o recovered \o batch \o buffered

\* Concatenations of event numbers associate.
LEMMA Associative ==
    ASSUME NEW a \in Seq(Nat), NEW b \in Seq(Nat), NEW c \in Seq(Nat)
    PROVE  (a \o b) \o c = a \o (b \o c)
  BY ConcatAssociative, SMTT(30)

\* A drain takes the buffer.
LEMMA BufferTaken ==
    ASSUME NEW a \in Seq(Nat), NEW b \in Seq(Nat), NEW d \in Seq(Nat)
    PROVE  a \o b \o d \o <<>> = a \o b \o <<>> \o d
<1>1. a \o b \in Seq(Nat) /\ a \o b \o d \in Seq(Nat)
  BY ConcatProperties
<1>2. QED
  BY <1>1, ConcatEmptySeq

\* A drain's batch is stored.
LEMMA BatchStored ==
    ASSUME NEW a \in Seq(Nat), NEW c \in Seq(Nat), NEW d \in Seq(Nat)
    PROVE  (a \o c) \o <<>> \o <<>> \o d = a \o <<>> \o c \o d
<1>1. a \o c \in Seq(Nat)
  BY ConcatProperties
<1>2. QED
  BY <1>1, ConcatEmptySeq

\* A drain's batch is put back.
LEMMA BatchReturned ==
    ASSUME NEW s \in Seq(Nat), NEW c \in Seq(Nat), NEW d \in Seq(Nat)
    PROVE  s \o <<>> \o (c \o d) = s \o c \o d
<1>1. s \o <<>> = s
  BY ConcatEmptySeq
<1>2. (s \o c) \o d = s \o (c \o d)
  BY Associative
<1>3. QED
  BY <1>1, <1>2, Zenon

\* An event published at the end of the log.
LEMMA Publication ==
    ASSUME NEW s \in Seq(Nat), NEW t \in Seq(Nat), NEW n \in Nat, s \o t = Upto(n)
    PROVE  s \o Append(t, n + 1) = Upto(n + 1)
<1>1. s \o Append(t, n + 1) = Append(s \o t, n + 1)
  BY SMTT(30)
<1>2. Append(Upto(n), n + 1) = Upto(n + 1)
  BY DEF Upto
<1>3. QED
  BY <1>1, <1>2

\* A log with nothing in hand is stored.
LEMMA StoredLog ==
    ASSUME NEW a \in Seq(Nat), NEW b \in Seq(Nat), NEW n \in Nat, a \o b \o <<>> \o <<>> = Upto(n)
    PROVE  Len(a) + Len(b) = n
<1>1. a \o b \in Seq(Nat) /\ Len(a \o b) = Len(a) + Len(b)
  BY ConcatProperties
<1>2. a \o b \o <<>> \o <<>> = a \o b
  BY <1>1, ConcatEmptySeq
<1>3. Len(Upto(n)) = n
  BY DEF Upto
<1>4. QED
  BY <1>1, <1>2, <1>3

\* A handle starts with what is stored, or recovered.
LEMMA LossInit == Init => NothingLost
<1> SUFFICES ASSUME Init PROVE NothingLost
  OBVIOUS
<1>1. batch = <<>> /\ buffered = <<>>
  BY Zenon DEF Init
<1>2. /\ published = Len(disk) + Len(recovered)
      /\ \/ disk = <<>> /\ recovered = <<>>
         \/ disk = <<1>> /\ recovered \in {<<>>, <<2>>}
  BY Zenon DEF Init
<1>3. /\ <<>> \o <<>> = <<>> /\ <<1>> \o <<>> = <<1>> /\ <<2>> \o <<>> = <<2>>
      /\ <<1>> \o <<2>> = <<1, 2>> /\ <<1, 2>> \o <<>> = <<1, 2>>
  <2>1. /\ <<1>> \in Seq(Nat) /\ <<2>> \in Seq(Nat) /\ <<1, 2>> \in Seq(Nat)
        /\ Len(<<1>>) = 1 /\ Len(<<2>>) = 1 /\ Len(<<1, 2>>) = 2
    OBVIOUS
  <2>2. /\ <<1>> \o <<2>> \in Seq(Nat) /\ Len(<<1>> \o <<2>>) = 2
        /\ \A i \in 1 .. 2 : (<<1>> \o <<2>>)[i] = <<1, 2>>[i]
    BY <2>1, ConcatProperties
  <2>3. <<1>> \o <<2>> = <<1, 2>>
    BY <2>1, <2>2, SeqEqual
  <2>4. QED
    BY <2>3
<1>4. Len(<<>>) = 0 /\ Len(<<1>>) = 1 /\ Len(<<2>>) = 1
  OBVIOUS
<1>5. <<>> = Upto(0) /\ <<1>> = Upto(1) /\ <<1, 2>> = Upto(2)
  BY DEF Upto
<1>6. disk \o recovered \o batch \o buffered = Upto(published)
  <2>1. CASE disk = <<>> /\ recovered = <<>>
    BY <1>1, <1>2, <1>3, <1>4, <1>5, <2>1
  <2>2. CASE disk = <<1>> /\ recovered = <<>>
    BY <1>1, <1>2, <1>3, <1>4, <1>5, <2>2
  <2>3. CASE disk = <<1>> /\ recovered = <<2>>
    BY <1>1, <1>2, <1>3, <1>4, <1>5, <2>3
  <2>4. QED
    BY <1>2, <2>1, <2>2, <2>3
<1>7. QED
  BY <1>6 DEF NothingLost, Upto

\* Every step keeps it.
LEMMA LossStep == Data /\ ChainInv /\ NothingLost /\ [Next]_vars => NothingLost'
<1> SUFFICES ASSUME Data, ChainInv, NothingLost, [Next]_vars, ~revoked' PROVE Log' = Upto(published')
  BY Zenon DEF NothingLost, Log, Upto
<1> USE DEF fixedVars, bufferVars, diskVars, callerVars
<1>1. ~revoked
  <2>1. CASE Revoke
    BY <2>1, Zenon DEF Revoke
  <2>2. CASE revoked' = revoked
    BY <2>2
  <2>3. QED
    BY <2>1, <2>2, Zenon DEF Next, ChainRuns, Closing, Publish, TimerFires, StartTurn, FlushTurnReturns,
       AcquireLease, TruncateTail, RewriteTail, WriteBatch, WriteHeader, IoFails, CloseCalled, CloseLoops,
       ReleaseBegins, CloseEnds, RevokeEnds, FlushCalled, FlushQueued, vars
<1>2. Log = Upto(published)
  BY <1>1, Zenon DEF NothingLost, Log, Upto
<1>3. /\ buffered \in Seq(Nat) /\ batch \in Seq(Nat) /\ disk \in Seq(Nat) /\ recovered \in Seq(Nat)
      /\ <<>> \in Seq(Nat) /\ published \in Nat
  BY EmptySeq DEF Data
<1>4. CASE published' = published /\ UNCHANGED <<disk, recovered, batch, buffered>>
  BY <1>2, <1>4, Zenon DEF Log
<1>5. CASE Publish
  <2>1. /\ UNCHANGED <<disk, recovered, batch>> /\ published' = published + 1
        /\ buffered' = Append(buffered, published + 1)
    BY <1>5, Zenon DEF Publish
  <2>2. disk \o recovered \o batch \in Seq(Nat)
    BY <1>3, ConcatProperties
  <2>3. (disk \o recovered \o batch) \o Append(buffered, published + 1) = Upto(published + 1)
    BY <1>2, <1>3, <2>2, Publication DEF Log
  <2>4. QED
    BY <2>1, <2>3, Zenon DEF Log
<1>6. CASE StartTurn
  <2>1. batch = <<>>
    BY <1>6, Zenon DEF StartTurn, ChainInv
  <2>2. CASE Head(chain) = "drain"
    <3>1. UNCHANGED <<disk, recovered, published>> /\ batch' = buffered /\ buffered' = <<>>
      BY <1>6, <2>2, Zenon DEF StartTurn
    <3>2. disk \o recovered \o buffered \o <<>> = disk \o recovered \o <<>> \o buffered
      BY <1>3, BufferTaken, Zenon
    <3>3. QED
      BY <1>2, <2>1, <3>1, <3>2, Zenon DEF Log
  <2>3. CASE Head(chain) # "drain"
    BY <1>4, <1>6, <2>3, Zenon DEF StartTurn
  <2>4. QED
    BY <2>2, <2>3
<1>7. ASSUME TurnEnds, chain # <<>>, Head(chain) # "drain", UNCHANGED <<disk, recovered, buffered, published>>
      PROVE  Log' = Upto(published')
  <2>1. batch = <<>>
    BY <1>7, TailOfChain, Zenon DEF ChainInv
  <2>2. QED
    BY <1>4, <1>7, <2>1, Zenon DEF TurnEnds
<1>8. CASE FlushTurnReturns
  BY <1>7, <1>8, Zenon DEF FlushTurnReturns
<1>9. CASE AcquireLease \/ TruncateTail
  BY <1>4, <1>9, Zenon DEF AcquireLease, TruncateTail
<1>10. CASE RewriteTail
  <2>1. UNCHANGED <<batch, buffered, published>> /\ disk' = disk \o recovered /\ recovered' = <<>>
    BY <1>10, Zenon DEF RewriteTail
  <2>2. (disk \o recovered) \o <<>> \o batch \o buffered = disk \o recovered \o batch \o buffered
    <3>1. disk \o recovered \in Seq(Nat)
      BY <1>3, ConcatProperties
    <3>2. (disk \o recovered) \o <<>> = disk \o recovered
      BY <3>1, ConcatEmptySeq
    <3>3. QED
      BY <3>2, Zenon
  <2>3. QED
    BY <1>2, <2>1, <2>2, Zenon DEF Log
<1>11. CASE WriteBatch
  <2>1. /\ UNCHANGED <<recovered, buffered, published>> /\ disk' = disk \o batch /\ batch' = <<>>
        /\ batch # <<>> => recovered = <<>>
    BY <1>11, Zenon DEF WriteBatch, AfterDrainTurn
  <2>2. CASE batch = <<>>
    <3>1. disk \o <<>> = disk
      BY <1>3, ConcatEmptySeq
    <3>2. QED
      BY <1>4, <2>1, <2>2, <3>1, Zenon
  <2>3. CASE recovered = <<>>
    <3>1. (disk \o batch) \o <<>> \o <<>> \o buffered = disk \o <<>> \o batch \o buffered
      BY <1>3, BatchStored, Zenon
    <3>2. QED
      BY <1>2, <2>1, <2>3, <3>1, Zenon DEF Log
  <2>4. QED
    BY <2>1, <2>2, <2>3
<1>12. ASSUME Turn # "none", Turn # "drain" PROVE chain # <<>> /\ Head(chain) # "drain"
  BY <1>12, Zenon DEF Turn, ChainInv
<1>13. CASE WriteHeader
  BY <1>7, <1>12, <1>13, Zenon DEF WriteHeader, Writable, Acts
<1>14. CASE IoFails
  <2>1. CASE Turn = "drain"
    <3>1. /\ UNCHANGED <<disk, recovered, published>> /\ batch' = <<>> /\ buffered' = batch \o buffered
      BY <1>14, <2>1, Zenon DEF IoFails, Restored
    <3>2. disk \o recovered \o <<>> \o (batch \o buffered) = disk \o recovered \o batch \o buffered
      <4>1. disk \o recovered \in Seq(Nat)
        BY <1>3, ConcatProperties
      <4>2. QED
        BY <1>3, <4>1, BatchReturned, ZenonT(30)
    <3>3. QED
      BY <1>2, <3>1, <3>2, Zenon DEF Log
  <2>2. CASE Turn # "drain"
    BY <1>7, <1>12, <1>14, <2>2, Zenon DEF IoFails, Acts
  <2>3. QED
    BY <2>1, <2>2
<1>15. CASE TimerFires \/ CloseCalled \/ CloseLoops
  BY <1>4, <1>15, Zenon DEF TimerFires, CloseCalled, CloseLoops
<1>16. ASSUME NEW b \in Barriers, FlushCalled(b) \/ FlushQueued(b) PROVE Log' = Upto(published')
  BY <1>4, <1>16, Zenon DEF FlushCalled, FlushQueued
<1>17. CASE ReleaseBegins \/ CloseEnds \/ RevokeEnds
  BY <1>4, <1>17, Zenon DEF ReleaseBegins, CloseEnds, RevokeEnds
<1>18. CASE Revoke
  BY <1>18, Zenon DEF Revoke
<1>19. CASE UNCHANGED vars
  BY <1>4, <1>19, Zenon DEF vars
<1>20. QED
  BY <1>5, <1>6, <1>8, <1>9, <1>10, <1>11, <1>13, <1>14, <1>15, <1>16, <1>17, <1>18, <1>19, Zenon
     DEF Next, ChainRuns, Closing

-----------------------------------------------------------------------------
(* A revoked handle.                                                       *)

\* Nothing starts on a revoked handle: it is unrouted, its window is shut, and a
\* drain that still runs finds the buffer empty.
Silent ==
    revoked => /\ close \in {"revoking", "closed"} /\ ~routed /\ ~timer
               /\ drain = "waiting" => buffered = <<>>

\* Its settlement awaits the whole chain, so when it resolved no turn is left.
Awaited == revoked => ahead = Len(chain) /\ (close = "closed" => chain = <<>>)

\* A revoked handle stays silent.
LEMMA SilentStep == ChainInv /\ Data /\ Silent /\ [Next]_vars => Silent'
<1> SUFFICES ASSUME ChainInv, Data, Silent, [Next]_vars PROVE Silent'
  OBVIOUS
<1> USE DEF fixedVars, bufferVars, diskVars, callerVars, Silent
<1>0. "revoking" # "open" /\ "closed" # "open" /\ "revoking" # "draining" /\ "closed" # "draining"
      /\ "revoking" # "chained" /\ "closed" # "chained" /\ "revoking" # "settling" /\ "closed" # "settling"
      /\ "revoking" # "releasing" /\ "closed" # "releasing" /\ "idle" # "waiting"
  OBVIOUS
<1>1. CASE Publish
  BY <1>1, Zenon DEF Publish
<1>2. CASE TimerFires
  BY <1>2, Zenon DEF TimerFires
<1>3. CASE StartTurn
  BY <1>3, Zenon DEF StartTurn
<1>4. CASE FlushTurnReturns \/ AcquireLease \/ TruncateTail \/ RewriteTail
  BY <1>4, Zenon DEF FlushTurnReturns, AcquireLease, TruncateTail, RewriteTail
<1>5. CASE WriteBatch
  <2>1. UNCHANGED <<revoked, routed, timer, buffered>> /\ (close # "draining" => close' = close)
    BY <1>5, Zenon DEF WriteBatch, AfterDrainTurn, DrainSettles
  <2>2. drain' = drain \/ drain' = "idle"
    BY <1>5, Zenon DEF WriteBatch, AfterDrainTurn, DrainSettles
  <2>3. QED
    BY <1>0, <2>1, <2>2, Zenon
<1>6. CASE WriteHeader
  BY <1>6, Zenon DEF WriteHeader
<1>7. CASE IoFails
  <2>1. UNCHANGED <<revoked, routed, timer>>
    BY <1>7, Zenon DEF IoFails
  <2>2. CASE Turn = "drain"
    <3>1. drain' = "idle" /\ (close # "draining" => close' = close)
      BY <1>7, <2>2, Zenon DEF IoFails, DrainSettles
    <3>2. QED
      BY <1>0, <2>1, <3>1, Zenon
  <2>3. CASE Turn # "drain"
    <3>1. UNCHANGED <<buffered, drain, close>>
      BY <1>7, <2>3, Zenon DEF IoFails
    <3>2. QED
      BY <2>1, <3>1, Zenon
  <2>4. QED
    BY <2>2, <2>3
<1>8. ASSUME NEW b \in Barriers, FlushCalled(b) PROVE Silent'
  BY <1>8, Zenon DEF FlushCalled
<1>9. ASSUME NEW b \in Barriers, FlushQueued(b) PROVE Silent'
  BY <1>9, Zenon DEF FlushQueued
<1>10. CASE CloseCalled
  BY <1>0, <1>10, Zenon DEF CloseCalled
<1>11. CASE CloseLoops
  BY <1>0, <1>11, Zenon DEF CloseLoops
<1>12. CASE ReleaseBegins \/ CloseEnds
  BY <1>0, <1>12, Zenon DEF ReleaseBegins, CloseEnds
<1>13. CASE RevokeEnds \/ Revoke
  BY <1>13, Zenon DEF RevokeEnds, Revoke, Discarded
<1>14. CASE UNCHANGED vars
  BY <1>14, Zenon DEF vars
<1>15. QED
  BY <1>1, <1>2, <1>3, <1>4, <1>5, <1>6, <1>7, <1>8, <1>9, <1>10, <1>11, <1>12, <1>13, <1>14, Zenon
     DEF Next, ChainRuns, Closing

\* The turn that ends on a revoked handle is one less to await.
LEMMA AwaitedTurn ==
    ASSUME Data, Silent, Awaited, revoked, chain # <<>>, chain' = Tail(chain), close' = close,
           ahead' = (IF ahead > 0 THEN ahead - 1 ELSE 0)
    PROVE  Awaited'
<1>1. Len(Tail(chain)) = Len(chain) - 1 /\ Len(chain) \in Nat \ {0}
  BY TailOfChain
<1>2. ahead = Len(chain) /\ close # "closed"
  BY Zenon DEF Awaited
<1>3. ahead' = Len(chain')
  BY <1>1, <1>2
<1>4. QED
  BY <1>2, <1>3, Zenon DEF Awaited

\* The settlement of a revoked handle keeps awaiting all of its chain.
LEMMA AwaitedStep == ChainInv /\ Data /\ Silent /\ Awaited /\ [Next]_vars => Awaited'
<1> SUFFICES ASSUME ChainInv, Data, Silent, Awaited, [Next]_vars PROVE Awaited'
  OBVIOUS
<1> USE DEF fixedVars, bufferVars, diskVars, callerVars
<1>0. /\ revoked => close \notin {"open", "draining", "chained", "settling", "releasing"} /\ ~routed /\ ~timer
      /\ revoked /\ drain = "waiting" => buffered = <<>>
  BY DEF Silent
<1>1. CASE UNCHANGED <<revoked, ahead, chain, close>>
  BY <1>1, Zenon DEF Awaited
<1>2. CASE ~revoked'
  BY <1>2, Zenon DEF Awaited
<1>3. CASE Publish \/ TimerFires \/ CloseCalled \/ CloseLoops
  <2>1. ~revoked'
    BY <1>0, <1>3, Zenon DEF Publish, TimerFires, CloseCalled, CloseLoops
  <2>2. QED
    BY <1>2, <2>1
<1>4. CASE StartTurn \/ AcquireLease \/ TruncateTail \/ RewriteTail \/ UNCHANGED vars
  <2>1. UNCHANGED <<revoked, ahead, chain, close>>
    BY <1>4, Zenon DEF StartTurn, AcquireLease, TruncateTail, RewriteTail, vars
  <2>2. QED
    BY <1>1, <2>1
<1>5. ASSUME TurnEnds, chain # <<>>, UNCHANGED <<revoked, close>> PROVE Awaited'
  <2>1. CASE revoked
    BY <1>5, <2>1, AwaitedTurn, Zenon DEF TurnEnds, Ahead
  <2>2. CASE ~revoked
    BY <1>2, <1>5, <2>2, Zenon
  <2>3. QED
    BY <2>1, <2>2
<1>6. CASE FlushTurnReturns
  BY <1>5, <1>6, Zenon DEF FlushTurnReturns
<1>7. ASSUME Turn # "none" PROVE chain # <<>> /\ (Turn = "drain" => drain = "waiting")
  <2>1. chain # <<>> /\ Turn = Head(chain)
    BY <1>7, Zenon DEF Turn, ChainInv
  <2>2. Head(chain) = chain[1] /\ 1 \in 1 .. Len(chain)
    BY <2>1, TailOfChain, ChainMembers, Zenon
  <2>3. QED
    BY <2>1, <2>2, Zenon DEF ChainInv
<1>8. CASE WriteHeader
  BY <1>5, <1>7, <1>8, Zenon DEF WriteHeader, Writable, Acts
<1>9. CASE WriteBatch
  <2>1. CASE revoked
    <3>1. Turn = "drain" /\ Turn # "none"
      BY <1>9 DEF WriteBatch
    <3>2. chain # <<>> /\ buffered = <<>> /\ close # "draining"
      BY <1>0, <1>7, <2>1, <3>1, Zenon
    <3>3. chain' = Tail(chain) /\ close' = close /\ ahead' = (IF ahead > 0 THEN ahead - 1 ELSE 0)
      BY <1>9, <3>2, Zenon DEF WriteBatch, AfterDrainTurn, DrainSettles
    <3>4. QED
      BY <2>1, <3>2, <3>3, AwaitedTurn, Zenon
  <2>2. CASE ~revoked
    BY <1>2, <1>9, <2>2, Zenon DEF WriteBatch
  <2>3. QED
    BY <2>1, <2>2
<1>10. CASE IoFails
  <2>1. CASE revoked /\ Turn = "drain"
    <3>1. chain # <<>> /\ close # "draining"
      BY <1>0, <1>7, <1>10, <2>1, Zenon DEF IoFails, Acts
    <3>2. chain' = Tail(chain) /\ close' = close /\ ahead' = (IF ahead > 0 THEN ahead - 1 ELSE 0)
      BY <1>10, <2>1, <3>1, Zenon DEF IoFails, DrainSettles
    <3>3. QED
      BY <2>1, <3>1, <3>2, AwaitedTurn, Zenon
  <2>2. CASE revoked /\ Turn # "drain"
    BY <1>5, <1>7, <1>10, <2>2, Zenon DEF IoFails, Acts
  <2>3. CASE ~revoked
    BY <1>2, <1>10, <2>3, Zenon DEF IoFails
  <2>4. QED
    BY <2>1, <2>2, <2>3
<1>11. ASSUME NEW b \in Barriers, FlushCalled(b) PROVE Awaited'
  BY <1>0, <1>2, <1>11, Zenon DEF FlushCalled
<1>12. ASSUME NEW b \in Barriers, FlushQueued(b) PROVE Awaited'
  <2>1. CASE revoked
    <3>1. close # "open"
      BY <1>0, <2>1
    <3>2. QED
      BY <1>1, <1>12, <3>1, Zenon DEF FlushQueued
  <2>2. CASE ~revoked
    BY <1>2, <1>12, <2>2, Zenon DEF FlushQueued
  <2>3. QED
    BY <2>1, <2>2
<1>13. CASE ReleaseBegins \/ CloseEnds
  <2>1. ~revoked
    BY <1>0, <1>13 DEF ReleaseBegins, CloseEnds
  <2>2. QED
    BY <1>2, <1>13, <2>1, Zenon DEF ReleaseBegins, CloseEnds
<1>14. CASE RevokeEnds
  <2>1. ahead = 0 /\ UNCHANGED <<revoked, ahead, chain>>
    BY <1>14, Zenon DEF RevokeEnds
  <2>2. ahead = Len(chain) => chain = <<>>
    BY <2>1, TailOfChain
  <2>3. QED
    BY <2>1, <2>2, Zenon DEF Awaited
<1>15. CASE Revoke
  <2>1. ahead' = Len(chain) /\ chain' = chain /\ close' = "revoking"
    BY <1>15, Zenon DEF Revoke
  <2>2. "revoking" # "closed"
    OBVIOUS
  <2>3. QED
    BY <2>1, <2>2, Zenon DEF Awaited
<1>16. QED
  BY <1>3, <1>4, <1>6, <1>8, <1>9, <1>10, <1>11, <1>12, <1>13, <1>14, <1>15, Zenon DEF Next, ChainRuns, Closing

-----------------------------------------------------------------------------
(* What a flush call needs.                                                *)

\* A flush call behind its drain needs nothing that is not stored.
FlushInv ==
    \A b \in Barriers :
        /\ needs[b] <= published
        /\ barrier[b] = "queued" \/ (barrier[b] = "drained" /\ ~revoked) => needs[b] <= Stored

\* With nothing buffered and nothing in hand, all that was published is stored.
LEMMA AllStored ==
    Data /\ NothingLost /\ ~revoked /\ batch = <<>> /\ buffered = <<>> => Stored = published
<1> SUFFICES ASSUME Data, NothingLost, ~revoked, batch = <<>>, buffered = <<>> PROVE Stored = published
  OBVIOUS
<1>1. disk \in Seq(Nat) /\ recovered \in Seq(Nat) /\ published \in Nat
  BY DEF Data
<1>2. disk \o recovered \o <<>> \o <<>> = Upto(published)
  BY Zenon DEF NothingLost, Upto
<1>3. QED
  BY <1>1, <1>2, StoredLog DEF Stored

\* The log of the disk only grows.
LEMMA StoredGrows ==
    Data /\ [Next]_vars => Stored \in Nat /\ Stored' \in Nat /\ Stored <= Stored'
<1> SUFFICES ASSUME Data, [Next]_vars
             PROVE Stored \in Nat /\ Stored' \in Nat /\ Stored <= Stored'
  OBVIOUS
<1> USE DEF fixedVars, bufferVars, diskVars, callerVars
<1>1. disk \in Seq(Nat) /\ recovered \in Seq(Nat) /\ batch \in Seq(Nat)
  BY DEF Data
<1>2. Len(disk) \in Nat /\ Len(recovered) \in Nat /\ Len(batch) \in Nat
  BY <1>1, LenProperties
<1>3. CASE UNCHANGED <<disk, recovered>>
  BY <1>2, <1>3 DEF Stored
<1>4. CASE disk' = disk \o recovered /\ recovered' = <<>>
  <2>1. Len(disk') = Len(disk) + Len(recovered) /\ Len(recovered') = 0
    BY <1>1, <1>4, ConcatProperties
  <2>2. QED
    BY <1>2, <2>1 DEF Stored
<1>5. CASE disk' = disk \o batch /\ recovered' = recovered
  <2>1. Len(disk') = Len(disk) + Len(batch)
    BY <1>1, <1>5, ConcatProperties
  <2>2. QED
    BY <1>2, <1>5, <2>1 DEF Stored
<1>6. QED
  BY <1>3, <1>4, <1>5, Zenon DEF Next, ChainRuns, Closing, Publish, TimerFires, StartTurn, FlushTurnReturns,
     AcquireLease, TruncateTail, RewriteTail, WriteBatch, WriteHeader, IoFails, CloseCalled, CloseLoops,
     ReleaseBegins, CloseEnds, RevokeEnds, Revoke, FlushCalled, FlushQueued, vars

\* A revocation is for ever.
LEMMA RevocationStays == [Next]_vars /\ revoked => revoked'
  BY Zenon DEF Next, ChainRuns, Closing, Publish, TimerFires, StartTurn, FlushTurnReturns, AcquireLease,
     TruncateTail, RewriteTail, WriteBatch, WriteHeader, IoFails, CloseCalled, CloseLoops, ReleaseBegins,
     CloseEnds, RevokeEnds, Revoke, FlushCalled, FlushQueued, vars, fixedVars

\* A flush call that still waits for what it waited for before.
LEMMA FlushKept ==
    ASSUME Data, [Next]_vars, FlushInv, NEW b \in Barriers, needs'[b] = needs[b],
           published' = published \/ published' = published + 1,
           barrier'[b] \notin {"queued", "drained"} \/ barrier'[b] = barrier[b]
                \/ (barrier[b] = "drained" /\ ~revoked)
    PROVE  /\ needs'[b] <= published'
           /\ barrier'[b] = "queued" \/ (barrier'[b] = "drained" /\ ~revoked') => needs'[b] <= Stored'
<1>1. Stored \in Nat /\ Stored' \in Nat /\ Stored <= Stored' /\ published \in Nat /\ needs[b] \in Nat
  BY StoredGrows DEF Data
<1>2. needs[b] <= published
  BY DEF FlushInv
<1>3. needs'[b] <= published'
  BY <1>1, <1>2
<1>4. needs[b] <= Stored => needs'[b] <= Stored'
  BY <1>1
<1>5. barrier'[b] = "queued" \/ (barrier'[b] = "drained" /\ ~revoked')
      => barrier[b] = "queued" \/ (barrier[b] = "drained" /\ ~revoked)
  BY RevocationStays
<1>6. barrier[b] = "queued" \/ (barrier[b] = "drained" /\ ~revoked) => needs[b] <= Stored
  BY Zenon DEF FlushInv
<1>7. QED
  BY <1>3, <1>4, <1>5, <1>6, Zenon

\* What a step does that neither calls a flush nor settles the drain.
LEMMA FlushOthers ==
    ASSUME Data, [Next]_vars, FlushInv, needs' = needs, published' = published \/ published' = published + 1,
           \A b \in Barriers : \/ barrier'[b] \notin {"queued", "drained"} \/ barrier'[b] = barrier[b]
                               \/ barrier[b] = "drained" /\ ~revoked
    PROVE  FlushInv'
<1>1. ASSUME NEW b \in Barriers
      PROVE  /\ needs'[b] <= published'
             /\ barrier'[b] = "queued" \/ (barrier'[b] = "drained" /\ ~revoked') => needs'[b] <= Stored'
  BY FlushKept, Zenon
<1>2. QED
  BY <1>1, Zenon DEF FlushInv

\* Every step keeps it.
LEMMA FlushStep ==
    Data /\ Data' /\ ChainInv /\ Silent /\ NothingLost /\ NothingLost' /\ FlushInv /\ [Next]_vars => FlushInv'
<1> SUFFICES ASSUME Data, Data', ChainInv, Silent, NothingLost, NothingLost', FlushInv, [Next]_vars
             PROVE FlushInv'
  OBVIOUS
<1> USE DEF fixedVars, bufferVars, diskVars, callerVars
<1>1. CASE UNCHANGED <<published, needs, barrier>>
  BY <1>1, FlushOthers, Zenon
<1>2. CASE Publish
  BY <1>2, FlushOthers, Zenon DEF Publish
<1>3. CASE TimerFires \/ StartTurn \/ AcquireLease \/ TruncateTail \/ RewriteTail \/ UNCHANGED vars
  BY <1>1, <1>3, Zenon DEF TimerFires, StartTurn, AcquireLease, TruncateTail, RewriteTail, vars
<1>4. CASE CloseCalled \/ CloseLoops \/ ReleaseBegins \/ CloseEnds \/ RevokeEnds \/ Revoke
  BY <1>1, <1>4, Zenon DEF CloseCalled, CloseLoops, ReleaseBegins, CloseEnds, RevokeEnds, Revoke
<1>5. ASSUME NEW c, NEW v \in {"resolved", "rejected"}, barrier' = [barrier EXCEPT ![c] = v],
             UNCHANGED <<published, needs>>
      PROVE  FlushInv'
  <2>1. \A b \in Barriers : barrier'[b] \notin {"queued", "drained"} \/ barrier'[b] = barrier[b]
    BY <1>5 DEF Data
  <2>2. QED
    BY <1>5, <2>1, FlushOthers, Zenon
<1>6. CASE FlushTurnReturns
  <2>1. PICK v \in {"resolved", "rejected"} : barrier' = [barrier EXCEPT ![Head(chain)] = v]
    BY <1>6 DEF FlushTurnReturns
  <2>2. QED
    BY <1>5, <1>6, <2>1, Zenon DEF FlushTurnReturns
<1>7. CASE WriteHeader
  BY <1>5, <1>7 DEF WriteHeader
<1>8. CASE WriteBatch
  <2>1. UNCHANGED <<published, needs, buffered>> /\ batch' = <<>>
    BY <1>8, Zenon DEF WriteBatch, AfterDrainTurn
  <2>2. CASE buffered # <<>>
    BY <1>1, <1>8, <2>1, <2>2, Zenon DEF WriteBatch, AfterDrainTurn
  <2>3. CASE buffered = <<>>
    <3>1. barrier' = [b \in Barriers |-> IF barrier[b] = "draining" THEN "drained" ELSE barrier[b]]
      BY <1>8, <2>3, Zenon DEF WriteBatch, AfterDrainTurn, DrainSettles
    <3>2. ~revoked' => Stored' = published'
      <4>1. ~revoked' => disk' \o recovered' \o <<>> \o <<>> = Upto(published')
        BY <2>1, <2>3, Zenon DEF NothingLost, Upto
      <4>2. disk' \in Seq(Nat) /\ recovered' \in Seq(Nat) /\ published' \in Nat
        BY DEF Data
      <4>3. ~revoked' => Len(disk') + Len(recovered') = published'
        BY <4>1, <4>2, StoredLog, Zenon
      <4>4. QED
        BY <4>3, Zenon DEF Stored
    <3>3. ASSUME NEW b \in Barriers
          PROVE  /\ needs'[b] <= published'
                 /\ barrier'[b] = "queued" \/ (barrier'[b] = "drained" /\ ~revoked') => needs'[b] <= Stored'
      <4>1. CASE barrier[b] = "draining"
        <5>1. barrier'[b] = "drained"
          BY <3>1, <4>1
        <5>2. needs'[b] <= published'
          BY <2>1, Zenon DEF FlushInv
        <5>3. "drained" # "queued"
          OBVIOUS
        <5>4. QED
          BY <3>2, <5>1, <5>2, <5>3, Zenon
      <4>2. CASE barrier[b] # "draining"
        <5>1. barrier'[b] = barrier[b]
          BY <3>1, <4>2
        <5>2. QED
          BY <2>1, <5>1, FlushKept, Zenon
      <4>3. QED
        BY <4>1, <4>2
    <3>4. QED
      BY <3>3, Zenon DEF FlushInv
  <2>4. QED
    BY <2>2, <2>3
<1>9. CASE IoFails
  <2>1. CASE Turn = "drain"
    <3>1. /\ barrier' = [b \in Barriers |-> IF barrier[b] = "draining" THEN "rejected" ELSE barrier[b]]
          /\ UNCHANGED <<published, needs>>
      BY <1>9, <2>1, Zenon DEF IoFails, DrainSettles
    <3>2. \A b \in Barriers : barrier'[b] \notin {"queued", "drained"} \/ barrier'[b] = barrier[b]
      BY <3>1
    <3>3. QED
      BY <3>1, <3>2, FlushOthers, Zenon
  <2>2. CASE Turn # "drain"
    BY <1>5, <1>9, <2>2 DEF IoFails
  <2>3. QED
    BY <2>1, <2>2
<1>10. ASSUME NEW c \in Barriers, FlushCalled(c) PROVE FlushInv'
  <2>1. /\ published' = published /\ needs' = [needs EXCEPT ![c] = published]
        /\ barrier' = [barrier EXCEPT ![c] = IF DrainWaits THEN "draining" ELSE "drained"]
        /\ UNCHANGED <<disk, recovered, revoked>> /\ routed
    BY <1>10, Zenon DEF FlushCalled
  <2>2. ~revoked
    BY <2>1, Zenon DEF Silent
  <2>3. ~DrainWaits => Stored = published
    <3>1. ~DrainWaits => drain = "idle" /\ buffered = <<>>
      BY DEF DrainWaits
    <3>2. drain = "idle" => batch = <<>>
      <4>1. batch # <<>> => chain # <<>> /\ chain[1] = "drain"
        BY Zenon DEF ChainInv
      <4>2. QED
        BY <4>1, ChainMembers
    <3>3. QED
      BY <2>2, <3>1, <3>2, AllStored, Zenon
  <2>4. published \in Nat /\ Stored' = Stored
    BY <2>1 DEF Data, Stored
  <2>5. ASSUME NEW b \in Barriers
        PROVE  /\ needs'[b] <= published'
               /\ barrier'[b] = "queued" \/ (barrier'[b] = "drained" /\ ~revoked') => needs'[b] <= Stored'
    <3>1. CASE b = c
      <4>1. needs'[b] = published
        BY <2>1, <3>1 DEF Data
      <4>2. barrier'[b] = IF DrainWaits THEN "draining" ELSE "drained"
        BY <2>1, <3>1 DEF Data
      <4>3. published <= published
        BY <2>4
      <4>4. barrier'[b] \in {"queued", "drained"} => ~DrainWaits
        BY <4>2
      <4>5. QED
        BY <2>1, <2>3, <2>4, <4>1, <4>3, <4>4
    <3>2. CASE b # c
      <4>1. needs'[b] = needs[b] /\ barrier'[b] = barrier[b]
        BY <2>1, <3>2 DEF Data
      <4>2. QED
        BY <2>1, <4>1, FlushKept, Zenon
    <3>3. QED
      BY <3>1, <3>2
  <2>6. QED
    BY <2>5, Zenon DEF FlushInv
<1>11. ASSUME NEW c \in Barriers, FlushQueued(c) PROVE FlushInv'
  <2>1. UNCHANGED <<published, needs>> /\ barrier[c] = "drained"
    BY <1>11, Zenon DEF FlushQueued
  <2>2. CASE close = "open"
    <3>1. barrier' = [barrier EXCEPT ![c] = "queued"]
      BY <1>11, <2>2, Zenon DEF FlushQueued
    <3>2. ~revoked
      BY <2>2 DEF Silent
    <3>3. \A b \in Barriers : barrier'[b] = barrier[b] \/ (barrier[b] = "drained" /\ ~revoked)
      BY <2>1, <3>1, <3>2 DEF Data
    <3>4. QED
      BY <2>1, <3>3, FlushOthers, Zenon
  <2>3. CASE close # "open"
    <3>1. barrier' = [barrier EXCEPT ![c] = "rejected"]
      BY <1>11, <2>3, Zenon DEF FlushQueued
    <3>2. QED
      BY <1>5, <2>1, <3>1
  <2>4. QED
    BY <2>2, <2>3
<1>12. QED
  BY <1>2, <1>3, <1>4, <1>6, <1>7, <1>8, <1>9, <1>10, <1>11, Zenon DEF Next, ChainRuns, Closing

-----------------------------------------------------------------------------
(* The theorems.                                                           *)

Inv == TypeOK /\ ChainInv /\ NothingLost /\ Silent /\ Awaited /\ FlushInv

\* A handle starts in the invariant.
LEMMA InvInit == Init => Inv
<1> SUFFICES ASSUME Init PROVE Inv
  OBVIOUS
<1>1. TypeOK /\ ChainInv /\ NothingLost
  BY TypeInit, ChainInit, LossInit, Zenon
<1>2. Silent /\ Awaited
  BY Zenon DEF Init, Silent, Awaited
<1>3. FlushInv
  <2>1. published \in Nat
    BY <1>1, Zenon DEF TypeOK, Data
  <2>2. \A b \in Barriers : needs[b] = 0 /\ barrier[b] = "idle"
    BY DEF Init
  <2>3. QED
    BY <2>1, <2>2 DEF FlushInv
<1>4. QED
  BY <1>1, <1>2, <1>3, Zenon DEF Inv

\* Every step keeps the invariant.
LEMMA InvStep == Inv /\ [Next]_vars => Inv'
<1> SUFFICES ASSUME Inv, [Next]_vars PROVE Inv'
  OBVIOUS
<1>1. Flags' /\ Data' /\ ChainInv'
  BY FlagsStep, DataStep, ChainStep, Zenon DEF Inv, TypeOK
<1>2. NothingLost' /\ Silent' /\ Awaited'
  BY LossStep, SilentStep, AwaitedStep, Zenon DEF Inv, TypeOK
<1>3. FlushInv'
  BY <1>1, <1>2, FlushStep, Zenon DEF Inv, TypeOK
<1>4. QED
  BY <1>1, <1>2, <1>3, Zenon DEF Inv, TypeOK

\* The inductive invariant of the write handle: its mutation chain, its log, and
\* what a revoked handle and a waiting flush call may rely on.
THEOREM HandleInvariant == Spec => []Inv
  BY InvInit, InvStep, PTL DEF Spec

\* Type correctness of the write handle (storage.ts, JsonlSessionHandle).
THEOREM Typing == Spec => []TypeOK
<1>1. Inv => TypeOK
  BY Zenon DEF Inv
<1>2. QED
  BY <1>1, HandleInvariant, PTL

\* Whatever fails and is retried, and whoever drains, every event published to
\* the handle is on the disk, recovered, in hand or buffered, once and in order.
THEOREM NothingIsEverLost == Spec => []NothingLost
<1>1. Inv => NothingLost
  BY Zenon DEF Inv
<1>2. QED
  BY <1>1, HandleInvariant, PTL

\* Nothing writes after a revoked handle's settlement resolved: the settlement
\* awaited the whole chain, and nothing joins the chain any more.
THEOREM RevokedNeverWrites == Spec => RevokedWritesNothing
<1>1. Inv /\ [Next]_vars => (revoked /\ close = "closed" => UNCHANGED diskVars)
  <2> SUFFICES ASSUME Inv, [Next]_vars, revoked, close = "closed" PROVE UNCHANGED diskVars
    OBVIOUS
  <2>1. chain = <<>>
    BY Zenon DEF Inv, Awaited
  <2>2. ~started
    BY <2>1, Zenon DEF Inv, ChainInv
  <2>3. Turn = "none"
    BY <2>2, Zenon DEF Turn
  <2>4. "none" # "drain"
    OBVIOUS
  <2>5. ~TruncateTail /\ ~RewriteTail /\ ~WriteBatch /\ ~WriteHeader
    BY <2>3, <2>4, Zenon DEF TruncateTail, RewriteTail, WriteBatch, WriteHeader, Writable, Acts
  <2>6. QED
    BY <2>5, Zenon DEF Next, ChainRuns, Closing, Publish, TimerFires, StartTurn, FlushTurnReturns, AcquireLease,
       IoFails, CloseCalled, CloseLoops, ReleaseBegins, CloseEnds, RevokeEnds, Revoke, FlushCalled, FlushQueued,
       vars, diskVars
<1>2. QED
  BY <1>1, HandleInvariant, PTL DEF Spec, RevokedWritesNothing

\* A flush call that resolves has stored all that was published before it was
\* made: the drain it joined settled with nothing left, or there was nothing.
THEOREM FlushAlwaysDurable == Spec => FlushIsDurable
<1>1. Inv /\ [Next]_vars
      => \A b \in Barriers : barrier[b] # "resolved" /\ barrier'[b] = "resolved"
                             => materialized' /\ needs[b] <= Stored'
  <2> SUFFICES ASSUME Inv, [Next]_vars, NEW b \in Barriers, barrier[b] # "resolved", barrier'[b] = "resolved"
               PROVE materialized' /\ needs[b] <= Stored'
    OBVIOUS
  <2> USE DEF fixedVars, bufferVars, diskVars, callerVars
  <2>1. Data /\ ChainInv /\ barrier \in [Barriers -> BarrierStates] /\ needs[b] \in Nat
    BY DEF Inv, TypeOK, Data
  <2>2. Stored \in Nat /\ Stored' \in Nat /\ Stored <= Stored'
    BY <2>1, StoredGrows
  <2>3. barrier[b] = "queued" => needs[b] <= Stored'
    BY <2>1, <2>2 DEF Inv, FlushInv
  <2>4. ASSUME chain # <<>>, Head(chain) # "drain", NEW v, barrier' = [barrier EXCEPT ![Head(chain)] = v]
        PROVE  barrier[b] = "queued" /\ v = "resolved"
    <3>1. Head(chain) = chain[1] /\ 1 \in 1 .. Len(chain) /\ chain[1] \in Barriers
      BY <2>1, <2>4, TailOfChain, ChainMembers, Zenon
    <3>2. barrier[Head(chain)] = "queued"
      BY <2>1, <2>4, <3>1, Zenon DEF ChainInv
    <3>3. b = Head(chain) /\ v = "resolved"
      BY <2>1, <2>4, <3>1
    <3>4. QED
      BY <3>2, <3>3
  <2>5. CASE FlushTurnReturns
    <3>1. /\ chain # <<>> /\ Head(chain) # "drain" /\ (close # "open" \/ materialized)
          /\ barrier' = [barrier EXCEPT ![Head(chain)] = IF close = "open" THEN "resolved" ELSE "rejected"]
          /\ materialized' = materialized
      BY <2>5, Zenon DEF FlushTurnReturns
    <3>2. barrier[b] = "queued" /\ (IF close = "open" THEN "resolved" ELSE "rejected") = "resolved"
      BY <2>4, <3>1, Zenon
    <3>3. close = "open"
      BY <3>2
    <3>4. QED
      BY <2>3, <3>1, <3>2, <3>3, Zenon
  <2>6. ASSUME Turn # "none", Turn # "drain"
        PROVE  chain # <<>> /\ Head(chain) # "drain" /\ Turn = Head(chain)
    BY <2>1, <2>6, Zenon DEF Turn, ChainInv
  <2>7. CASE WriteHeader
    <3>1. Turn # "none" /\ Turn # "drain" /\ materialized' = TRUE /\ barrier' = [barrier EXCEPT ![Turn] = "resolved"]
      BY <2>7, Zenon DEF WriteHeader, Writable, Acts
    <3>2. barrier[b] = "queued"
      BY <2>4, <2>6, <3>1, Zenon
    <3>3. QED
      BY <2>3, <3>1, <3>2, Zenon
  <2>8. CASE WriteBatch
    <3>1. \/ barrier' = barrier
          \/ barrier' = [c \in Barriers |-> IF barrier[c] = "draining" THEN "drained" ELSE barrier[c]]
      BY <2>8, Zenon DEF WriteBatch, AfterDrainTurn, DrainSettles
    <3>2. QED
      BY <3>1
  <2>9. CASE IoFails
    <3>1. CASE Turn = "drain"
      <4>1. barrier' = [c \in Barriers |-> IF barrier[c] = "draining" THEN "rejected" ELSE barrier[c]]
        BY <2>9, <3>1, Zenon DEF IoFails, DrainSettles
      <4>2. QED
        BY <4>1
    <3>2. CASE Turn # "drain"
      <4>1. barrier' = [barrier EXCEPT ![Turn] = "rejected"]
        BY <2>9, <3>2, Zenon DEF IoFails
      <4>2. QED
        BY <2>1, <4>1
    <3>3. QED
      BY <3>1, <3>2
  <2>10. ASSUME NEW c \in Barriers, FlushCalled(c) \/ FlushQueued(c) PROVE FALSE
    <3>1. PICK v \in {"draining", "drained", "queued", "rejected"} : barrier' = [barrier EXCEPT ![c] = v]
      <4>1. \/ barrier' = [barrier EXCEPT ![c] = IF DrainWaits THEN "draining" ELSE "drained"]
            \/ barrier' = [barrier EXCEPT ![c] = "queued"] \/ barrier' = [barrier EXCEPT ![c] = "rejected"]
        BY <2>10, Zenon DEF FlushCalled, FlushQueued
      <4>2. QED
        BY <4>1
    <3>2. QED
      BY <2>1, <3>1
  <2>11. barrier' # barrier
    OBVIOUS
  <2>12. QED
    BY <2>5, <2>7, <2>8, <2>9, <2>10, <2>11, Zenon DEF Next, ChainRuns, Closing, Publish, TimerFires, StartTurn,
       AcquireLease, TruncateTail, RewriteTail, CloseCalled, CloseLoops, ReleaseBegins, CloseEnds, RevokeEnds,
       Revoke, vars
<1>2. QED
  BY <1>1, HandleInvariant, PTL DEF Spec, FlushIsDurable

=============================================================================
