----------------------- MODULE ScheduleRuntime_proofs -----------------------
(***************************************************************************)
(* Proofs about ScheduleRuntime, for every set of rules and every bound:   *)
(* its types, the serial queue, that a follow-up is decided from what is   *)
(* on disk, and that a process sends one firing's message once.            *)
(***************************************************************************)
EXTENDS ScheduleRuntime, SequenceTheorems, FiniteSetTheorems, WellFoundedInduction, TLAPS

-----------------------------------------------------------------------------
(* The fold.                                                               *)

\* A nonempty set of positions has a last one.
LEMMA LastExists ==
  ASSUME NEW n \in Nat, NEW T \in SUBSET (1 .. n), T # {}
  PROVE  \E m \in T : \A j \in T : j <= m
<1> DEFINE D == {n - j : j \in T}
<1>1. D \subseteq Nat /\ D # {}
  <2>1. T \subseteq 1 .. n
    OBVIOUS
  <2>2. \A j \in T : n - j \in Nat
    BY <2>1
  <2>3. QED
    BY <2>2
<1>2. PICK d \in D : \A e \in D : <<e, d>> \notin OpToRel(<, Nat)
  BY <1>1, NatLessThanWellFounded, WFMin
<1>3. PICK m \in T : d = n - m
  OBVIOUS
<1>4. ASSUME NEW j \in T PROVE j <= m
  <2>1. n - j \in D
    OBVIOUS
  <2>2. ~(n - j < n - m)
    BY <1>1, <1>2, <1>3, <2>1 DEF OpToRel
  <2>3. j \in Nat /\ m \in Nat
    OBVIOUS
  <2>4. QED
    BY <2>2, <2>3
<1>5. QED
  BY <1>4

\* A reminder in the log has a record and a target.
LEMMA TargetType ==
  ASSUME TypeOK, NEW id \in Created
  PROVE  /\ id \in Nat /\ Record(id) \in Entry /\ Target(id) \in Int
         /\ \A target, time \in Int : Occurrence(id, target, time) \in Int
<1>1. Len(log) \in Nat /\ DOMAIN log = 1 .. Len(log) /\ \A i \in DOMAIN log : log[i] \in Entry
  BY ElementOfSeq, LenProperties DEF TypeOK
<1>2. id \in Nat
  BY <1>1 DEF Created, Entry
<1>3. Events("create", id) # {} /\ Events("create", id) \subseteq DOMAIN log
  BY DEF Events, Created
<1>4. Record(id) \in Entry
  BY <1>1, <1>3 DEF Record
<1>5. Record(id).at \in Int /\ Record(id).every \in Nat
  BY <1>4 DEF Entry
<1>6. ASSUME NEW target \in Int, NEW time \in Int PROVE Occurrence(id, target, time) \in Int
  <2>1. CASE OneShot(id)
    BY <2>1 DEF Occurrence
  <2>2. CASE ~OneShot(id)
    <3>1. Record(id).every > 0
      BY <1>5, <2>2 DEF OneShot
    <3>2. (time - target) \div Record(id).every \in Int
      BY <1>5, <3>1
    <3>3. QED
      BY <1>5, <2>2, <3>2 DEF Occurrence
  <2>3. QED
    BY <2>1, <2>2
<1>7. Target(id) \in Int
  <2> DEFINE dispatches == Events("dispatch", id)
             last == CHOOSE i \in dispatches : \A j \in dispatches : j <= i
  <2>1. CASE dispatches = {}
    BY <1>5, <2>1 DEF Target
  <2>2. CASE dispatches # {}
    <3>1. dispatches \in SUBSET (1 .. Len(log))
      BY <1>1 DEF Events
    <3>2. last \in dispatches
      BY <1>1, <2>2, <3>1, LastExists
    <3>3. log[last].at \in Int
      BY <1>1, <3>1, <3>2 DEF Entry
    <3>4. Occurrence(id, Record(id).at, log[last].at) \in Int
      BY <1>5, <1>6, <3>3
    <3>5. Target(id) = Occurrence(id, Record(id).at, log[last].at) + Record(id).every
      BY <2>2 DEF Target
    <3>6. QED
      BY <1>5, <3>4, <3>5
  <2>3. QED
    BY <2>1, <2>2
<1>8. QED
  BY <1>2, <1>4, <1>6, <1>7

\* The log creates finitely many reminders, and a decision is among them.
LEMMA DecisionFinite ==
  ASSUME TypeOK
  PROVE  Decision \subseteq Created /\ IsFiniteSet(Created) /\ IsFiniteSet(Decision)
<1>1. Len(log) \in Nat /\ DOMAIN log = 1 .. Len(log)
  BY LenProperties DEF TypeOK
<1>2. Decision \subseteq Created
  BY DEF Decision, Due, Active
<1>3. IsFiniteSet(Created)
  <2> DEFINE creations == {j \in DOMAIN log : log[j].op = "create"}
  <2>1. IsFiniteSet(creations)
    <3>1. IsFiniteSet(1 .. Len(log))
      BY <1>1, FS_Interval
    <3>2. QED
      BY <1>1, <3>1, FS_Subset
  <2>2. PICK m \in Nat : ExistsSurjection(1 .. m, creations)
    BY <2>1, FS_NatSurjection
  <2>3. PICK h \in Surjection(1 .. m, creations) : TRUE
    BY <2>2 DEF ExistsSurjection
  <2> DEFINE g == [i \in 1 .. m |-> log[h[i]].id]
  <2>4. g \in Surjection(1 .. m, Created)
    BY <2>3 DEF Surjection, Created
  <2>5. QED
    BY <2>4, FS_NatSurjection DEF ExistsSurjection
<1>4. QED
  BY <1>2, <1>3, FS_Subset

\* What is sent of a decision names reminders and occurrences.
LEMMA DecisionType ==
  ASSUME TypeOK
  PROVE  /\ Decision \subseteq Created /\ Created \subseteq Nat
         /\ Cardinality(Created) \in Nat /\ Cardinality(Decision) \in Nat
         /\ Sent \in SUBSET (Nat \X Int)
<1>1. Decision \subseteq Created /\ Cardinality(Created) \in Nat /\ Cardinality(Decision) \in Nat
  BY DecisionFinite, FS_CardinalityType
<1>2. Created \subseteq Nat
  BY TargetType
<1>3. now \in Int
  BY DEF TypeOK
<1>4. ASSUME NEW id \in Decision PROVE <<id, Occurrence(id, Target(id), now)>> \in Nat \X Int
  BY <1>1, <1>3, TargetType
<1>5. QED
  BY <1>1, <1>2, <1>4 DEF Sent

\* A batch is dispatched by one event for each of its reminders.
LEMMA DispatchesType ==
  ASSUME TypeOK, NEW order \in InOrder(Decision)
  PROVE  Dispatches(order) \in Seq(Entry) /\ Len(Dispatches(order)) = Cardinality(Decision)
<1> DEFINE n == Cardinality(Decision)
<1>1. n \in Nat /\ Decision \subseteq Nat
  BY DecisionType
<1>2. order \in [1 .. n -> Decision]
  BY DEF InOrder
<1>3. ASSUME NEW id \in Nat PROVE Event("dispatch", id, now, 0) \in Entry
  BY DEF Event, Entry, TypeOK
<1> DEFINE f == Dispatches(order)
<1>4. f \in [1 .. n -> Entry]
  BY <1>1, <1>2, <1>3 DEF Dispatches
<1> HIDE DEF f, n
<1>5. [i \in 1 .. n |-> f[i]] \in Seq(Entry) /\ Len([i \in 1 .. n |-> f[i]]) = n
  BY <1>1, <1>4
<1>6. f = [i \in 1 .. n |-> f[i]]
  BY <1>4
<1>7. QED
  BY <1>5, <1>6 DEF f, n

\* What a drive appends keeps the log's type.
LEMMA SentType ==
  ASSUME TypeOK, NEW order \in InOrder(Decision), NEW k \in Int
  PROVE  /\ Append(log, Followup(Sent)) \o Dispatches(order) \in Seq(Entry)
         /\ k <= Cardinality(Decision) => Append(log, Followup(Sent)) \o SubSeq(Dispatches(order), 1, k) \in Seq(Entry)
<1> DEFINE f == Dispatches(order)
<1>1. f \in Seq(Entry) /\ Len(f) = Cardinality(Decision) /\ Cardinality(Decision) \in Nat
  BY DispatchesType, DecisionType
<1> HIDE DEF f
<1>2. Append(log, Followup(Sent)) \in Seq(Entry)
  <2>1. Followup(Sent) \in Entry
    BY DecisionType DEF Followup, Entry, TypeOK
  <2>2. QED
    BY <2>1 DEF TypeOK
<1>3. ASSUME k <= Cardinality(Decision) PROVE SubSeq(f, 1, k) \in Seq(Entry)
  <2>1. \A i \in 1 .. k : f[i] \in Entry
    BY <1>1, <1>3, ElementOfSeq
  <2>2. QED
    BY <2>1, SubSeqProperties, 1 \in Int
<1>4. QED
  BY <1>1, <1>2, <1>3, ConcatProperties DEF f

-----------------------------------------------------------------------------
(* The serial queue.                                                       *)

\* Only the first transaction has begun, and what its preflight flushes is all
\* of a log of n events.
Serial(q, n) ==
    /\ q \in Seq(Transaction)
    /\ \A i \in DOMAIN q : (i > 1 => q[i].at = "start") /\ (q[i].at = "preflight" => q[i].upTo = n)

\* A transaction that has not begun may be queued.
LEMMA SerialAppend ==
  ASSUME NEW q, NEW n, Serial(q, n), NEW t \in Transaction, t.at = "start"
  PROVE  Serial(Append(q, t), n)
<1>1. Len(q) \in Nat /\ DOMAIN q = 1 .. Len(q) /\ Append(q, t) \in Seq(Transaction)
  BY LenProperties DEF Serial
<1>2. DOMAIN Append(q, t) = 1 .. Len(q) + 1
  BY <1>1 DEF Serial
<1>3. ASSUME NEW i \in 1 .. Len(q) + 1 PROVE IF i = Len(q) + 1 THEN Append(q, t)[i] = t ELSE Append(q, t)[i] = q[i]
  BY <1>1 DEF Serial
<1>4. QED
  BY <1>1, <1>2, <1>3 DEF Serial

\* What is left of the queue when the first transaction leaves it.
LEMMA WithoutFirst ==
  ASSUME queue \in Seq(Transaction), 1 \in DOMAIN queue
  PROVE  /\ Without(1) \in Seq(Transaction) /\ DOMAIN Without(1) = 1 .. Len(queue) - 1
         /\ \A i \in DOMAIN Without(1) : Without(1)[i] = queue[i + 1]
<1>1. Len(queue) \in Nat /\ DOMAIN queue = 1 .. Len(queue) /\ \A i \in DOMAIN queue : queue[i] \in Transaction
  BY LenProperties, ElementOfSeq
<1> DEFINE rest == SubSeq(queue, 2, Len(queue))
<1>2. SubSeq(queue, 1, 1 - 1) = << >>
  BY SubSeqEmpty
<1>3. /\ rest \in Seq(Transaction) /\ Len(rest) = Len(queue) - 1
      /\ \A i \in 1 .. Len(queue) - 1 : rest[i] = queue[i + 1]
  BY <1>1, SubSeqProperties, 1 \in DOMAIN queue
<1>4. Without(1) = rest
  <2>1. Without(1) = << >> \o rest
    BY <1>2 DEF Without
  <2>2. QED
    BY <1>3, <2>1, ConcatEmptySeq
<1>5. DOMAIN rest = 1 .. Len(queue) - 1
  BY <1>3, LenProperties
<1>6. QED
  BY <1>3, <1>4, <1>5

\* The first transaction may leave, whatever it appended.
LEMMA SerialWithout ==
  ASSUME NEW n, NEW m, Serial(queue, n), 1 \in DOMAIN queue
  PROVE  Serial(Without(1), m)
<1>1. Len(queue) \in Nat /\ DOMAIN queue = 1 .. Len(queue)
  BY LenProperties DEF Serial
<1>2. /\ Without(1) \in Seq(Transaction) /\ DOMAIN Without(1) = 1 .. Len(queue) - 1
      /\ \A i \in DOMAIN Without(1) : Without(1)[i] = queue[i + 1]
  BY WithoutFirst DEF Serial
<1>3. \A i \in DOMAIN Without(1) : i + 1 \in DOMAIN queue /\ i + 1 > 1
  BY <1>1, <1>2
<1>4. \A i \in DOMAIN Without(1) : Without(1)[i].at = "start"
  BY <1>2, <1>3 DEF Serial
<1>5. QED
  BY <1>2, <1>4 DEF Serial

\* The first transaction may go on: past its preflight, or into it.
LEMMA SerialBecomes ==
  ASSUME Serial(queue, Len(log)), 1 \in DOMAIN queue, Len(log') \in Nat,
         NEW at \in {"preflight", "barrier", "sent", "unrecorded", "unsent"}
  PROVE  Serial(Becomes(1, at), Len(log'))
<1> DEFINE t == [queue[1] EXCEPT !.at = at, !.upTo = Len(log')]
<1>1. Len(queue) \in Nat /\ DOMAIN queue = 1 .. Len(queue) /\ \A i \in DOMAIN queue : queue[i] \in Transaction
  BY LenProperties, ElementOfSeq DEF Serial
<1>2. t \in Transaction /\ t.at = at /\ t.upTo = Len(log')
  BY <1>1 DEF Transaction
<1>3. Becomes(1, at) = [queue EXCEPT ![1] = t]
  BY DEF Becomes
<1> HIDE DEF t
<1>4. /\ [queue EXCEPT ![1] = t] \in Seq(Transaction) /\ DOMAIN [queue EXCEPT ![1] = t] = DOMAIN queue
      /\ \A i \in DOMAIN queue : [queue EXCEPT ![1] = t][i] = IF i = 1 THEN t ELSE queue[i]
  BY <1>1, <1>2 DEF Serial
<1>5. \A i \in DOMAIN queue : i # 1 => queue[i].at = "start"
  BY <1>1 DEF Serial
<1>6. QED
  BY <1>2, <1>3, <1>4, <1>5 DEF Serial

\* A drive is queued before it begins.
LEMMA DriveType == Drive \in Transaction /\ Drive.at = "start"
  BY DEF Drive, Transaction

\* A requested drive waits its turn.
LEMMA SerialRequest ==
  ASSUME NEW q, NEW n, Serial(q, n), RequestDrive(q)
  PROVE  Serial(queue', n)
<1>1. Serial(Append(q, Drive), n)
  BY DriveType, SerialAppend
<1>2. queue' = q \/ queue' = Append(q, Drive)
  BY DEF RequestDrive
<1>3. QED
  BY <1>1, <1>2

-----------------------------------------------------------------------------
(* The invariant.                                                          *)

ScheduleInv == TypeOK /\ Serial(queue, Len(log))

\* A fresh runtime satisfies the invariant.
LEMMA InvInit == Init => ScheduleInv
<1> SUFFICES ASSUME Init PROVE ScheduleInv
  OBVIOUS
<1>1. queue \in Seq(Transaction) /\ DOMAIN queue = {1} /\ queue[1] = Drive
  BY DriveType DEF Init
<1>2. log \in Seq(Entry) /\ Len(log) = 0
  BY DEF Init
<1>3. Serial(queue, Len(log))
  BY <1>1, <1>2, DriveType DEF Serial
<1>4. QED
  <2>1. requested \in BOOLEAN /\ faulted \in BOOLEAN /\ idleWait \in BOOLEAN /\ missed \in BOOLEAN
    BY DEF Init
  <2>2. /\ stored \in Nat /\ now \in Nat /\ timer \in Int /\ calls \in Nat /\ faults \in Nat /\ life \in Nat
        /\ activities \in [{"running", "busy"} -> Nat]
    BY DEF Init, None
  <2>3. /\ phase \in {"idle", "running", "maintenance", "busy"} /\ disposal \in {"no", "stopping", "done"}
        /\ run \in {"none", "driving", "checking", "retiring"}
    BY DEF Init
  <2>4. QED
    BY <1>1, <1>2, <1>3, <2>1, <2>2, <2>3 DEF ScheduleInv, TypeOK

\* What RequestDrive assigns keeps its type.
LEMMA RequestType ==
  ASSUME TypeOK, NEW q, RequestDrive(q)
  PROVE  timer' \in Int /\ requested' \in BOOLEAN /\ missed' \in BOOLEAN
         /\ run' \in {"none", "driving", "checking", "retiring"}
<1>1. CASE Stopping \/ faulted
  <2>1. timer' = timer /\ requested' = requested /\ run' = run /\ missed' = missed
    BY <1>1 DEF RequestDrive
  <2>2. QED
    BY <2>1 DEF TypeOK
<1>2. CASE ~(Stopping \/ faulted)
  <2>1. timer' = None /\ missed' = FALSE /\ (requested' = FALSE \/ requested' = TRUE) /\ (run' = "driving" \/ run' = run)
    BY <1>2 DEF RequestDrive
  <2>2. timer' \in Int /\ run' \in {"none", "driving", "checking", "retiring"}
    BY <2>1 DEF TypeOK, None
  <2>3. requested' \in BOOLEAN /\ missed' \in BOOLEAN
    BY <2>1
  <2>4. QED
    BY <2>2, <2>3
<1>3. QED
  BY <1>1, <1>2

\* Delays are armed in whole numbers, when nothing is due.
LEMMA ArmedType ==
  ASSUME TypeOK, Due = {}
  PROVE  Armed({Target(id) : id \in Active}) \in Int
<1> DEFINE targets == {Target(id) : id \in Active}
           waits == {t - now : t \in targets}
           first == CHOOSE t \in targets : \A u \in targets : t <= u
<1>0. now \in Nat /\ MaxDelay \in Nat
  BY ScheduleAssumption DEF TypeOK
<1>1. \A id \in Active : Target(id) \in Int /\ Target(id) > now
  BY TargetType DEF Active, Due, TypeOK
<1>2. targets \subseteq Int /\ \A t \in targets : t > now
  BY <1>1
<1>3. CASE targets = {}
  BY <1>3 DEF Armed, None
<1>4. CASE targets # {}
  <2>1. waits \subseteq Nat /\ waits # {}
    <3>1. \A t \in targets : t - now \in Nat
      BY <1>0, <1>2
    <3>2. QED
      BY <1>4, <3>1
  <2>2. PICK d \in waits : \A e \in waits : <<e, d>> \notin OpToRel(<, Nat)
    BY <2>1, NatLessThanWellFounded, WFMin
  <2>3. PICK t \in targets : d = t - now
    OBVIOUS
  <2>4. ASSUME NEW u \in targets PROVE t <= u
    <3>1. u - now \in waits
      OBVIOUS
    <3>2. ~(u - now < t - now)
      BY <2>1, <2>2, <2>3, <3>1 DEF OpToRel
    <3>3. t \in Int /\ u \in Int
      BY <1>2
    <3>4. QED
      BY <1>0, <3>2, <3>3
  <2>5. first \in targets
    BY <2>4
  <2>6. first - now \in Int /\ MaxDelay \in Int
    <3>1. first \in Int
      BY <1>2, <2>5
    <3> HIDE DEF first
    <3>2. QED
      BY <1>0, <3>1
  <2>7. Armed(targets) = IF first - now < MaxDelay THEN first - now ELSE MaxDelay
    BY <1>4 DEF Armed
  <2>8. QED
    BY <2>6, <2>7
<1>5. QED
  BY <1>3, <1>4

\* The types after a step, but for the log's and the queue's.
Kept == /\ stored' \in Nat /\ now' \in Nat /\ timer' \in Int
        /\ phase' \in {"idle", "running", "maintenance", "busy"}
        /\ run' \in {"none", "driving", "checking", "retiring"} /\ disposal' \in {"no", "stopping", "done"}
        /\ requested' \in BOOLEAN /\ faulted' \in BOOLEAN /\ idleWait' \in BOOLEAN /\ missed' \in BOOLEAN
        /\ calls' \in Nat /\ faults' \in Nat /\ life' \in Nat /\ activities' \in [{"running", "busy"} -> Nat]

\* The invariant after a step from its parts.
LEMMA InvFromParts == log' \in Seq(Entry) /\ Kept /\ Serial(queue', Len(log')) => ScheduleInv'
BY DEF ScheduleInv, TypeOK, Kept, Serial

\* The preflight and the barrier store what they flush.
LEMMA FlushedType ==
  ASSUME ScheduleInv, 1 \in DOMAIN queue
  PROVE  Flushed(1) \in Nat /\ (queue[1].at = "preflight" => Len(log) <= Flushed(1))
<1>1. queue[1].upTo \in Nat /\ stored \in Nat
  <2>1. queue[1] \in Transaction
    BY LenProperties, ElementOfSeq DEF ScheduleInv, TypeOK
  <2>2. QED
    BY <2>1 DEF ScheduleInv, TypeOK, Transaction
<1>2. queue[1].at = "preflight" => queue[1].upTo = Len(log)
  BY DEF ScheduleInv, Serial
<1>3. QED
  BY <1>1, <1>2 DEF Flushed

\* A drive's step.
LEMMA DriveInv ==
  ASSUME ScheduleInv, 1 \in DOMAIN queue, DriveStep(1)
  PROVE  ScheduleInv'
<1> USE DEF ScheduleInv
<1>1. Serial(queue, Len(log)) /\ TypeOK /\ Len(log) \in Nat /\ log \in Seq(Entry) /\ Flushed(1) \in Nat
  BY FlushedType, LenProperties DEF TypeOK
<1>2. \A m : Serial(Without(1), m)
  BY <1>1, SerialWithout
<1>3. Fault => calls' \in Nat /\ faults' \in Nat /\ life' \in Nat /\ activities' \in [{"running", "busy"} -> Nat]
  BY <1>1 DEF Fault, TypeOK
<1>4. ASSUME log' \in Seq(Entry), NEW at \in {"preflight", "barrier", "sent", "unrecorded", "unsent"}
      PROVE  Serial(Becomes(1, at), Len(log'))
  BY <1>1, <1>4, SerialBecomes, LenProperties
<1>5. ASSUME log' = log, NEW at \in {"barrier", "unsent"}
      PROVE  Serial([queue EXCEPT ![1].at = at], Len(log'))
  <2>1. Len(queue) \in Nat /\ DOMAIN queue = 1 .. Len(queue) /\ queue \in Seq(Transaction) /\ queue[1] \in Transaction
    BY <1>1, LenProperties, ElementOfSeq DEF Serial
  <2> DEFINE t == [queue[1] EXCEPT !.at = at]
  <2>2. t \in Transaction /\ t.at = at
    BY <2>1 DEF Transaction
  <2>3. [queue EXCEPT ![1].at = at] = [queue EXCEPT ![1] = t]
    OBVIOUS
  <2> HIDE DEF t
  <2>4. /\ [queue EXCEPT ![1] = t] \in Seq(Transaction) /\ DOMAIN [queue EXCEPT ![1] = t] = DOMAIN queue
        /\ \A i \in DOMAIN queue : [queue EXCEPT ![1] = t][i] = IF i = 1 THEN t ELSE queue[i]
    BY <2>1, <2>2
  <2>5. \A i \in DOMAIN queue : i # 1 => queue[i].at = "start"
    BY <1>1, <2>1 DEF Serial
  <2>6. QED
    BY <2>2, <2>3, <2>4, <2>5 DEF Serial
<1> USE DEF logVars, boundVars, Kept
<1>6. CASE DriveStarts(1)
  <2>1. log' \in Seq(Entry) /\ Kept
    BY <1>1, <1>6 DEF DriveStarts, DriveReturns, TypeOK, None
  <2>2. Serial(queue', Len(log'))
    BY <1>2, <1>4, <1>6, <2>1 DEF DriveStarts, DriveReturns
  <2>3. QED
    BY <2>1, <2>2, InvFromParts
<1>7. CASE DriveFlushFails(1)
  <2>1. log' \in Seq(Entry) /\ Kept
    BY <1>1, <1>3, <1>7 DEF DriveFlushFails, DriveReturns, TypeOK
  <2>2. Serial(queue', Len(log'))
    BY <1>2, <1>7 DEF DriveFlushFails, DriveReturns
  <2>3. QED
    BY <2>1, <2>2, InvFromParts
<1>8. CASE DriveStops(1) \/ DriveFindsBusy(1)
  <2>1. log' \in Seq(Entry) /\ Kept
    BY <1>1, <1>8 DEF DriveStops, DriveFindsBusy, Preflighted, DriveReturns, TypeOK
  <2>2. Serial(queue', Len(log'))
    BY <1>2, <1>8 DEF DriveStops, DriveFindsBusy, DriveReturns
  <2>3. QED
    BY <2>1, <2>2, InvFromParts
<1>9. CASE DriveWaits(1)
  <2>1. timer' \in Int
    BY <1>1, <1>9, ArmedType DEF DriveWaits
  <2>2. log' \in Seq(Entry) /\ Kept
    BY <1>1, <1>9, <2>1 DEF DriveWaits, Preflighted, DriveReturns, TypeOK
  <2>3. Serial(queue', Len(log'))
    BY <1>2, <1>9 DEF DriveWaits, DriveReturns
  <2>4. QED
    BY <2>2, <2>3, InvFromParts
<1>10. CASE DriveSends(1)
  <2>1. log' \in Seq(Entry)
    BY <1>1, <1>10, SentType DEF DriveSends
  <2>2. Kept
    BY <1>1, <1>10 DEF DriveSends, Claims, Preflighted, TypeOK
  <2>3. Serial(queue', Len(log'))
    BY <1>4, <1>10, <2>1 DEF DriveSends
  <2>4. QED
    BY <2>1, <2>2, <2>3, InvFromParts
<1>11. CASE DispatchFails(1)
  <2>1. log' \in Seq(Entry)
    <3>1. PICK order \in InOrder(Decision), k \in 0 .. Cardinality(Decision) - 1 :
             log' = Append(log, Followup(Sent)) \o SubSeq(Dispatches(order), 1, k)
      BY <1>11 DEF DispatchFails
    <3>2. k \in Int /\ k <= Cardinality(Decision)
      BY <1>1, DecisionType
    <3>3. QED
      BY <1>1, <3>1, <3>2, SentType
  <2>2. Kept
    BY <1>1, <1>3, <1>11 DEF DispatchFails, Claims, Preflighted, TypeOK, AppendFaults, None
  <2>3. Serial(queue', Len(log'))
    BY <1>4, <1>11, <2>1 DEF DispatchFails
  <2>4. QED
    BY <2>1, <2>2, <2>3, InvFromParts
<1>12. CASE FollowupFails(1)
  <2>1. log' \in Seq(Entry) /\ Kept
    BY <1>1, <1>3, <1>12 DEF FollowupFails, Claims, Preflighted, TypeOK
  <2>2. Serial(queue', Len(log'))
    BY <1>5, <1>12 DEF FollowupFails
  <2>3. QED
    BY <2>1, <2>2, InvFromParts
<1>13. CASE MaintenanceEnds(1)
  <2>1. log' \in Seq(Entry) /\ Kept
    BY <1>1, <1>13 DEF MaintenanceEnds, DriveReturns, TypeOK
  <2>2. Serial(queue', Len(log'))
    BY <1>2, <1>5, <1>13 DEF MaintenanceEnds, DriveReturns
  <2>3. QED
    BY <2>1, <2>2, InvFromParts
<1>14. CASE DispatchStored(1)
  <2>1. log' \in Seq(Entry) /\ Kept
    <3>1. CASE Stopping \/ faulted
      BY <1>1, <1>14, <3>1 DEF DispatchStored, DriveReturns, TypeOK
    <3>2. CASE ~(Stopping \/ faulted)
      <4>1. timer' = None /\ requested' = TRUE /\ missed' = FALSE
        BY <1>14, <3>2 DEF DispatchStored
      <4>2. timer' \in Int
        BY <4>1 DEF None
      <4>3. requested' \in BOOLEAN /\ missed' \in BOOLEAN
        BY <4>1
      <4>4. QED
        BY <1>1, <1>14, <4>2, <4>3 DEF DispatchStored, DriveReturns, TypeOK
    <3>3. QED
      BY <3>1, <3>2
  <2>2. Serial(queue', Len(log'))
    BY <1>2, <1>14 DEF DispatchStored, DriveReturns
  <2>3. QED
    BY <2>1, <2>2, InvFromParts
<1>15. QED
  BY <1>6, <1>7, <1>8, <1>9, <1>10, <1>11, <1>12, <1>13, <1>14 DEF DriveStep

\* A tool's step.
LEMMA ToolInv ==
  ASSUME ScheduleInv, 1 \in DOMAIN queue, ToolStep(1)
  PROVE  ScheduleInv'
<1> USE DEF ScheduleInv
<1>1. /\ Serial(queue, Len(log)) /\ TypeOK /\ Len(log) \in Nat /\ log \in Seq(Entry) /\ Flushed(1) \in Nat
      /\ queue[1] \in Transaction
  BY FlushedType, LenProperties, ElementOfSeq DEF TypeOK
<1>2. \A m : Serial(Without(1), m)
  BY <1>1, SerialWithout
<1>3. Fault => calls' \in Nat /\ faults' \in Nat /\ life' \in Nat /\ activities' \in [{"running", "busy"} -> Nat]
  BY <1>1 DEF Fault, TypeOK
<1>4. ASSUME log' \in Seq(Entry), NEW at \in {"preflight", "barrier"}
      PROVE  Serial(Becomes(1, at), Len(log'))
  BY <1>1, <1>4, SerialBecomes, LenProperties
<1>5. ASSUME NEW q, RequestDrive(q)
      PROVE  timer' \in Int /\ requested' \in BOOLEAN /\ missed' \in BOOLEAN
             /\ run' \in {"none", "driving", "checking", "retiring"}
  BY <1>1, <1>5, RequestType
<1> USE DEF logVars, boundVars, runtimeVars, Kept
<1>6. CASE ToolStarts(1)
  <2>1. log' \in Seq(Entry) /\ Kept
    BY <1>1, <1>6 DEF ToolStarts, TypeOK
  <2>2. Serial(queue', Len(log'))
    BY <1>4, <1>6, <2>1 DEF ToolStarts
  <2>3. QED
    BY <2>1, <2>2, InvFromParts
<1>7. CASE ToolFails(1)
  <2>1. log' \in Seq(Entry) /\ Kept
    BY <1>1, <1>3, <1>7 DEF ToolFails, TypeOK
  <2>2. Serial(queue', Len(log'))
    BY <1>2, <1>7 DEF ToolFails
  <2>3. QED
    BY <2>1, <2>2, InvFromParts
<1>8. CASE ToolReads(1) \/ ToolGivesUp(1)
  <2>1. log' = log /\ RequestDrive(Without(1))
    BY <1>8 DEF ToolReads, ToolGivesUp
  <2>2. Kept
    BY <1>1, <1>3, <1>5, <1>8, <2>1 DEF ToolReads, ToolGivesUp, ToolPreflighted, TypeOK
  <2>3. Serial(queue', Len(log'))
    BY <1>2, <2>1, SerialRequest
  <2>4. QED
    BY <1>1, <2>1, <2>2, <2>3, InvFromParts
<1>9. CASE ToolCreates(1)
  <2>1. PICK rule \in Rule : log' = Append(log, Event("create", Cardinality(Created) + 1, now + rule.delay, rule.every))
    BY <1>9 DEF ToolCreates
  <2>2. rule.delay \in Nat /\ rule.every \in Nat
    BY ScheduleAssumption DEF Rule
  <2>3. Event("create", Cardinality(Created) + 1, now + rule.delay, rule.every) \in Entry
    <3>1. Cardinality(Created) \in Nat /\ now \in Nat
      BY <1>1, DecisionType DEF TypeOK
    <3>2. QED
      BY <2>2, <3>1 DEF Event, Entry
  <2>4. log' \in Seq(Entry)
    BY <1>1, <2>1, <2>3
  <2>5. Kept
    BY <1>1, <1>5, <1>9 DEF ToolCreates, ToolPreflighted, TypeOK
  <2>6. Serial(queue', Len(log'))
    BY <1>4, <1>9, <2>4, SerialRequest DEF ToolCreates
  <2>7. QED
    BY <2>4, <2>5, <2>6, InvFromParts
<1>10. CASE ToolDeletes(1)
  <2>1. Event("delete", queue[1].id, now, 0) \in Entry
    <3>1. queue[1].id \in Nat /\ now \in Nat
      BY <1>1 DEF Transaction, TypeOK
    <3>2. QED
      BY <3>1 DEF Event, Entry
  <2>2. log' \in Seq(Entry)
    BY <1>1, <1>10, <2>1 DEF ToolDeletes
  <2>3. Kept
    BY <1>1, <1>5, <1>10 DEF ToolDeletes, ToolPreflighted, TypeOK
  <2>4. Serial(queue', Len(log'))
    BY <1>4, <1>10, <2>2, SerialRequest DEF ToolDeletes
  <2>5. QED
    BY <2>2, <2>3, <2>4, InvFromParts
<1>11. CASE ToolConfirms(1)
  <2>1. log' \in Seq(Entry) /\ Kept
    BY <1>1, <1>5, <1>11 DEF ToolConfirms, TypeOK
  <2>2. Serial(queue', Len(log'))
    BY <1>2, <1>11, SerialRequest DEF ToolConfirms
  <2>3. QED
    BY <2>1, <2>2, InvFromParts
<1>12. QED
  BY <1>6, <1>7, <1>8, <1>9, <1>10, <1>11 DEF ToolStep

\* The run, the agent, the clock and the ends of the runtime.
LEMMA OtherInv ==
  ASSUME ScheduleInv,
         \/ RunChecks \/ Retires \/ (\E op \in Tool, id \in Created \cup {0} : ToolCalled(op, id))
         \/ ActivityStarts \/ TurnEnds \/ BusyEnds \/ IdleResolves \/ TimerFires \/ Tick \/ ClockJumps
         \/ Disposes \/ DisposeEnds \/ Crash \/ Reopens \/ UNCHANGED vars
  PROVE  ScheduleInv'
<1> USE DEF ScheduleInv
<1>1. Serial(queue, Len(log)) /\ TypeOK /\ Len(log) \in Nat /\ log \in Seq(Entry)
  BY LenProperties DEF TypeOK
<1>2. Serial(Append(queue, Drive), Len(log))
  BY <1>1, DriveType, SerialAppend
<1>3. Fault => calls' \in Nat /\ faults' \in Nat /\ life' \in Nat /\ activities' \in [{"running", "busy"} -> Nat]
  BY <1>1 DEF Fault, TypeOK
<1>4. ASSUME NEW q, RequestDrive(q)
      PROVE  timer' \in Int /\ requested' \in BOOLEAN /\ missed' \in BOOLEAN
             /\ run' \in {"none", "driving", "checking", "retiring"}
  BY <1>1, <1>4, RequestType
<1>5. RequestDrive(queue) => Serial(queue', Len(log))
  BY <1>1, SerialRequest
<1> USE DEF logVars, boundVars, runtimeVars, Kept
<1>6. CASE RunChecks \/ Retires
  <2>1. requested' \in BOOLEAN /\ missed' \in BOOLEAN /\ timer' \in Int /\ run' \in {"none", "driving", "checking", "retiring"}
    <3>1. requested' = FALSE \/ requested' = requested
      BY <1>6 DEF RunChecks, Retires
    <3>2. missed' = FALSE \/ missed' = missed
      BY <1>6 DEF RunChecks, Retires
    <3>3. (timer' = None \/ timer' = timer) /\ run' \in {"none", "driving", "checking", "retiring"}
      BY <1>6 DEF RunChecks, Retires
    <3>4. requested' \in BOOLEAN /\ missed' \in BOOLEAN
      BY <1>1, <3>1, <3>2 DEF TypeOK
    <3>5. timer' \in Int
      BY <1>1, <3>3 DEF TypeOK, None
    <3>6. QED
      BY <3>3, <3>4, <3>5
  <2>2. log' = log /\ Kept
    BY <1>1, <1>6, <2>1 DEF RunChecks, Retires, TypeOK
  <2>3. Serial(queue', Len(log'))
    BY <1>1, <1>2, <1>6, <2>2 DEF RunChecks, Retires
  <2>4. QED
    BY <1>1, <2>2, <2>3, InvFromParts
<1>7. ASSUME NEW op \in Tool, NEW id \in Created \cup {0}, ToolCalled(op, id) PROVE ScheduleInv'
  <2> DEFINE t == [op |-> op, id |-> id, at |-> "start", upTo |-> 0]
  <2>1. t \in Transaction /\ t.at = "start"
    BY <1>1, DecisionType DEF Transaction
  <2> HIDE DEF t
  <2>2. Serial(Append(queue, t), Len(log))
    BY <1>1, <2>1, SerialAppend
  <2>3. log' = log /\ Kept /\ queue' = Append(queue, t)
    BY <1>1, <1>7 DEF ToolCalled, TypeOK, t
  <2>4. QED
    BY <1>1, <2>2, <2>3, InvFromParts
<1>8. CASE ActivityStarts \/ BusyEnds \/ Disposes \/ DisposeEnds
  <2>1. CASE ActivityStarts
    <3>1. log' = log /\ Kept /\ queue' = queue
      BY <1>1, <2>1 DEF ActivityStarts, TypeOK
    <3>2. QED
      BY <1>1, <3>1, InvFromParts
  <2>2. CASE BusyEnds \/ Disposes \/ DisposeEnds
    <3>1. (timer' = None \/ timer' = timer) /\ (requested' = FALSE \/ requested' = requested)
      BY <2>2 DEF BusyEnds, Disposes, DisposeEnds
    <3>2. requested' \in BOOLEAN
      BY <1>1, <3>1 DEF TypeOK
    <3>3. timer' \in Int
      BY <1>1, <3>1 DEF TypeOK, None
    <3>4. log' = log /\ Kept /\ queue' = queue
      BY <1>1, <2>2, <3>2, <3>3 DEF BusyEnds, Disposes, DisposeEnds, TypeOK
    <3>5. QED
      BY <1>1, <3>4, InvFromParts
  <2>3. QED
    BY <1>8, <2>1, <2>2
<1>9. CASE TurnEnds
  <2>1. log' = log /\ Kept
    BY <1>1, <1>4, <1>9 DEF TurnEnds, TypeOK
  <2>2. Serial(queue', Len(log'))
    BY <1>1, <1>5, <1>9, <2>1 DEF TurnEnds
  <2>3. QED
    BY <1>1, <2>1, <2>2, InvFromParts
<1>10. CASE IdleResolves
  <2>1. log' = log /\ Kept
    BY <1>1, <1>4, <1>10 DEF IdleResolves, TypeOK
  <2>2. Serial(queue', Len(log'))
    BY <1>5, <1>10, <2>1 DEF IdleResolves
  <2>3. QED
    BY <1>1, <2>1, <2>2, InvFromParts
<1>11. CASE TimerFires
  <2>1. log' = log /\ Kept
    BY <1>1, <1>4, <1>11 DEF TimerFires, TypeOK, None
  <2>2. Serial(queue', Len(log'))
    BY <1>1, <1>5, <1>11, <2>1 DEF TimerFires
  <2>3. QED
    BY <1>1, <2>1, <2>2, InvFromParts
<1>12. CASE Tick \/ ClockJumps
  <2>1. now' \in Nat /\ timer' \in Int
    BY <1>1, <1>12 DEF Tick, ClockJumps, TypeOK
  <2>2. log' = log /\ Kept /\ queue' = queue
    <3>1. CASE Tick
      BY <1>1, <2>1, <3>1 DEF Tick, TypeOK
    <3>2. CASE ClockJumps
      BY <1>1, <1>3, <2>1, <3>2 DEF ClockJumps, TypeOK
    <3>3. QED
      BY <1>12, <3>1, <3>2
  <2>3. QED
    BY <1>1, <2>2, InvFromParts
<1>13. CASE Crash \/ Reopens
  <2>1. PICK k \in 0 .. Len(log) : Restarts(k)
    <3>1. stored \in Nat
      BY DEF TypeOK
    <3>2. QED
      BY <1>1, <1>13, <3>1 DEF Crash, Reopens
  <2>2. k \in Nat /\ log' \in Seq(Entry)
    <3>1. \A i \in 1 .. k : log[i] \in Entry
      BY <1>1, ElementOfSeq
    <3>2. SubSeq(log, 1, k) \in Seq(Entry)
      BY <3>1, SubSeqProperties, 1 \in Int, k \in Int
    <3>3. QED
      BY <2>1, <3>2 DEF Restarts
  <2>3. Kept
    <3>1. requested' \in BOOLEAN /\ faulted' \in BOOLEAN /\ idleWait' \in BOOLEAN /\ missed' \in BOOLEAN
      BY <2>1 DEF Restarts
    <3>2. timer' \in Int
      BY <2>1 DEF Restarts, None
    <3>3. stored' \in Nat /\ life' \in Nat
      BY <1>1, <2>1, <2>2 DEF Restarts, TypeOK
    <3>4. QED
      BY <1>1, <2>1, <3>1, <3>2, <3>3 DEF Restarts, TypeOK
  <2>4. Serial(queue', Len(log'))
    <3>1. queue' \in Seq(Transaction) /\ DOMAIN queue' = {1} /\ queue'[1] = Drive
      BY <2>1, DriveType DEF Restarts
    <3>2. QED
      BY <3>1, DriveType DEF Serial
  <2>5. QED
    BY <2>2, <2>3, <2>4, InvFromParts
<1>14. CASE UNCHANGED vars
  <2>1. log' = log /\ queue' = queue
    BY <1>14 DEF vars
  <2>2. TypeOK'
    BY <1>1, <1>14 DEF vars, TypeOK
  <2>3. QED
    BY <1>1, <2>1, <2>2
<1>15. QED
  BY <1>6, <1>7, <1>8, <1>9, <1>10, <1>11, <1>12, <1>13, <1>14

\* Every step keeps the invariant.
LEMMA InvStep == ScheduleInv /\ [Next]_vars => ScheduleInv'
<1> SUFFICES ASSUME ScheduleInv, [Next]_vars PROVE ScheduleInv'
  OBVIOUS
<1>1. CASE Turn
  <2>1. 1 \in DOMAIN queue /\ (DriveStep(1) \/ ToolStep(1))
    BY <1>1 DEF Turn, Turns
  <2>2. QED
    BY <2>1, DriveInv, ToolInv
<1>2. CASE ~Turn
  BY <1>2, OtherInv DEF Next, Ready, Tool
<1>3. QED
  BY <1>1, <1>2

\* Every state of the runtime has its types, and a serial queue.
THEOREM ScheduleInvariant == Spec => []ScheduleInv
  BY InvInit, InvStep, PTL DEF Spec

\* Every state of the runtime has its type.
THEOREM Typing == Spec => []TypeOK
  BY ScheduleInvariant, PTL DEF ScheduleInv

\* A follow-up is decided from what is on disk, whatever the rules, the clock,
\* the failures and the crashes.
THEOREM PersistenceAlwaysPrecedes == Spec => PersistenceBeforeDecision
<1> DEFINE Decides == phase # "maintenance" /\ phase' = "maintenance" =>
                          \A i \in DOMAIN log : log[i].op # "followup" => i <= stored'
<1>1. ScheduleInv /\ [Next]_vars => [Decides]_vars
  <2> SUFFICES ASSUME ScheduleInv, Next, phase # "maintenance", phase' = "maintenance", NEW i \in DOMAIN log
               PROVE  i <= stored'
    OBVIOUS
  <2>1. 1 \in DOMAIN queue /\ Preflighted(1)
    BY DEF Next, Ready, Turn, Turns, DriveStep, ToolStep, DriveStarts, DriveFlushFails, DriveStops, DriveWaits,
           DriveFindsBusy, DriveSends, DispatchFails, FollowupFails, Claims, MaintenanceEnds, DispatchStored,
           ToolStarts, ToolFails, ToolReads, ToolGivesUp, ToolCreates, ToolDeletes, ToolConfirms, ToolPreflighted,
           RunChecks, Retires, ToolCalled, ActivityStarts, TurnEnds, BusyEnds, IdleResolves, TimerFires, Tick,
           ClockJumps, Disposes, DisposeEnds, Crash, Reopens, Restarts
  <2>2. queue[1].at = "preflight" /\ stored' = Flushed(1)
    BY <2>1 DEF Preflighted, At
  <2>3. Len(log) <= stored' /\ stored' \in Nat
    BY <2>1, <2>2, FlushedType
  <2>4. Len(log) \in Nat /\ i \in 1 .. Len(log)
    BY LenProperties DEF ScheduleInv, TypeOK
  <2>5. QED
    BY <2>3, <2>4
<1>2. QED
  BY <1>1, ScheduleInvariant, PTL DEF Spec, PersistenceBeforeDecision

-----------------------------------------------------------------------------
(* A reminder's occurrence is sent once in a life of the session.          *)

\* At most one transaction of a queue is a drive, the run's; one that has met a
\* failed append only ends.
OneDrive(q, r, failed) ==
    /\ \A i, j \in DOMAIN q : q[i].op = "drive" /\ q[j].op = "drive" => i = j
    /\ \A i \in DOMAIN q : q[i].op = "drive" => r = "driving" /\ (failed => q[i].at = "unrecorded")
RunInv == OneDrive(queue, run, faulted)

\* The dispatches of a reminder are accepted at later and later times.
DispatchTimes ==
    \A k, l \in DOMAIN log :
        k < l /\ log[k].op = "dispatch" /\ log[l].op = "dispatch" /\ log[k].id = log[l].id => log[k].at < log[l].at

\* The life's follow-ups have their dispatches, unless an append has failed.
SentInv ==
    \A i \in DOMAIN log : log[i].op = "followup" =>
        /\ log[i].at <= life
        /\ log[i].at = life /\ ~faulted => \A once \in log[i].sent :
              \E k \in DOMAIN log : k > i /\ log[k].op = "dispatch" /\ log[k].id = once[1] /\ once[2] <= log[k].at

OnceInv == RunInv /\ DispatchTimes /\ SentInv /\ SentOnce

\* What the following steps read of the log and the queue.
LEMMA Shapes ==
  ASSUME ScheduleInv
  PROVE  /\ log \in Seq(Entry) /\ Len(log) \in Nat /\ DOMAIN log = 1 .. Len(log) /\ \A i \in DOMAIN log : log[i] \in Entry
         /\ queue \in Seq(Transaction) /\ Len(queue) \in Nat /\ DOMAIN queue = 1 .. Len(queue)
         /\ \A i \in DOMAIN queue : queue[i] \in Transaction
         /\ now \in Nat /\ life \in Nat
  BY LenProperties, ElementOfSeq DEF ScheduleInv, TypeOK

\* The first transaction leaves, and with it the drive if it is one.
LEMMA DriveLeaves ==
  ASSUME ScheduleInv, RunInv, 1 \in DOMAIN queue
  PROVE  /\ OneDrive(Without(1), run, faulted) /\ Without(1) \in Seq(Transaction)
         /\ queue[1].op = "drive" => \A r, failed : OneDrive(Without(1), r, failed)
<1>1. Len(queue) \in Nat /\ DOMAIN queue = 1 .. Len(queue) /\ 1 \in DOMAIN queue
  BY Shapes
<1>2. /\ Without(1) \in Seq(Transaction) /\ DOMAIN Without(1) = 1 .. Len(queue) - 1
      /\ \A i \in DOMAIN Without(1) : Without(1)[i] = queue[i + 1]
  BY WithoutFirst DEF ScheduleInv, Serial
<1>3. \A i \in DOMAIN Without(1) : i + 1 \in DOMAIN queue /\ i + 1 # 1
  BY <1>1, <1>2
<1>4. OneDrive(Without(1), run, faulted)
  <2>1. ASSUME NEW i \in DOMAIN Without(1), NEW j \in DOMAIN Without(1),
               Without(1)[i].op = "drive", Without(1)[j].op = "drive"
        PROVE  i = j
    <3>1. i + 1 = j + 1
      BY <1>2, <1>3, <2>1 DEF RunInv, OneDrive
    <3>2. QED
      BY <1>1, <1>2, <3>1
  <2>2. QED
    BY <1>2, <1>3, <2>1 DEF RunInv, OneDrive
<1>5. queue[1].op = "drive" => \A i \in DOMAIN Without(1) : Without(1)[i].op # "drive"
  BY <1>1, <1>2, <1>3 DEF RunInv, OneDrive
<1>6. QED
  BY <1>2, <1>4, <1>5 DEF OneDrive

\* The first transaction goes on.
LEMMA DriveGoesOn ==
  ASSUME ScheduleInv, RunInv, 1 \in DOMAIN queue, NEW t \in Transaction, t.op = queue[1].op,
         NEW failed \in BOOLEAN, failed => faulted \/ queue[1].op = "drive",
         queue[1].op = "drive" /\ failed => t.at = "unrecorded"
  PROVE  OneDrive([queue EXCEPT ![1] = t], run, failed) /\ [queue EXCEPT ![1] = t] \in Seq(Transaction)
<1>1. queue \in Seq(Transaction) /\ DOMAIN queue = 1 .. Len(queue) /\ Len(queue) \in Nat
  BY Shapes
<1>2. /\ [queue EXCEPT ![1] = t] \in Seq(Transaction) /\ DOMAIN [queue EXCEPT ![1] = t] = DOMAIN queue
      /\ \A i \in DOMAIN queue : [queue EXCEPT ![1] = t][i] = IF i = 1 THEN t ELSE queue[i]
  BY <1>1
<1> DEFINE q == [queue EXCEPT ![1] = t]
<1> HIDE DEF q
<1>3. \A i \in DOMAIN q : q[i].op = queue[i].op
  BY <1>2 DEF q
<1>4. ASSUME NEW i \in DOMAIN q, q[i].op = "drive"
      PROVE  run = "driving" /\ (failed => q[i].at = "unrecorded")
  <2>1. i \in DOMAIN queue /\ queue[i].op = "drive"
    BY <1>2, <1>3, <1>4 DEF q
  <2>2. run = "driving"
    BY <2>1 DEF RunInv, OneDrive
  <2>3. CASE i = 1
    BY <1>2, <2>1, <2>2, <2>3 DEF q
  <2>4. CASE i # 1
    <3>1. queue[1].op # "drive"
      BY <2>1, <2>4 DEF RunInv, OneDrive
    <3>2. q[i] = queue[i]
      BY <1>2, <2>1, <2>4 DEF q
    <3>3. failed => queue[i].at = "unrecorded"
      BY <2>1, <3>1 DEF RunInv, OneDrive
    <3>4. QED
      BY <2>2, <3>2, <3>3
  <2>5. QED
    BY <2>3, <2>4
<1>5. \A i, j \in DOMAIN q : q[i].op = "drive" /\ q[j].op = "drive" => i = j
  BY <1>2, <1>3 DEF q, RunInv, OneDrive
<1>6. QED
  BY <1>2, <1>4, <1>5 DEF q, OneDrive

\* A transaction is queued: a drive only when there is none.
LEMMA DriveQueued ==
  ASSUME NEW q \in Seq(Transaction), NEW t \in Transaction, NEW r, NEW failed \in BOOLEAN, NEW s, OneDrive(q, r, failed),
         \/ t.op # "drive" /\ s = r
         \/ t.op = "drive" /\ r # "driving" /\ s = "driving" /\ ~failed
  PROVE  OneDrive(Append(q, t), s, failed)
<1> DEFINE p == Append(q, t)
<1>1. /\ DOMAIN p = 1 .. Len(q) + 1 /\ Len(q) \in Nat /\ DOMAIN q = 1 .. Len(q) /\ p[Len(q) + 1] = t
      /\ \A i \in 1 .. Len(q) : p[i] = q[i]
  OBVIOUS
<1> HIDE DEF p
<1>2. CASE t.op # "drive" /\ s = r
  <2>1. \A i \in DOMAIN p : p[i].op = "drive" => i \in DOMAIN q /\ p[i] = q[i]
    BY <1>1, <1>2
  <2>2. OneDrive(p, s, failed)
    BY <1>2, <2>1 DEF OneDrive
  <2>3. QED
    BY <2>2 DEF p
<1>3. CASE t.op = "drive" /\ r # "driving" /\ s = "driving" /\ ~failed
  <2>1. \A i \in DOMAIN q : q[i].op # "drive"
    BY <1>3 DEF OneDrive
  <2>2. \A i \in DOMAIN p : p[i].op = "drive" => i = Len(q) + 1
    BY <1>1, <2>1
  <2>3. OneDrive(p, s, failed)
    BY <1>3, <2>2 DEF OneDrive
  <2>4. QED
    BY <2>3 DEF p
<1>4. QED
  BY <1>2, <1>3

\* A request starts a run only when there is none.
LEMMA DriveRequested ==
  ASSUME ScheduleInv, NEW q \in Seq(Transaction), OneDrive(q, run, faulted), RequestDrive(q)
  PROVE  OneDrive(queue', run', faulted)
<1>1. CASE queue' = q /\ run' = run
  BY <1>1
<1>2. CASE ~faulted /\ run = "none" /\ run' = "driving" /\ queue' = Append(q, Drive)
  <2>1. Drive \in Transaction /\ Drive.op = "drive" /\ faulted \in BOOLEAN
    BY DriveType DEF Drive, ScheduleInv, TypeOK
  <2>2. QED
    BY <1>2, <2>1, DriveQueued
<1>3. QED
  BY <1>1, <1>2 DEF RequestDrive

\* The transactions keep one drive.
LEMMA TurnRun ==
  ASSUME ScheduleInv, RunInv, Turn
  PROVE  RunInv'
<1>1. 1 \in DOMAIN queue /\ (DriveStep(1) \/ ToolStep(1))
  BY DEF Turn, Turns
<1>2. queue[1] \in Transaction /\ Len(log') \in Nat /\ faulted \in BOOLEAN
  <2>1. Len(log') \in Nat
    <3>1. ScheduleInv'
      BY InvStep DEF Next
    <3>2. QED
      BY <3>1, LenProperties DEF ScheduleInv, TypeOK
  <2>2. QED
    BY <1>1, <2>1, Shapes DEF ScheduleInv, TypeOK
<1>3. /\ OneDrive(Without(1), run, faulted) /\ Without(1) \in Seq(Transaction)
      /\ queue[1].op = "drive" => \A r, failed : OneDrive(Without(1), r, failed)
  BY <1>1, DriveLeaves
<1>4. ASSUME NEW at \in {"preflight", "barrier", "sent", "unrecorded", "unsent"}, NEW failed \in BOOLEAN,
             failed => faulted \/ queue[1].op = "drive",
             queue[1].op = "drive" /\ failed => at = "unrecorded"
      PROVE  OneDrive(Becomes(1, at), run, failed) /\ Becomes(1, at) \in Seq(Transaction)
  <2> DEFINE t == [queue[1] EXCEPT !.at = at, !.upTo = Len(log')]
  <2>1. t \in Transaction /\ t.op = queue[1].op /\ t.at = at
    BY <1>2 DEF Transaction
  <2>2. Becomes(1, at) = [queue EXCEPT ![1] = t]
    BY DEF Becomes
  <2> HIDE DEF t
  <2>3. QED
    BY <1>1, <1>4, <2>1, <2>2, DriveGoesOn
<1>5. ASSUME NEW at \in {"barrier", "unsent"}, ~faulted
      PROVE  OneDrive([queue EXCEPT ![1].at = at], run, faulted)
  <2> DEFINE t == [queue[1] EXCEPT !.at = at]
  <2>1. t \in Transaction /\ t.op = queue[1].op /\ t.at = at
    BY <1>2 DEF Transaction
  <2>2. [queue EXCEPT ![1].at = at] = [queue EXCEPT ![1] = t]
    OBVIOUS
  <2> HIDE DEF t
  <2>3. QED
    BY <1>1, <1>2, <1>5, <2>1, <2>2, DriveGoesOn
<1>6. queue[1].op = "drive" /\ queue[1].at # "unrecorded" => ~faulted
  BY <1>1 DEF RunInv, OneDrive
<1>7. CASE \E failed \in BOOLEAN : queue[1].op = "drive" /\ faulted' = failed /\ DriveReturns(1)
  BY <1>3, <1>7 DEF DriveReturns, RunInv
<1>8. CASE DriveStarts(1)
  <2>1. queue[1].op = "drive" /\ ~faulted /\ faulted' = faulted
    BY <1>6, <1>8 DEF DriveStarts, At
  <2>2. CASE Stopping
    BY <1>3, <1>8, <2>1, <2>2 DEF DriveStarts, DriveReturns, RunInv
  <2>3. CASE ~Stopping
    <3>1. queue' = Becomes(1, "preflight") /\ run' = run
      BY <1>8, <2>3 DEF DriveStarts
    <3>2. QED
      BY <1>2, <1>4, <2>1, <3>1 DEF RunInv
  <2>4. QED
    BY <2>2, <2>3
<1>9. CASE DriveSends(1)
  <2>1. ~faulted /\ faulted' = faulted /\ queue' = Becomes(1, "sent") /\ run' = run
    BY <1>6, <1>9 DEF DriveSends, Claims, Preflighted, At
  <2>2. QED
    BY <1>2, <1>4, <2>1 DEF RunInv
<1>10. CASE DispatchFails(1)
  <2>1. queue[1].op = "drive" /\ faulted' = TRUE /\ queue' = Becomes(1, "unrecorded") /\ run' = run
    BY <1>10 DEF DispatchFails, Claims, Preflighted, At, AppendFaults
  <2>2. QED
    BY <1>4, <2>1 DEF RunInv
<1>11. CASE FollowupFails(1)
  <2>1. ~faulted /\ faulted' = faulted /\ queue' = [queue EXCEPT ![1].at = "unsent"] /\ run' = run
    BY <1>6, <1>11 DEF FollowupFails, Claims, Preflighted, At
  <2>2. QED
    BY <1>5, <2>1 DEF RunInv
<1>12. CASE MaintenanceEnds(1)
  <2>1. queue[1].op = "drive" /\ faulted' = faulted
    BY <1>12 DEF MaintenanceEnds, At
  <2>2. CASE At(1, {"drive"}, "sent")
    <3>1. ~faulted /\ queue' = [queue EXCEPT ![1].at = "barrier"] /\ run' = run
      BY <1>6, <1>12, <2>2 DEF MaintenanceEnds, At
    <3>2. QED
      BY <1>5, <2>1, <3>1 DEF RunInv
  <2>3. CASE ~At(1, {"drive"}, "sent")
    BY <1>3, <1>12, <2>1, <2>3 DEF MaintenanceEnds, DriveReturns, RunInv
  <2>4. QED
    BY <2>2, <2>3
<1>13. CASE DriveFlushFails(1) \/ DriveStops(1) \/ DriveWaits(1) \/ DriveFindsBusy(1) \/ DispatchStored(1)
  <2>1. queue[1].op = "drive" /\ DriveReturns(1)
    BY <1>13 DEF DriveFlushFails, DriveStops, DriveWaits, DriveFindsBusy, DispatchStored, Preflighted, At
  <2>2. QED
    BY <1>3, <2>1 DEF DriveReturns, RunInv
<1>14. CASE ToolStep(1)
  <2>1. queue[1].op # "drive" /\ faulted' = faulted
    BY <1>14 DEF ToolStep, ToolStarts, ToolFails, ToolReads, ToolGivesUp, ToolCreates, ToolDeletes, ToolConfirms,
                 ToolPreflighted, At, Tool, runtimeVars
  <2>2. CASE ToolStarts(1)
    <3>1. queue' = Becomes(1, "preflight") /\ run' = run
      BY <2>2 DEF ToolStarts, runtimeVars
    <3>2. QED
      BY <1>2, <1>4, <2>1, <3>1 DEF RunInv
  <2>3. CASE ToolFails(1)
    BY <1>3, <2>1, <2>3 DEF ToolFails, runtimeVars, RunInv
  <2>4. CASE RequestDrive(Without(1))
    BY <1>3, <2>1, <2>4, DriveRequested DEF RunInv
  <2>5. CASE RequestDrive(Becomes(1, "barrier"))
    <3>1. OneDrive(Becomes(1, "barrier"), run, faulted) /\ Becomes(1, "barrier") \in Seq(Transaction)
      BY <1>2, <1>4, <2>1
    <3>2. QED
      BY <2>1, <2>5, <3>1, DriveRequested DEF RunInv
  <2>6. QED
    BY <1>14, <2>2, <2>3, <2>4, <2>5 DEF ToolStep, ToolReads, ToolGivesUp, ToolCreates, ToolDeletes, ToolConfirms
<1>15. QED
  BY <1>1, <1>8, <1>9, <1>10, <1>11, <1>12, <1>13, <1>14 DEF DriveStep

\* Every step keeps at most one drive.
LEMMA RunStep ==
  ASSUME ScheduleInv, RunInv, [Next]_vars
  PROVE  RunInv'
<1>1. queue \in Seq(Transaction) /\ faulted \in BOOLEAN
  BY Shapes DEF ScheduleInv, TypeOK
<1>2. CASE Turn
  BY <1>2, TurnRun
<1>3. CASE queue' = queue /\ run' = run /\ faulted' = faulted
  BY <1>3 DEF RunInv
<1>4. CASE ~faulted /\ faulted' = faulted /\ run # "driving" /\ run' = "driving" /\ queue' = Append(queue, Drive)
  <2>1. Drive \in Transaction /\ Drive.op = "drive"
    BY DriveType DEF Drive
  <2>2. QED
    BY <1>1, <1>4, <2>1, DriveQueued DEF RunInv
<1>5. CASE RunChecks \/ Retires
  <2>1. CASE queue' = Append(queue, Drive) /\ run' = "driving"
    BY <1>4, <1>5, <2>1 DEF RunChecks, Retires, Rerequests
  <2>2. CASE queue' = queue /\ run' \in {"none", "retiring"}
    <3>1. \A i \in DOMAIN queue : queue[i].op # "drive"
      BY <1>5 DEF RunInv, OneDrive, RunChecks, Retires
    <3>2. QED
      BY <2>2, <3>1 DEF RunInv, OneDrive
  <2>3. QED
    BY <1>5, <2>1, <2>2 DEF RunChecks, Retires
<1>6. ASSUME NEW op \in Tool, NEW id \in Created \cup {0}, ToolCalled(op, id) PROVE RunInv'
  <2> DEFINE t == [op |-> op, id |-> id, at |-> "start", upTo |-> 0]
  <2>1. t \in Transaction /\ t.op # "drive"
    BY DecisionType DEF ScheduleInv, Transaction, Tool
  <2>2. queue' = Append(queue, t) /\ run' = run /\ faulted' = faulted
    BY <1>6 DEF ToolCalled, runtimeVars
  <2> HIDE DEF t
  <2>3. QED
    BY <1>1, <2>1, <2>2, DriveQueued DEF RunInv
<1>7. CASE RequestDrive(queue) /\ faulted' = faulted
  BY <1>1, <1>7, DriveRequested DEF RunInv
<1>8. ASSUME NEW k, Restarts(k) PROVE RunInv'
  <2>1. queue' = <<Drive>> /\ run' = "driving" /\ faulted' = FALSE
    BY <1>8 DEF Restarts
  <2>2. DOMAIN queue' = {1}
    BY <2>1
  <2>3. QED
    BY <2>1, <2>2 DEF RunInv, OneDrive
<1>9. CASE TurnEnds \/ IdleResolves \/ TimerFires
  BY <1>3, <1>7, <1>9 DEF TurnEnds, IdleResolves, TimerFires
<1>10. QED
  BY <1>2, <1>3, <1>5, <1>6, <1>8, <1>9
  DEF Next, ActivityStarts, BusyEnds, Tick, ClockJumps, Disposes, DisposeEnds, Crash, Reopens, runtimeVars, vars, Tool

\* Aligning a time to a target in whole intervals reaches the last one at most
\* that time.
LEMMA Aligned ==
  ASSUME NEW target \in Int, NEW time \in Int, NEW e \in Nat, e > 0
  PROVE  LET occurrence == target + ((time - target) \div e) * e
         IN  /\ occurrence \in Int /\ occurrence <= time /\ time < occurrence + e
             /\ target <= time => target <= occurrence
<1> DEFINE q == (time - target) \div e
<1>1. q \in Int /\ q * e <= time - target /\ time - target < (q + 1) * e
  OBVIOUS
<1>2. time - target \in Nat => q \in Nat
  OBVIOUS
<1> HIDE DEF q
<1>3. q * e \in Int /\ (q + 1) * e = q * e + e /\ (q \in Nat => q * e \in Nat)
  BY <1>1
<1>4. target <= time => time - target \in Nat
  OBVIOUS
<1>5. target + q * e \in Int /\ target + q * e <= time /\ time < target + q * e + e
  BY <1>1, <1>3
<1>6. target <= time => target <= target + q * e
  BY <1>2, <1>3, <1>4
<1>7. QED
  BY <1>5, <1>6 DEF q

\* A reminder that is due was dispatched, if ever, before its target, and what
\* is sent of it is due.
LEMMA DueAfterDispatch ==
  ASSUME ScheduleInv, DispatchTimes, NEW id \in Due
  PROVE  /\ Occurrence(id, Target(id), now) \in Int /\ Occurrence(id, Target(id), now) <= now
         /\ \A k \in Events("dispatch", id) : log[k].at < Occurrence(id, Target(id), now)
<1>1. /\ DOMAIN log = 1 .. Len(log) /\ Len(log) \in Nat /\ now \in Int
      /\ \A i \in DOMAIN log : log[i] \in Entry
  BY Shapes
<1>2. id \in Created /\ id \in Active /\ Target(id) <= now
  BY DEF Due, Active
<1>3. Target(id) \in Int /\ Record(id) \in Entry
  BY <1>2, TargetType DEF ScheduleInv
<1>4. Record(id).at \in Int /\ Record(id).every \in Nat
  BY <1>3 DEF Entry
<1>5. CASE OneShot(id)
  <2>1. Events("dispatch", id) = {} /\ Occurrence(id, Target(id), now) = Target(id)
    BY <1>2, <1>5 DEF Active, Occurrence
  <2>2. QED
    BY <1>2, <1>3, <2>1
<1>6. CASE ~OneShot(id)
  <2> DEFINE e == Record(id).every
  <2>1. e \in Nat /\ e > 0
    BY <1>4, <1>6 DEF OneShot
  <2>2. \A target, time : Occurrence(id, target, time) = target + ((time - target) \div e) * e
    BY <1>6 DEF Occurrence
  <2> HIDE DEF e
  <2>3. ASSUME NEW target \in Int, NEW time \in Int
        PROVE  /\ Occurrence(id, target, time) \in Int
               /\ Occurrence(id, target, time) <= time /\ time < Occurrence(id, target, time) + e
               /\ target <= time => target <= Occurrence(id, target, time)
    BY <2>1, <2>2, Aligned
  <2> DEFINE occurrence == Occurrence(id, Target(id), now)
  <2>4. occurrence \in Int /\ occurrence <= now /\ Target(id) <= occurrence
    BY <1>1, <1>2, <1>3, <2>3
  <2> HIDE DEF occurrence
  <2>5. ASSUME NEW k \in Events("dispatch", id) PROVE log[k].at \in Int /\ log[k].at < Target(id)
    <3> DEFINE dispatches == Events("dispatch", id)
               last == CHOOSE i \in dispatches : \A j \in dispatches : j <= i
    <3>1. dispatches \in SUBSET (1 .. Len(log)) /\ dispatches # {}
      BY <1>1 DEF Events
    <3>2. last \in dispatches /\ k <= last
      BY <1>1, <3>1, LastExists
    <3>3. log[last].at \in Int /\ log[k].at \in Int
      <4>1. log[last] \in Entry /\ log[k] \in Entry
        BY <1>1, <3>1, <3>2
      <4>2. QED
        BY <4>1 DEF Entry
    <3>4. Target(id) = Occurrence(id, Record(id).at, log[last].at) + e
      BY <3>1 DEF Target, e
    <3> HIDE DEF last
    <3>5. log[last].at < Target(id)
      BY <1>4, <2>3, <3>3, <3>4
    <3>6. log[k].at <= log[last].at
      <4>1. CASE k = last
        BY <3>3, <4>1
      <4>2. CASE k < last
        BY <3>2, <3>3, <4>2 DEF Events, DispatchTimes
      <4>3. k \in Int /\ last \in Int
        BY <1>1, <3>1, <3>2
      <4>4. QED
        BY <3>2, <4>1, <4>2, <4>3
    <3> DEFINE a == log[k].at
               b == log[last].at
    <3>7. a \in Int /\ b \in Int /\ a <= b /\ b < Target(id)
      BY <3>3, <3>5, <3>6
    <3> HIDE DEF a, b
    <3>8. a < Target(id)
      BY <1>3, <3>7
    <3>9. QED
      BY <3>3, <3>8 DEF a
  <2>6. ASSUME NEW k \in Events("dispatch", id) PROVE log[k].at < occurrence
    <3> DEFINE a == log[k].at
    <3>1. a \in Int /\ a < Target(id)
      BY <2>5
    <3> HIDE DEF a
    <3>2. a < occurrence
      BY <1>3, <2>4, <3>1
    <3>3. QED
      BY <3>2 DEF a
  <2>7. QED
    BY <2>4, <2>6 DEF occurrence
<1>7. QED
  BY <1>5, <1>6

\* The order of a batch names each of its reminders once.
LEMMA BatchOrder ==
  ASSUME ScheduleInv, NEW order \in InOrder(Decision)
  PROVE  /\ Cardinality(Decision) \in Nat /\ order \in [1 .. Cardinality(Decision) -> Decision]
         /\ \A j, k \in 1 .. Cardinality(Decision) : order[j] = order[k] => j = k
         /\ \A id \in Decision : \E k \in 1 .. Cardinality(Decision) : order[k] = id
<1> DEFINE n == Cardinality(Decision)
<1>1. n \in Nat /\ Decision \subseteq Nat
  BY DecisionType DEF ScheduleInv
<1>2. order \in [1 .. n -> Decision] /\ \A j, k \in 1 .. n : j < k => order[j] # order[k]
  BY DEF InOrder
<1>3. IsFiniteSet(Decision)
  BY DecisionFinite DEF ScheduleInv
<1>4. n = Cardinality(Decision)
  OBVIOUS
<1> HIDE DEF n
<1>5. \A j, k \in 1 .. n : order[j] = order[k] => j = k
  <2>1. \A j, k \in 1 .. n : j \in Int /\ k \in Int
    BY <1>1
  <2>2. QED
    BY <1>2, <2>1
<1>6. order \in Injection(1 .. n, Decision)
  <2>1. DOMAIN order = 1 .. n
    BY <1>2
  <2>2. IsInjective(order)
    BY <1>5, <2>1 DEF IsInjective
  <2>3. QED
    BY <1>2, <2>2 DEF Injection
<1>7. IsFiniteSet(1 .. n) /\ Cardinality(1 .. n) = n
  <2>1. Cardinality(1 .. n) = IF 1 > n THEN 0 ELSE n - 1 + 1
    BY <1>1, FS_Interval
  <2>2. QED
    BY <1>1, <2>1, FS_Interval
<1>8. order \in Surjection(1 .. n, Decision)
  BY <1>3, <1>4, <1>6, <1>7, FS_Injection
<1>9. \A id \in Decision : \E k \in 1 .. n : order[k] = id
  BY <1>8 DEF Surjection
<1>10. QED
  BY <1>1, <1>2, <1>5, <1>9 DEF n

\* The log after a drive has sent its message and k of its dispatches.
BatchLogged(order, k) ==
    /\ DOMAIN log' = 1 .. Len(log) + 1 + k /\ log'[Len(log) + 1] = Followup(Sent)
    /\ \A i \in DOMAIN log : log'[i] = log[i]
    /\ \A m \in 1 .. k : order[m] \in Decision /\ log'[Len(log) + 1 + m] = Event("dispatch", order[m], now, 0)

\* The k-th dispatch of a batch is k places behind its message.
LEMMA MessageThenBatch ==
  ASSUME NEW S, NEW s \in Seq(S), NEW e \in S, NEW ds \in Seq(S)
  PROVE  LET all == Append(s, e) \o ds
         IN  /\ DOMAIN all = 1 .. Len(s) + 1 + Len(ds) /\ all[Len(s) + 1] = e
             /\ \A i \in DOMAIN s : all[i] = s[i]
             /\ \A m \in 1 .. Len(ds) : all[Len(s) + 1 + m] = ds[m]
<1> DEFINE base == Append(s, e)
           all == base \o ds
<1>1. Len(s) \in Nat /\ DOMAIN s = 1 .. Len(s) /\ Len(ds) \in Nat
  BY LenProperties
<1>2. /\ base \in Seq(S) /\ Len(base) = Len(s) + 1 /\ base[Len(s) + 1] = e
      /\ \A i \in 1 .. Len(s) : base[i] = s[i]
  BY AppendProperties
<1> HIDE DEF base
<1>3. /\ all \in Seq(S) /\ Len(all) = Len(base) + Len(ds)
      /\ \A i \in 1 .. Len(base) + Len(ds) : all[i] = IF i <= Len(base) THEN base[i] ELSE ds[i - Len(base)]
  BY <1>2, ConcatProperties
<1>4. DOMAIN all = 1 .. Len(all)
  BY <1>3, LenProperties
<1> HIDE DEF all
<1>5. ASSUME NEW m \in 1 .. Len(ds) PROVE all[Len(s) + 1 + m] = ds[m]
  <2>1. Len(s) + 1 + m \in 1 .. Len(base) + Len(ds) /\ ~(Len(s) + 1 + m <= Len(base)) /\ Len(s) + 1 + m - Len(base) = m
    BY <1>1, <1>2
  <2>2. QED
    BY <1>3, <2>1
<1>6. ASSUME NEW i \in 1 .. Len(base) PROVE all[i] = base[i]
  <2>1. i \in 1 .. Len(base) + Len(ds) /\ i <= Len(base)
    BY <1>1, <1>2
  <2>2. QED
    BY <1>3, <2>1
<1>7. all[Len(s) + 1] = e /\ \A i \in 1 .. Len(s) : all[i] = s[i]
  BY <1>1, <1>2, <1>6
<1>8. DOMAIN all = 1 .. Len(s) + 1 + Len(ds)
  BY <1>1, <1>2, <1>3, <1>4
<1>9. QED
  BY <1>1, <1>5, <1>7, <1>8 DEF all, base

LEMMA BatchIsLogged ==
  ASSUME ScheduleInv, NEW order \in InOrder(Decision), NEW ds \in Seq(Entry), Len(ds) \in 0 .. Cardinality(Decision),
         \A m \in 1 .. Len(ds) : ds[m] = Dispatches(order)[m]
  PROVE  log' = Append(log, Followup(Sent)) \o ds => BatchLogged(order, Len(ds))
<1>1. log \in Seq(Entry)
  BY Shapes
<1>2. Followup(Sent) \in Entry
  BY SentType DEF Followup, Entry, ScheduleInv, TypeOK
<1>3. \A m \in 1 .. Len(ds) : order[m] \in Decision /\ Dispatches(order)[m] = Event("dispatch", order[m], now, 0)
  <2>1. 1 .. Len(ds) \subseteq 1 .. Cardinality(Decision)
    BY BatchOrder
  <2>2. DOMAIN order = 1 .. Cardinality(Decision) /\ \A m \in DOMAIN order : order[m] \in Decision
    BY BatchOrder
  <2>3. QED
    BY <2>1, <2>2 DEF Dispatches
<1> DEFINE all == Append(log, Followup(Sent)) \o ds
<1>4. /\ DOMAIN all = 1 .. Len(log) + 1 + Len(ds) /\ all[Len(log) + 1] = Followup(Sent)
      /\ \A i \in DOMAIN log : all[i] = log[i]
      /\ \A m \in 1 .. Len(ds) : all[Len(log) + 1 + m] = ds[m]
  BY <1>1, <1>2, MessageThenBatch
<1> HIDE DEF all
<1>5. log' = all => BatchLogged(order, Len(ds))
  BY <1>3, <1>4 DEF BatchLogged
<1>6. QED
  BY <1>5 DEF all

\* What a drive sends was not sent in this life, nor dispatched since in any.
LEMMA OnceSends ==
  ASSUME ScheduleInv, OnceInv, ~faulted, life' = life, NEW order \in InOrder(Decision),
         NEW k \in 0 .. Cardinality(Decision), BatchLogged(order, k), k = Cardinality(Decision) \/ faulted'
  PROVE  DispatchTimes' /\ SentInv' /\ SentOnce'
<1> DEFINE n == Len(log) + 1
<1>1. /\ Len(log) \in Nat /\ DOMAIN log = 1 .. Len(log) /\ \A i \in DOMAIN log : log[i] \in Entry
      /\ now \in Nat /\ life \in Nat /\ k \in Nat
  BY Shapes, BatchOrder
<1>2. /\ DOMAIN log' = 1 .. n + k /\ log'[n] = Followup(Sent)
      /\ \A i \in DOMAIN log : log'[i] = log[i]
      /\ \A m \in 1 .. k : order[m] \in Decision /\ log'[n + m] = Event("dispatch", order[m], now, 0)
  BY DEF BatchLogged
<1>3. n \in Nat /\ n > 0 /\ DOMAIN log = 1 .. n - 1
  BY <1>1
<1>4. ASSUME NEW id \in Decision
      PROVE  /\ Occurrence(id, Target(id), now) \in Int /\ Occurrence(id, Target(id), now) <= now
             /\ \A i \in DOMAIN log : log[i].op = "dispatch" /\ log[i].id = id =>
                   log[i].at < Occurrence(id, Target(id), now)
  <2>1. id \in Due
    BY DEF Decision
  <2>2. QED
    BY <2>1, DueAfterDispatch DEF OnceInv, Events
<1>5. \A i \in DOMAIN log' : \/ i \in DOMAIN log
                             \/ i = n
                             \/ \E m \in 1 .. k : i = n + m
  <2> HIDE DEF n
  <2>1. ASSUME NEW i \in 1 .. n + k PROVE i \in 1 .. n - 1 \/ i = n \/ i - n \in 1 .. k
    BY <1>1, <1>3
  <2>2. \A i \in 1 .. n + k : i = n + (i - n)
    BY <1>1, <1>3
  <2>3. DOMAIN log' = 1 .. n + k /\ DOMAIN log = 1 .. n - 1
    BY <1>2, <1>3
  <2> SUFFICES ASSUME NEW i \in 1 .. n + k
               PROVE  i \in 1 .. n - 1 \/ i = n \/ \E m \in 1 .. k : i = n + m
    BY <2>3
  <2>4. QED
    BY <2>1, <2>2
<1> HIDE DEF n
<1>6. /\ log'[n].op = "followup" /\ log'[n].at = life /\ log'[n].sent = Sent
      /\ \A m \in 1 .. k : /\ log'[n + m].op = "dispatch" /\ log'[n + m].id = order[m] /\ log'[n + m].at = now
                           /\ order[m] \in Decision /\ n + m \in DOMAIN log' /\ n + m > n
  <2>1. log'[n].op = "followup" /\ log'[n].at = life /\ log'[n].sent = Sent
    BY <1>2 DEF Followup
  <2>2. ASSUME NEW m \in 1 .. k
        PROVE  /\ log'[n + m].op = "dispatch" /\ log'[n + m].id = order[m] /\ log'[n + m].at = now
               /\ order[m] \in Decision /\ n + m \in DOMAIN log' /\ n + m > n
    <3>1. n + m \in 1 .. n + k /\ n + m > n
      BY <1>1, <1>3
    <3>2. n + m \in DOMAIN log'
      BY <1>2, <3>1
    <3>3. order[m] \in Decision /\ log'[n + m] = Event("dispatch", order[m], now, 0)
      BY <1>2
    <3> DEFINE entry == log'[n + m]
    <3>4. entry.op = "dispatch" /\ entry.id = order[m] /\ entry.at = now
      <4>1. entry = Event("dispatch", order[m], now, 0)
        BY <3>3
      <4> HIDE DEF entry
      <4>2. QED
        BY <4>1 DEF Event
    <3>5. QED
      BY <3>1, <3>2, <3>3, <3>4
  <2>3. QED
    BY <2>1, <2>2
<1>7. \A i \in DOMAIN log : i \in Nat /\ i < n /\ i \in DOMAIN log'
  BY <1>1, <1>2, <1>3
<1>8. DispatchTimes'
  <2> SUFFICES ASSUME NEW i \in DOMAIN log', NEW j \in DOMAIN log', i < j,
                      log'[i].op = "dispatch", log'[j].op = "dispatch", log'[i].id = log'[j].id
               PROVE  log'[i].at < log'[j].at
    BY DEF DispatchTimes
  <2>1. CASE j \in DOMAIN log
    <3>1. i \in DOMAIN log
      BY <1>1, <1>2, <1>7, <2>1
    <3>2. QED
      BY <1>2, <2>1, <3>1 DEF OnceInv, DispatchTimes
  <2>2. CASE j = n
    BY <1>6, <2>2
  <2>3. CASE \E m \in 1 .. k : j = n + m
    <3>1. PICK m \in 1 .. k : j = n + m
      BY <2>3
    <3>2. log'[j].id = order[m] /\ log'[j].at = now /\ order[m] \in Decision
      BY <1>6, <3>1
    <3>3. CASE i \in DOMAIN log
      <4>1. log'[i] = log[i] /\ log[i].at \in Nat
        BY <1>1, <1>2, <3>3 DEF Entry
      <4>2. log[i].at < Occurrence(order[m], Target(order[m]), now)
        BY <1>4, <3>2, <3>3, <4>1
      <4>3. QED
        BY <1>1, <1>4, <3>2, <4>1, <4>2
    <3>4. CASE i = n
      BY <1>6, <3>4
    <3>5. CASE \E l \in 1 .. k : i = n + l
      <4>1. PICK l \in 1 .. k : i = n + l
        BY <3>5
      <4>2. order[l] = order[m] /\ l \in 1 .. Cardinality(Decision) /\ m \in 1 .. Cardinality(Decision)
        BY <1>6, <3>2, <4>1, BatchOrder
      <4>3. l = m
        BY <4>2, BatchOrder
      <4>4. QED
        BY <1>3, <3>1, <4>1, <4>3
    <3>6. QED
      BY <1>5, <3>3, <3>4, <3>5
  <2>4. QED
    BY <1>5, <2>1, <2>2, <2>3
<1>9. SentInv'
  <2> SUFFICES ASSUME NEW i \in DOMAIN log', log'[i].op = "followup"
               PROVE  /\ log'[i].at <= life
                      /\ log'[i].at = life /\ ~faulted' => \A once \in log'[i].sent :
                            \E l \in DOMAIN log' : /\ l > i /\ log'[l].op = "dispatch" /\ log'[l].id = once[1]
                                                   /\ once[2] <= log'[l].at
    BY DEF SentInv
  <2>1. CASE i \in DOMAIN log
    <3>1. log[i].op = "followup" /\ log'[i] = log[i]
      BY <1>2, <2>1
    <3>2. /\ log[i].at <= life
          /\ log[i].at = life => \A once \in log[i].sent :
                \E l \in DOMAIN log : l > i /\ log[l].op = "dispatch" /\ log[l].id = once[1] /\ once[2] <= log[l].at
      BY <2>1, <3>1 DEF OnceInv, SentInv
    <3>3. QED
      BY <1>2, <1>7, <3>1, <3>2
  <2>2. CASE i = n
    <3>1. ASSUME ~faulted', NEW once \in Sent
          PROVE  \E l \in DOMAIN log' : /\ l > n /\ log'[l].op = "dispatch" /\ log'[l].id = once[1]
                                        /\ once[2] <= log'[l].at
      <4>1. PICK id \in Decision : once = <<id, Occurrence(id, Target(id), now)>>
        BY <3>1 DEF Sent
      <4>2. PICK m \in 1 .. k : order[m] = id
        BY <3>1, BatchOrder
      <4>3. n + m \in DOMAIN log' /\ n + m > n /\ log'[n + m].op = "dispatch" /\ log'[n + m].id = id /\ log'[n + m].at = now
        BY <1>6, <4>2
      <4>4. once[1] = id /\ once[2] <= now
        BY <1>4, <4>1
      <4>5. QED
        BY <4>3, <4>4
    <3>2. QED
      BY <1>1, <1>6, <2>2, <3>1
  <2>3. CASE \E m \in 1 .. k : i = n + m
    BY <1>6, <2>3
  <2>4. QED
    BY <1>5, <2>1, <2>2, <2>3
<1>10. SentOnce'
  <2> SUFFICES ASSUME NEW i \in DOMAIN log', NEW j \in DOMAIN log', i < j,
                      log'[i].op = "followup", log'[j].op = "followup",
                      NEW once \in log'[i].sent \cap log'[j].sent
               PROVE  /\ log'[i].at < log'[j].at
                      /\ \A l \in i .. j : log'[l].op = "dispatch" /\ log'[l].id = once[1] => log'[l].at < once[2]
    BY DEF SentOnce
  <2>1. CASE j \in DOMAIN log
    <3>1. i \in DOMAIN log /\ i .. j \subseteq DOMAIN log
      BY <1>1, <1>2, <1>7, <2>1
    <3>2. QED
      BY <1>2, <2>1, <3>1 DEF OnceInv, SentOnce
  <2>2. CASE j = n
    <3>1. i \in DOMAIN log
      BY <1>2, <1>5, <1>6, <1>7, <2>2
    <3>2. PICK id \in Decision : once = <<id, Occurrence(id, Target(id), now)>>
      BY <1>6, <2>2 DEF Sent
    <3>3. once[1] = id /\ once[2] \in Int
          /\ \A l \in DOMAIN log : log[l].op = "dispatch" /\ log[l].id = id => log[l].at < once[2]
      BY <1>4, <3>2
    <3>4. log'[i].at < log'[j].at
      <4>1. log'[i] = log[i] /\ log[i] \in Entry /\ log'[j].at = life
        BY <1>1, <1>2, <1>6, <2>2, <3>1
      <4>2. log[i].at <= life /\ log[i].at \in Nat
        BY <3>1, <4>1 DEF OnceInv, SentInv, Entry
      <4>3. ASSUME log[i].at = life PROVE FALSE
        <5>1. PICK l \in DOMAIN log : log[l].op = "dispatch" /\ log[l].id = once[1] /\ once[2] <= log[l].at
          BY <3>1, <4>1, <4>3 DEF OnceInv, SentInv
        <5>2. log[l].at < once[2] /\ log[l].at \in Nat
          BY <1>1, <3>3, <5>1 DEF Entry
        <5>3. QED
          BY <3>3, <5>1, <5>2
      <4>4. QED
        BY <1>1, <4>1, <4>2, <4>3
    <3>5. ASSUME NEW l \in i .. j, log'[l].op = "dispatch", log'[l].id = once[1] PROVE log'[l].at < once[2]
      <4>1. l \in DOMAIN log \/ l = n
        BY <1>1, <1>7, <2>2, <3>1 DEF n
      <4>2. l \in DOMAIN log
        BY <1>6, <3>5, <4>1
      <4>3. QED
        BY <1>2, <3>3, <3>5, <4>2
    <3>6. QED
      BY <3>4, <3>5
  <2>3. CASE \E m \in 1 .. k : j = n + m
    BY <1>6, <2>3
  <2>4. QED
    BY <1>5, <2>1, <2>2, <2>3
<1>11. QED
  BY <1>8, <1>9, <1>10

\* Any other event leaves what was sent and dispatched as it was.
LEMMA OnceAppends ==
  ASSUME ScheduleInv, OnceInv, life' = life, faulted' = faulted, NEW e \in Entry,
         e.op \notin {"followup", "dispatch"}, log' = Append(log, e)
  PROVE  DispatchTimes' /\ SentInv' /\ SentOnce'
<1>1. log \in Seq(Entry) /\ Len(log) \in Nat /\ DOMAIN log = 1 .. Len(log)
  BY Shapes
<1>2. /\ DOMAIN log' = 1 .. Len(log) + 1 /\ log'[Len(log) + 1] = e
      /\ \A i \in DOMAIN log : log'[i] = log[i]
  BY <1>1
<1>3. /\ DOMAIN log \subseteq DOMAIN log' /\ DOMAIN log \subseteq Nat
      /\ \A i \in DOMAIN log' : log'[i].op \in {"followup", "dispatch"} => i \in DOMAIN log
  BY <1>1, <1>2
<1>4. DispatchTimes'
  BY <1>2, <1>3 DEF OnceInv, DispatchTimes
<1>5. SentInv'
  <2> SUFFICES ASSUME NEW i \in DOMAIN log', log'[i].op = "followup"
               PROVE  /\ log'[i].at <= life
                      /\ log'[i].at = life /\ ~faulted => \A once \in log'[i].sent :
                            \E l \in DOMAIN log' : /\ l > i /\ log'[l].op = "dispatch" /\ log'[l].id = once[1]
                                                   /\ once[2] <= log'[l].at
    BY DEF SentInv
  <2>1. i \in DOMAIN log /\ log'[i] = log[i]
    BY <1>2, <1>3
  <2>2. QED
    BY <1>2, <1>3, <2>1 DEF OnceInv, SentInv
<1>6. SentOnce'
  <2> SUFFICES ASSUME NEW i \in DOMAIN log', NEW j \in DOMAIN log', i < j,
                      log'[i].op = "followup", log'[j].op = "followup",
                      NEW once \in log'[i].sent \cap log'[j].sent
               PROVE  /\ log'[i].at < log'[j].at
                      /\ \A l \in i .. j : log'[l].op = "dispatch" /\ log'[l].id = once[1] => log'[l].at < once[2]
    BY DEF SentOnce
  <2>1. i \in DOMAIN log /\ j \in DOMAIN log
    BY <1>3
  <2>2. i .. j \subseteq DOMAIN log
    BY <1>1, <2>1
  <2>3. QED
    BY <1>2, <2>1, <2>2 DEF OnceInv, SentOnce
<1>7. QED
  BY <1>4, <1>5, <1>6

\* A new runtime starts over a prefix of the log, in a life that has sent nothing.
LEMMA OnceRestarts ==
  ASSUME ScheduleInv, OnceInv, NEW k \in 0 .. Len(log), Restarts(k)
  PROVE  DispatchTimes' /\ SentInv' /\ SentOnce'
<1>1. log \in Seq(Entry) /\ Len(log) \in Nat /\ DOMAIN log = 1 .. Len(log) /\ life \in Nat /\ \A i \in DOMAIN log : log[i] \in Entry
  BY Shapes
<1>2. /\ DOMAIN log' = 1 .. k /\ k \in Nat /\ life' = life + 1
      /\ \A i \in 1 .. k : i \in DOMAIN log /\ log'[i] = log[i]
  BY <1>1 DEF Restarts
<1>3. DispatchTimes'
  BY <1>2 DEF OnceInv, DispatchTimes
<1>4. SentInv'
  <2> SUFFICES ASSUME NEW i \in DOMAIN log', log'[i].op = "followup" PROVE log'[i].at <= life' /\ log'[i].at # life'
    BY DEF SentInv
  <2>1. log[i].at <= life /\ log[i].at \in Nat /\ log'[i] = log[i]
    BY <1>1, <1>2 DEF OnceInv, SentInv, Entry
  <2>2. QED
    BY <1>1, <1>2, <2>1
<1>5. SentOnce'
  <2> SUFFICES ASSUME NEW i \in DOMAIN log', NEW j \in DOMAIN log', i < j,
                      log'[i].op = "followup", log'[j].op = "followup",
                      NEW once \in log'[i].sent \cap log'[j].sent
               PROVE  /\ log'[i].at < log'[j].at
                      /\ \A l \in i .. j : log'[l].op = "dispatch" /\ log'[l].id = once[1] => log'[l].at < once[2]
    BY DEF SentOnce
  <2>1. i .. j \subseteq 1 .. k
    BY <1>2
  <2>2. QED
    BY <1>2, <2>1 DEF OnceInv, SentOnce
<1>6. QED
  BY <1>3, <1>4, <1>5

\* Every step keeps the invariant of what is sent.
LEMMA OnceStep == ScheduleInv /\ OnceInv /\ [Next]_vars => OnceInv'
<1> SUFFICES ASSUME ScheduleInv, OnceInv, [Next]_vars PROVE DispatchTimes' /\ SentInv' /\ SentOnce'
  BY RunStep DEF OnceInv
<1>1. CASE log' = log /\ life' = life /\ faulted' = faulted
  BY <1>1 DEF OnceInv, DispatchTimes, SentInv, SentOnce
<1>2. CASE Crash \/ Reopens
  <2>1. PICK k \in 0 .. Len(log) : Restarts(k)
    <3>1. stored \in Nat /\ Len(log) \in Nat
      BY Shapes DEF ScheduleInv, TypeOK
    <3>2. QED
      BY <1>2, <3>1 DEF Crash, Reopens
  <2>2. QED
    BY <2>1, OnceRestarts
<1>3. ASSUME 1 \in DOMAIN queue, Claims(1) PROVE ~faulted
  BY <1>3 DEF Claims, Preflighted, At, OnceInv, RunInv, OneDrive
<1>4. ASSUME 1 \in DOMAIN queue, DriveSends(1) PROVE DispatchTimes' /\ SentInv' /\ SentOnce'
  <2>1. PICK order \in InOrder(Decision) : log' = Append(log, Followup(Sent)) \o Dispatches(order)
    BY <1>4 DEF DriveSends
  <2>2. ~faulted /\ life' = life
    BY <1>3, <1>4 DEF DriveSends, Claims, Preflighted, boundVars
  <2>3. Dispatches(order) \in Seq(Entry) /\ Len(Dispatches(order)) = Cardinality(Decision)
    BY DispatchesType DEF ScheduleInv
  <2>4. Cardinality(Decision) \in 0 .. Cardinality(Decision)
    BY BatchOrder
  <2>5. BatchLogged(order, Cardinality(Decision))
    BY <2>1, <2>3, <2>4, BatchIsLogged
  <2>6. QED
    BY <2>2, <2>4, <2>5, OnceSends
<1>5. ASSUME 1 \in DOMAIN queue, DispatchFails(1) PROVE DispatchTimes' /\ SentInv' /\ SentOnce'
  <2>1. PICK order \in InOrder(Decision), k \in 0 .. Cardinality(Decision) - 1 :
           log' = Append(log, Followup(Sent)) \o SubSeq(Dispatches(order), 1, k)
    BY <1>5 DEF DispatchFails
  <2>2. ~faulted /\ life' = life /\ faulted'
    BY <1>3, <1>5 DEF DispatchFails, Fault, AppendFaults
  <2>3. k \in 0 .. Cardinality(Decision) /\ k \in Nat
    BY BatchOrder
  <2> DEFINE all == Dispatches(order)
             ds == SubSeq(all, 1, k)
  <2>4. all \in Seq(Entry) /\ Len(all) = Cardinality(Decision)
    BY DispatchesType DEF ScheduleInv
  <2>5. ds \in Seq(Entry) /\ Len(ds) = k /\ \A m \in 1 .. k : ds[m] = all[m]
    <3> HIDE DEF all
    <3>1. QED
      BY <2>3, <2>4
  <2> HIDE DEF ds
  <2>6. log' = Append(log, Followup(Sent)) \o ds
    BY <2>1 DEF ds
  <2>7. BatchLogged(order, k)
    BY <2>3, <2>5, <2>6, BatchIsLogged
  <2>8. QED
    BY <2>2, <2>3, <2>7, OnceSends
<1>6. ASSUME 1 \in DOMAIN queue, ToolCreates(1) PROVE DispatchTimes' /\ SentInv' /\ SentOnce'
  <2>1. PICK rule \in Rule : log' = Append(log, Event("create", Cardinality(Created) + 1, now + rule.delay, rule.every))
    BY <1>6 DEF ToolCreates
  <2> DEFINE e == Event("create", Cardinality(Created) + 1, now + rule.delay, rule.every)
  <2>2. e \in Entry /\ e.op = "create"
    <3>1. rule.delay \in Nat /\ rule.every \in Nat /\ Cardinality(Created) \in Nat /\ now \in Nat
      BY ScheduleAssumption, DecisionType DEF Rule, ScheduleInv, TypeOK
    <3>2. QED
      BY <3>1 DEF Event, Entry
  <2>3. log' = Append(log, e) /\ life' = life /\ faulted' = faulted
    BY <1>6, <2>1 DEF ToolCreates, ToolPreflighted, boundVars
  <2> HIDE DEF e
  <2>4. QED
    BY <2>2, <2>3, OnceAppends
<1>7. ASSUME 1 \in DOMAIN queue, ToolDeletes(1) PROVE DispatchTimes' /\ SentInv' /\ SentOnce'
  <2> DEFINE e == Event("delete", queue[1].id, now, 0)
  <2>1. e \in Entry /\ e.op = "delete"
    BY <1>7, Shapes DEF Event, Entry, Transaction
  <2>2. log' = Append(log, e) /\ life' = life /\ faulted' = faulted
    BY <1>7 DEF ToolDeletes, ToolPreflighted, boundVars
  <2> HIDE DEF e
  <2>3. QED
    BY <2>1, <2>2, OnceAppends
<1>8. CASE Turn
  <2>1. 1 \in DOMAIN queue /\ (DriveStep(1) \/ ToolStep(1))
    BY <1>8 DEF Turn, Turns
  <2>2. QED
    BY <1>1, <1>4, <1>5, <1>6, <1>7, <2>1
    DEF DriveStep, ToolStep, DriveStarts, DriveFlushFails, DriveStops, DriveWaits, DriveFindsBusy, FollowupFails,
        MaintenanceEnds, DispatchStored, ToolStarts, ToolFails, ToolReads, ToolGivesUp, ToolConfirms,
        ToolPreflighted, Claims, Preflighted, Fault, logVars, runtimeVars, boundVars
<1>9. QED
  BY <1>1, <1>2, <1>8
  DEF Next, RunChecks, Retires, ToolCalled, ActivityStarts, TurnEnds, BusyEnds, IdleResolves, TimerFires, Tick,
      ClockJumps, Disposes, DisposeEnds, Fault, logVars, runtimeVars, boundVars, vars

\* A fresh runtime has sent nothing.
LEMMA OnceInit == Init => OnceInv
<1> SUFFICES ASSUME Init PROVE OnceInv
  OBVIOUS
<1>1. DOMAIN log = {} /\ DOMAIN queue = {1} /\ run = "driving" /\ faulted = FALSE
  BY DEF Init
<1>2. QED
  BY <1>1 DEF OnceInv, RunInv, OneDrive, DispatchTimes, SentInv, SentOnce

\* A reminder's occurrence is presented twice only by two lives of the session,
\* the later of which has read no dispatch of it: whatever the rules, clock
\* changes, failed appends, crashes and reopened sessions.
THEOREM SentAtMostOnce == Spec => []SentOnce
<1>1. OnceInv => SentOnce
  BY DEF OnceInv
<1>2. QED
  BY <1>1, OnceInit, OnceStep, ScheduleInvariant, PTL DEF Spec

=============================================================================
