------------------------ MODULE TeamMailbox_proofs ------------------------
(***************************************************************************)
(* Proofs about TeamMailbox, for any number of messages, any limit on the  *)
(* pending ones and any number of failures, releases and crashes.          *)
(***************************************************************************)
EXTENDS TeamMailbox, SequenceTheorems, FiniteSetTheorems, TLAPS

(***************************************************************************)
(* The invariant: what each record of either log, each checkpoint and each *)
(* pending record of delivery says of the part of the teammate's log that  *)
(* is stored, or will be once its flush ends.                              *)
(***************************************************************************)

Inserted(n, m) == \E i \in DOMAIN target : i <= n /\ target[i] = Event("inserted", m)
Covers(n, m) == n <= Len(target) /\ Inserted(n, m)

LeadEvents == [kind : {"queued", "delivered"}, msg : Message]
TargetEvents == [kind : {"inserted", "spliced", "user"}, msg : Message \union {None}]
Dispatches == [msg : Message, at : Labels, hand : Message \union {None}, rest : SUBSET Message,
               session : Nat, upTo : Nat]

GoodRecords == {e \in LeadEvents : e.kind = "delivered" => Inserted(targetStored, e.msg)}
GoodTransactions == {t \in [kind : {"send", "mark", "ack"}, msg : Message, flushing : BOOLEAN] :
                        t.kind \in {"mark", "ack"} => Inserted(targetStored, t.msg)}
GoodDispatches == {d \in Dispatches :
                      /\ d.at \in {"reading", "steering", "flushing", "marking"} => d.hand \in Message
                      /\ d.at = "flushing" => Covers(d.upTo, d.hand)}
GoodAcks == {a \in [msg : Message, upTo : Nat] : Covers(a.upTo, a.msg)}

\* The teammate's log: the model sees what was inserted before.
TargetInv ==
    /\ target \in Seq(TargetEvents) /\ targetStored \in 0 .. Len(target)
    /\ \A i \in DOMAIN target :
          /\ target[i].kind # "spliced" => target[i].msg \in Message
          /\ target[i].kind = "user" => Inserted(i, target[i].msg)
    /\ claimed \subseteq DOMAIN target
    /\ \A i \in claimed : target[i].kind = "inserted"

WorkInv ==
    /\ lead \in Seq(GoodRecords) /\ leadStored \in 0 .. Len(lead)
    /\ transactions \in Seq(GoodTransactions)
    /\ dispatches \in Seq(GoodDispatches)
    /\ acks \subseteq GoodAcks

CountInv ==
    /\ live \in BOOLEAN /\ sent \in 0 .. MaxMessage
    /\ recoveries \subseteq [start : Nat, begun : BOOLEAN, hand : Message \union {None}, rest : SUBSET Message]
    /\ faults \in 0 .. MaxFault /\ retired \in 0 .. faults

\* A dispatch awaits the transaction that records its delivery, the only such one.
MarkInv ==
    \A i \in DOMAIN transactions : transactions[i].kind = "mark" =>
        /\ At("marking")
        /\ \A j \in DOMAIN transactions : transactions[j].kind = "mark" => i = j

MailboxInv == TargetInv /\ WorkInv /\ MarkInv /\ CountInv

-----------------------------------------------------------------------------
(* What the operators on the logs and the queues return.                   *)

\* A message that is accepted in a prefix of the log was inserted in it.
LEMMA AcceptedInserted ==
  ASSUME TargetInv, NEW n \in 0 .. Len(target), NEW m \in Message,
         Accepted(Prefix(target, n), m)
  PROVE  Inserted(n, m)
<1> DEFINE log == Prefix(target, n)
<1>1. /\ Len(log) = n /\ DOMAIN log = 1 .. n
      /\ \A i \in 1 .. n : log[i] = target[i] /\ i \in DOMAIN target /\ target[i] \in TargetEvents
  BY DEF TargetInv, Prefix
<1>2. CASE Has(log, "user", m)
  <2>1. PICK i \in 1 .. n : target[i] = Event("user", m)
    BY <1>1, <1>2 DEF Has
  <2>2. Inserted(i, m)
    BY <1>1, <2>1 DEF TargetInv, Event
  <2>3. QED
    BY <2>1, <2>2, <1>1 DEF Inserted, TargetInv
<1>3. CASE \E i \in Inbox(log) : log[i].msg = m
  <2>1. PICK i \in 1 .. n : target[i].kind = "inserted" /\ target[i].msg = m
    BY <1>1, <1>3 DEF Inbox
  <2>2. target[i] = Event("inserted", m)
    BY <1>1, <2>1 DEF TargetEvents, Event
  <2>3. QED
    BY <1>1, <2>1, <2>2 DEF Inserted
<1>4. QED
  BY <1>2, <1>3 DEF Accepted

\* A message that is accepted in the live log was inserted in it.
LEMMA AcceptedCovered ==
  ASSUME TargetInv, NEW m \in Message, Accepted(target, m)
  PROVE  Covers(Len(target), m)
<1>1. Prefix(target, Len(target)) = target /\ Len(target) \in Nat
  BY SubSeqFull DEF TargetInv, Prefix
<1>2. QED
  BY <1>1, AcceptedInserted DEF Covers

\* Replacing the running entry of a queue, and ending it.
LEMMA Queue ==
  ASSUME NEW S, NEW s \in Seq(S), s # <<>>
  PROVE  /\ Head(s) \in S /\ s[1] \in S /\ Head(s) = s[1] /\ 1 \in DOMAIN s
         /\ Tail(s) \in Seq(S)
         /\ \A e \in S : [s EXCEPT ![1] = e] \in Seq(S)
<1>1. 1 \in 1 .. Len(s)
  BY EmptySeq
<1>2. QED
  BY <1>1, ExceptSeq, HeadTailProperties

\* What a part of the log covers stays covered while the log grows.
LEMMA Grow ==
  ASSUME TargetInv, target' \in Seq(TargetEvents), Len(target) <= Len(target'),
         \A i \in DOMAIN target : target'[i] = target[i],
         targetStored' \in targetStored .. Len(target')
  PROVE  /\ \A n, m : Inserted(n, m) => Inserted(n, m)'
         /\ GoodRecords \subseteq GoodRecords' /\ GoodTransactions \subseteq GoodTransactions'
         /\ GoodDispatches \subseteq GoodDispatches' /\ GoodAcks \subseteq GoodAcks'
<1>1. DOMAIN target = 1 .. Len(target) /\ DOMAIN target' = 1 .. Len(target') /\ Len(target) \in Nat /\ Len(target') \in Nat
  BY DEF TargetInv
<1>2. \A n, m : Inserted(n, m) => Inserted(n, m)'
  BY <1>1 DEF Inserted
<1>3. \A m : Inserted(targetStored, m) => Inserted(targetStored, m)'
  BY <1>1 DEF Inserted, TargetInv
<1>4. \A n \in Nat : \A m : Covers(n, m) => Covers(n, m)'
  BY <1>1, <1>2 DEF Covers
<1>5. GoodRecords \subseteq GoodRecords' /\ GoodTransactions \subseteq GoodTransactions'
  BY <1>3 DEF GoodRecords, GoodTransactions, LeadEvents
<1>6. GoodDispatches \subseteq GoodDispatches' /\ GoodAcks \subseteq GoodAcks'
  BY <1>4 DEF GoodDispatches, Dispatches, GoodAcks
<1>7. QED
  BY <1>2, <1>5, <1>6

-----------------------------------------------------------------------------
(* The teammate's log.                                                     *)

\* The live log grows at its end, and its stored part with it.
GrowsOnly ==
    /\ target' \in Seq(TargetEvents) /\ Len(target) <= Len(target')
    /\ \A i \in DOMAIN target : target'[i] = target[i]
    /\ targetStored' \in targetStored .. Len(target')

\* No step but a crash loses an event.
LEMMA TargetGrows ==
  ASSUME MailboxInv, [Next]_vars, ~Crash
  PROVE  GrowsOnly
<1> USE DEF MailboxInv, GrowsOnly
<1>0. /\ target \in Seq(TargetEvents) /\ targetStored \in 0 .. Len(target)
      /\ Len(target) \in Nat /\ DOMAIN target = 1 .. Len(target)
  BY DEF TargetInv
<1>1. CASE UNCHANGED <<target, targetStored>>
  BY <1>0, <1>1
<1>2. CASE Steer
  <2>1. Event("inserted", InHand) \in TargetEvents
    <3>1. Head(dispatches) \in GoodDispatches
      BY <1>2, Queue DEF Steer, At, WorkInv
    <3>2. QED
      BY <3>1 DEF GoodDispatches, Dispatches, TargetEvents, Event, InHand
  <2>2. QED
    BY <1>0, <1>2, <2>1 DEF Steer
<1>3. CASE Checkpoint
  <2>1. Head(dispatches) \in GoodDispatches
    BY <1>3, Queue DEF Checkpoint, At, WorkInv
  <2>2. Head(dispatches).upTo \in 0 .. Len(target)
    BY <2>1, <1>3, <1>0 DEF GoodDispatches, Dispatches, Covers, Checkpoint, At
  <2>3. QED
    BY <1>0, <1>3, <2>2 DEF Checkpoint, Flushed
<1>4. CASE Claim
  <2>1. Event("spliced", None) \in TargetEvents
    BY DEF Event, TargetEvents
  <2>2. QED
    BY <1>0, <1>4, <2>1 DEF Claim
<1>5. CASE Admit
  <2>1. PICK batch \in [1 .. Cardinality(claimed) -> claimed] :
           target' = target \o [i \in DOMAIN batch |-> Event("user", target[batch[i]].msg)]
    BY <1>5 DEF Admit
  <2> DEFINE news == [i \in DOMAIN batch |-> Event("user", target[batch[i]].msg)]
  <2>2. Cardinality(claimed) \in Nat
    <3>1. IsFiniteSet(1 .. Len(target))
      BY <1>0, FS_Interval
    <3>2. QED
      BY <1>0, <3>1, FS_Subset, FS_CardinalityType DEF TargetInv
  <2>3. news \in Seq(TargetEvents)
    <3>1. \A i \in 1 .. Cardinality(claimed) : Event("user", target[batch[i]].msg) \in TargetEvents
      <4>1. \A j \in claimed : target[j] \in TargetEvents
        BY <1>0, ElementOfSeq DEF TargetInv
      <4>2. QED
        BY <4>1 DEF TargetEvents, Event
    <3>2. QED
      BY <2>2, <3>1
  <2>4. QED
    <3>1. UNCHANGED targetStored
      BY <1>5 DEF Admit
    <3>2. Len(news) \in Nat
      BY <2>3, LenProperties
    <3>3. /\ target \o news \in Seq(TargetEvents) /\ Len(target \o news) = Len(target) + Len(news)
          /\ \A i \in 1 .. Len(target) : (target \o news)[i] = target[i]
      <4> HIDE DEF news
      <4>1. QED
        BY <1>0, <2>3, <3>2, ConcatProperties
    <3>4. target' = target \o news
      BY <2>1
    <3>5. QED
      <4> HIDE DEF news
      <4>1. QED
        BY <1>0, <3>1, <3>2, <3>3, <3>4
<1>6. ASSUME NEW a \in acks, AckFlushed(a) PROVE GrowsOnly
  <2>1. a.upTo \in 0 .. Len(target)
    BY <1>0 DEF WorkInv, GoodAcks, Covers
  <2>2. QED
    BY <1>0, <1>6, <2>1 DEF AckFlushed, Flushed
<1>7. CASE Retire
  BY <1>0, <1>7 DEF Retire
<1>8. QED
  BY <1>1, <1>2, <1>3, <1>4, <1>5, <1>6, <1>7
  DEF Next, Journal, Dispatch, Acknowledgement, Driver, RecoveryStep, Send, SendAppends, SendRejected,
      MarkAppends, SendFlushed, Marked, TransactionFails, Appends, DispatchStarts, DispatchNext, ReadStored,
      DispatchFails, ClaimDropped, AckFails, TargetStarts, RecoveryBegins, RecoveryGoesOn, vars, targetVars

\* The teammate's log keeps its shape while it grows.
LEMMA TargetStep ==
  ASSUME MailboxInv, [Next]_vars, ~Crash
  PROVE  TargetInv'
<1>1. GrowsOnly
  BY TargetGrows
<1>2. /\ target' \in Seq(TargetEvents) /\ targetStored' \in 0 .. Len(target')
      /\ DOMAIN target = 1 .. Len(target) /\ DOMAIN target' = 1 .. Len(target')
      /\ Len(target) \in Nat /\ Len(target') \in Nat /\ Len(target) <= Len(target')
      /\ \A i \in 1 .. Len(target) : target'[i] = target[i]
  BY <1>1 DEF GrowsOnly, MailboxInv, TargetInv
<1>3. \A n, m : Inserted(n, m) => Inserted(n, m)'
  BY <1>1, Grow DEF GrowsOnly, MailboxInv
<1>4. ASSUME NEW i \in DOMAIN target'
      PROVE  /\ (target[i].kind # "spliced" => target[i].msg \in Message)'
             /\ (target[i].kind = "user" => Inserted(i, target[i].msg))'
  <2>1. CASE i \in DOMAIN target
    BY <1>2, <1>3, <2>1 DEF MailboxInv, TargetInv
  <2>2. CASE i \notin DOMAIN target
    <3>1. CASE Steer
      <4>1. target' = Append(target, Event("inserted", InHand)) /\ InHand \in Message
        BY <3>1, Queue DEF Steer, At, MailboxInv, WorkInv, GoodDispatches, InHand
      <4>2. target'[i] = Event("inserted", InHand)
        BY <1>2, <1>4, <2>2, <4>1
      <4>3. QED
        BY <4>1, <4>2 DEF Event
    <3>2. CASE Claim
      <4>1. target'[i] = Event("spliced", None)
        BY <1>2, <1>4, <2>2, <3>2 DEF Claim
      <4>2. QED
        BY <4>1 DEF Event
    <3>3. CASE Admit
      <4>1. PICK batch \in [1 .. Cardinality(claimed) -> claimed] :
               target' = target \o [k \in DOMAIN batch |-> Event("user", target[batch[k]].msg)]
        BY <3>3 DEF Admit
      <4> DEFINE news == [k \in DOMAIN batch |-> Event("user", target[batch[k]].msg)]
      <4>2. Cardinality(claimed) \in Nat
        <5>1. IsFiniteSet(1 .. Len(target))
          BY <1>2, FS_Interval
        <5>2. QED
          BY <1>2, <5>1, FS_Subset, FS_CardinalityType DEF MailboxInv, TargetInv
      <4>3. PICK k \in DOMAIN batch : target'[i] = Event("user", target[batch[k]].msg)
        <5>1. news \in Seq({Event("user", target[j].msg) : j \in claimed})
          BY <4>2
        <5>2. Len(news) \in Nat /\ DOMAIN news = 1 .. Len(news) /\ target' = target \o news
          BY <4>1, <5>1, LenProperties
        <5>3. Len(target') = Len(target) + Len(news) /\ target'[i] = news[i - Len(target)]
          <6> HIDE DEF news
          <6>1. QED
            BY <1>2, <1>4, <2>2, <5>1, <5>2
        <5>4. i - Len(target) \in DOMAIN news
          <6> HIDE DEF news
          <6>1. QED
            BY <1>2, <1>4, <2>2, <5>2, <5>3
        <5>5. QED
          BY <5>3, <5>4
      <4>4. batch[k] \in claimed
        OBVIOUS
      <4>5. /\ batch[k] \in DOMAIN target /\ target[batch[k]] = Event("inserted", target[batch[k]].msg)
            /\ target[batch[k]].msg \in Message
        <5>1. target[batch[k]] \in TargetEvents /\ target[batch[k]].kind = "inserted"
          BY <1>2, <4>4, ElementOfSeq DEF MailboxInv, TargetInv
        <5>2. QED
          BY <5>1, <4>4 DEF MailboxInv, TargetInv, TargetEvents, Event
      <4>6. Inserted(batch[k], target[batch[k]].msg)
        BY <4>5, <1>2 DEF Inserted
      <4>7. Inserted(i, target[batch[k]].msg)
        BY <4>5, <4>6, <1>2, <1>4, <2>2 DEF Inserted
      <4>8. QED
        BY <1>3, <4>3, <4>5, <4>7 DEF Event
    <3>4. CASE target' = target
      BY <2>2, <3>4, <1>4
    <3>5. QED
      BY <3>1, <3>2, <3>3, <3>4
      DEF Next, Journal, Dispatch, Acknowledgement, Driver, RecoveryStep, Send, SendAppends, SendRejected,
          MarkAppends, SendFlushed, Marked, TransactionFails, Appends, DispatchStarts, DispatchNext, ReadStored,
          Checkpoint, DispatchFails, ClaimDropped, AckFlushed, AckFails, Retire, TargetStarts, RecoveryBegins,
          RecoveryGoesOn, vars, targetVars
  <2>3. QED
    BY <2>1, <2>2
<1>5. claimed' \subseteq DOMAIN target' /\ \A i \in claimed' : target'[i].kind = "inserted"
  <2>1. CASE Claim
    <3>1. claimed' \subseteq DOMAIN target /\ \A i \in claimed' : target[i].kind = "inserted"
      BY <2>1 DEF Claim, Inbox
    <3>2. QED
      BY <3>1, <1>2
  <2>2. CASE claimed' \subseteq claimed
    BY <1>2, <2>2 DEF MailboxInv, TargetInv
  <2>3. QED
    BY <2>1, <2>2
    DEF Next, Journal, Dispatch, Acknowledgement, Driver, RecoveryStep, Send, SendAppends, SendRejected,
        MarkAppends, SendFlushed, Marked, TransactionFails, Appends, DispatchStarts, DispatchNext, ReadStored,
        Steer, Checkpoint, DispatchFails, Admit, ClaimDropped, AckFlushed, AckFails, Retire, TargetStarts,
        RecoveryBegins, RecoveryGoesOn, vars, targetVars
<1>6. QED
  BY <1>2, <1>4, <1>5 DEF TargetInv

-----------------------------------------------------------------------------
(* The lead's log and the work in hand.                                    *)

\* Every step but a crash keeps every record of work true.
LEMMA WorkStep ==
  ASSUME MailboxInv, [Next]_vars, ~Crash
  PROVE  WorkInv'
<1>1. GrowsOnly
  BY TargetGrows
<1>2. /\ \A n, m : Inserted(n, m) => Inserted(n, m)'
      /\ GoodRecords \subseteq GoodRecords' /\ GoodTransactions \subseteq GoodTransactions'
      /\ GoodDispatches \subseteq GoodDispatches' /\ GoodAcks \subseteq GoodAcks'
  BY <1>1, Grow DEF GrowsOnly, MailboxInv
<1>3. /\ lead \in Seq(GoodRecords') /\ transactions \in Seq(GoodTransactions')
      /\ dispatches \in Seq(GoodDispatches') /\ acks \subseteq GoodAcks'
      /\ leadStored \in 0 .. Len(lead) /\ Len(lead) \in Nat
  BY <1>2, SeqMonotonic DEF MailboxInv, WorkInv
<1>4. \A m \in Message : TryDispatch(m) \in Seq(GoodDispatches')
  <2>1. ASSUME NEW m \in Message PROVE NewDispatch(m) \in GoodDispatches'
    BY DEF NewDispatch, GoodDispatches, Dispatches, Labels
  <2>2. QED
    BY <1>3, <2>1, AppendProperties DEF TryDispatch
<1>5. ASSUME dispatches # <<>>
      PROVE  /\ GiveUp \in Seq(GoodDispatches') /\ NextInHand \in Seq(GoodDispatches')
             /\ \A op \in GoodDispatches' : Becomes(op) \in Seq(GoodDispatches')
             /\ Head(dispatches) \in GoodDispatches
  <2>1. /\ Head(dispatches) \in GoodDispatches /\ Head(dispatches) \in GoodDispatches'
        /\ Tail(dispatches) \in Seq(GoodDispatches')
        /\ \A op \in GoodDispatches' : Becomes(op) \in Seq(GoodDispatches')
    BY <1>2, <1>3, <1>5, Queue DEF Becomes, MailboxInv, WorkInv
  <2>2. [Head(dispatches) EXCEPT !.at = "next", !.hand = None] \in GoodDispatches'
    BY <2>1 DEF GoodDispatches, Dispatches, Labels
  <2>3. QED
    BY <2>1, <2>2 DEF GiveUp, NextInHand
<1>6. ASSUME transactions # <<>>
      PROVE  /\ Head(transactions) \in GoodTransactions /\ Tail(transactions) \in Seq(GoodTransactions')
             /\ [transactions EXCEPT ![1].flushing = TRUE] \in Seq(GoodTransactions')
  <2>1. /\ Head(transactions) \in GoodTransactions /\ Tail(transactions) \in Seq(GoodTransactions')
        /\ transactions[1] \in GoodTransactions' /\ 1 \in DOMAIN transactions
        /\ \A e \in GoodTransactions' : [transactions EXCEPT ![1] = e] \in Seq(GoodTransactions')
    BY <1>3, <1>6, Queue DEF MailboxInv, WorkInv
  <2>2. [transactions[1] EXCEPT !.flushing = TRUE] \in GoodTransactions'
    BY <2>1 DEF GoodTransactions
  <2>3. [transactions EXCEPT ![1].flushing = TRUE]
           = [transactions EXCEPT ![1] = [transactions[1] EXCEPT !.flushing = TRUE]]
    OBVIOUS
  <2>4. QED
    BY <2>1, <2>2, <2>3
<1>7. ASSUME NEW kind \in {"queued", "delivered"}, Appends(kind),
             kind = "delivered" => Head(transactions).kind \in {"mark", "ack"}, transactions # <<>>
      PROVE  WorkInv'
  <2>1. Event(kind, Subject) \in GoodRecords'
    BY <1>2, <1>6, <1>7 DEF GoodTransactions, GoodRecords, LeadEvents, Event, Subject
  <2>2. lead' \in Seq(GoodRecords') /\ Len(lead') = Len(lead) + 1
    BY <1>3, <1>7, <2>1, AppendProperties DEF Appends
  <2>3. QED
    BY <1>3, <1>6, <1>7, <2>2 DEF Appends, WorkInv
<1>8. ASSUME NEW messages \in SUBSET Message, dispatches # <<>>, Begin(messages)
      PROVE  dispatches' \in Seq(GoodDispatches')
  <2>1. PICK m \in messages :
          LET op == [Head(dispatches) EXCEPT !.hand = m, !.rest = messages \ {m}]
          IN  \/ ~live /\ dispatches' = Becomes([op EXCEPT !.at = "reading", !.session = 0])
              \/ /\ live /\ Accepted(target, m)
                 /\ dispatches' = Becomes([op EXCEPT !.at = "flushing", !.session = 0, !.upTo = Len(target)])
              \/ /\ live /\ ~Accepted(target, m)
                 /\ dispatches' = Becomes([op EXCEPT !.at = "steering", !.session = retired + 1])
    BY <1>8 DEF Begin
  <2> DEFINE op == [Head(dispatches) EXCEPT !.hand = m, !.rest = messages \ {m}]
  <2>2. op \in Dispatches /\ op.hand = m /\ m \in Message /\ retired + 1 \in Nat /\ Len(target) \in Nat
    <3>1. Head(dispatches) \in Dispatches /\ m \in Message /\ messages \ {m} \in SUBSET Message
      BY <1>5, <1>8 DEF GoodDispatches
    <3>2. retired + 1 \in Nat /\ Len(target) \in Nat
      BY MailboxAssumption DEF MailboxInv, CountInv, TargetInv
    <3>3. QED
      BY <3>1, <3>2 DEF Dispatches
  <2>3. CASE dispatches' = Becomes([op EXCEPT !.at = "reading", !.session = 0])
    <3>1. [op EXCEPT !.at = "reading", !.session = 0] \in GoodDispatches'
      <4> HIDE DEF op
      <4>1. QED
        BY <2>2 DEF GoodDispatches, Dispatches, Labels
    <3>2. QED
      BY <1>5, <1>8, <2>3, <3>1
  <2>4. CASE /\ Accepted(target, m)
             /\ dispatches' = Becomes([op EXCEPT !.at = "flushing", !.session = 0, !.upTo = Len(target)])
    <3>1. Covers(Len(target), m)
      BY <2>2, <2>4, AcceptedCovered DEF MailboxInv
    <3>2. [op EXCEPT !.at = "flushing", !.session = 0, !.upTo = Len(target)] \in GoodDispatches
      <4> HIDE DEF op
      <4>1. QED
        BY <2>2, <3>1 DEF GoodDispatches, Dispatches, Labels
    <3>3. QED
      BY <1>2, <1>5, <1>8, <2>4, <3>2
  <2>5. CASE dispatches' = Becomes([op EXCEPT !.at = "steering", !.session = retired + 1])
    <3>1. [op EXCEPT !.at = "steering", !.session = retired + 1] \in GoodDispatches'
      <4> HIDE DEF op
      <4>1. QED
        BY <2>2 DEF GoodDispatches, Dispatches, Labels
    <3>2. QED
      BY <1>5, <1>8, <2>5, <3>1
  <2>6. QED
    BY <2>1, <2>3, <2>4, <2>5
<1>9. ASSUME NEW m \in Message, m = InHand, dispatches # <<>>, Marking, Inserted(targetStored, m)'
      PROVE  transactions' \in Seq(GoodTransactions') /\ dispatches' \in Seq(GoodDispatches')
  <2>1. Transaction("mark", m) \in GoodTransactions'
    BY <1>9 DEF Transaction, GoodTransactions
  <2>2. [Head(dispatches) EXCEPT !.at = "marking", !.upTo = 0] \in GoodDispatches'
    BY <1>5, <1>9 DEF GoodDispatches, Dispatches, Labels, InHand
  <2>3. transactions' \in Seq(GoodTransactions')
    BY <1>3, <1>9, <2>1, AppendProperties DEF Marking
  <2>4. dispatches' \in Seq(GoodDispatches')
    BY <1>5, <1>9, <2>2 DEF Marking
  <2>5. QED
    BY <2>3, <2>4
<1> USE DEF WorkInv
<1>10. ASSUME Send PROVE WorkInv'
  <2>1. Transaction("send", sent') \in GoodTransactions'
    <3>1. sent' \in Message
      BY <1>10, MailboxAssumption DEF Send, Message, MailboxInv, CountInv
    <3>2. QED
      BY <3>1 DEF Transaction, GoodTransactions
  <2>2. transactions' \in Seq(GoodTransactions')
    BY <1>3, <1>10, <2>1, AppendProperties DEF Send
  <2>3. QED
    BY <1>3, <1>10, <2>2 DEF Send, leadVars
<1>11. ASSUME SendAppends PROVE WorkInv'
  BY <1>7, <1>11 DEF SendAppends, Running
<1>12. ASSUME SendRejected PROVE WorkInv'
  BY <1>3, <1>6, <1>12 DEF SendRejected, Running, leadVars
<1>13. ASSUME MarkAppends PROVE WorkInv'
  BY <1>7, <1>13 DEF MarkAppends, Running
<1>14. ASSUME SendFlushed PROVE WorkInv'
  <2>1. Subject \in Message
    BY <1>6, <1>14 DEF SendFlushed, Running, Subject, GoodTransactions
  <2>2. QED
    BY <1>3, <1>4, <1>6, <1>14, <2>1 DEF SendFlushed, Running, SendLeaves
<1>15. ASSUME transactions # <<>>, Head(transactions).kind = "mark" PROVE dispatches # <<>>
  <2>1. Head(transactions) = transactions[1] /\ 1 \in DOMAIN transactions
    BY <1>3, <1>15, Queue
  <2>2. QED
    BY <1>15, <2>1 DEF MailboxInv, MarkInv, At
<1>16. ASSUME Marked PROVE WorkInv'
  BY <1>3, <1>5, <1>6, <1>15, <1>16 DEF Marked, Running
<1>17. ASSUME TransactionFails PROVE WorkInv'
  <2>1. transactions # <<>> /\ UNCHANGED <<lead, leadStored, acks>> /\ transactions' = Tail(transactions)
    BY <1>17 DEF TransactionFails, Running, leadVars
  <2>2. dispatches' \in Seq(GoodDispatches')
    BY <1>3, <1>5, <1>15, <1>17, <2>1 DEF TransactionFails
  <2>3. QED
    BY <1>3, <1>6, <2>1, <2>2
<1>18. ASSUME DispatchStarts PROVE WorkInv'
  <2>1. dispatches # <<>> /\ UNCHANGED <<lead, leadStored, transactions, acks>>
    BY <1>18 DEF DispatchStarts, At, leadVars
  <2>2. dispatches' \in Seq(GoodDispatches')
    <3>1. Through(Head(dispatches).msg) \in SUBSET Message
      BY DEF Through, Undelivered
    <3>2. QED
      BY <1>5, <1>8, <1>18, <2>1, <3>1 DEF DispatchStarts
  <2>3. QED
    BY <1>3, <2>1, <2>2
<1>19. ASSUME DispatchNext PROVE WorkInv'
  <2>1. dispatches # <<>> /\ UNCHANGED <<lead, leadStored, transactions, acks>>
    BY <1>19 DEF DispatchNext, At, leadVars
  <2>2. Head(dispatches).rest \in SUBSET Message
    BY <1>5, <2>1 DEF GoodDispatches, Dispatches
  <2>3. QED
    BY <1>3, <1>8, <1>19, <2>1, <2>2 DEF DispatchNext
<1>20. ASSUME ReadStored PROVE WorkInv'
  <2>1. dispatches # <<>> /\ UNCHANGED <<lead, leadStored, acks, target, targetStored>>
    BY <1>20 DEF ReadStored, At, leadVars, targetVars
  <2>2. InHand \in Message
    BY <1>5, <1>20, <2>1 DEF ReadStored, At, InHand, GoodDispatches
  <2>3. CASE Accepted(Prefix(target, targetStored), InHand)
    <3>1. Inserted(targetStored, InHand)
      BY <2>2, <2>3, AcceptedInserted DEF MailboxInv, TargetInv
    <3>2. \A m : Inserted(targetStored, m) => Inserted(targetStored, m)'
      BY <2>1 DEF Inserted
    <3>3. Marking
      BY <1>20, <2>3 DEF ReadStored
    <3>4. transactions' \in Seq(GoodTransactions') /\ dispatches' \in Seq(GoodDispatches')
      BY <1>9, <2>1, <2>2, <3>1, <3>2, <3>3
    <3>5. QED
      BY <1>3, <2>1, <3>4
  <2>4. CASE ~Accepted(Prefix(target, targetStored), InHand)
    <3>1. [Head(dispatches) EXCEPT !.at = "steering"] \in GoodDispatches'
      BY <1>5, <2>1, <2>2 DEF GoodDispatches, Dispatches, Labels, InHand
    <3>2. QED
      BY <1>3, <1>5, <1>20, <2>1, <2>4, <3>1 DEF ReadStored
  <2>5. QED
    BY <2>3, <2>4
<1>21. ASSUME Steer PROVE WorkInv'
  <2>1. dispatches # <<>> /\ UNCHANGED <<lead, leadStored, transactions, acks, targetStored>>
    BY <1>21 DEF Steer, At, leadVars
  <2>2. InHand \in Message
    BY <1>5, <1>21, <2>1 DEF Steer, At, InHand, GoodDispatches
  <2>3. ASSUME NEW m, m = InHand PROVE Covers(Len(target), m)'
    <3>1. target' = Append(target, Event("inserted", InHand)) /\ target \in Seq(TargetEvents)
      BY <1>21 DEF Steer, MailboxInv, TargetInv
    <3>2. Len(target') \in DOMAIN target' /\ target'[Len(target')] = Event("inserted", InHand)
      BY <3>1
    <3>3. \E i \in DOMAIN target' : i <= Len(target') /\ target'[i] = Event("inserted", InHand)
      BY <3>1, <3>2
    <3>4. QED
      BY <1>1, <2>3, <3>3 DEF Covers, Inserted, GrowsOnly
  <2>4. [Head(dispatches) EXCEPT !.at = "flushing", !.session = 0, !.upTo = Len(target')] \in GoodDispatches'
    <3>1. Head(dispatches) \in Dispatches /\ Len(target') \in Nat
      BY <1>1, <1>5, <2>1 DEF GrowsOnly, GoodDispatches
    <3>2. QED
      BY <2>2, <2>3, <3>1 DEF GoodDispatches, Dispatches, Labels, InHand
  <2>5. dispatches' \in Seq(GoodDispatches')
    BY <1>5, <1>21, <2>1, <2>4 DEF Steer
  <2>6. QED
    BY <1>3, <2>1, <2>5
<1>22. ASSUME Checkpoint PROVE WorkInv'
  <2>1. dispatches # <<>> /\ UNCHANGED <<lead, leadStored, acks, target>> /\ targetStored' = Flushed(Head(dispatches).upTo)
    BY <1>22 DEF Checkpoint, At, leadVars
  <2>2. InHand \in Message /\ Covers(Head(dispatches).upTo, InHand) /\ Head(dispatches).upTo \in Nat
    BY <1>5, <1>22, <2>1 DEF Checkpoint, At, InHand, GoodDispatches, Dispatches
  <2>3. \A m : Covers(Head(dispatches).upTo, m) => Inserted(targetStored, m)'
    BY <2>1, <2>2 DEF Covers, Inserted, Flushed, MailboxInv, TargetInv
  <2>4. CASE Accepted(target, InHand)
    BY <1>3, <1>9, <1>22, <2>1, <2>2, <2>3, <2>4 DEF Checkpoint
  <2>5. CASE ~Accepted(target, InHand)
    BY <1>3, <1>5, <1>22, <2>1, <2>5 DEF Checkpoint
  <2>6. QED
    BY <2>4, <2>5
<1>23. ASSUME DispatchFails PROVE WorkInv'
  BY <1>3, <1>5, <1>23 DEF DispatchFails, At, leadVars
<1>24. ASSUME Admit PROVE WorkInv'
  <2>1. UNCHANGED <<lead, leadStored, transactions, dispatches>>
    BY <1>24 DEF Admit, leadVars
  <2>2. acks' = acks \union {[msg |-> target[i].msg, upTo |-> Len(target')] : i \in claimed}
    BY <1>24 DEF Admit
  <2>3. ASSUME NEW i \in claimed PROVE [msg |-> target[i].msg, upTo |-> Len(target')] \in GoodAcks'
    <3>1. /\ i \in DOMAIN target /\ DOMAIN target = 1 .. Len(target) /\ Len(target) \in Nat
          /\ target[i] \in TargetEvents /\ target[i].kind = "inserted" /\ target[i].msg \in Message
      BY ElementOfSeq DEF MailboxInv, TargetInv
    <3>2. target[i] = Event("inserted", target[i].msg)
      BY <3>1 DEF TargetEvents, Event
    <3>3. Len(target') \in Nat /\ Len(target) <= Len(target')
      BY <1>1 DEF GrowsOnly
    <3>4. \E j \in DOMAIN target : j <= Len(target') /\ target[j] = Event("inserted", target[i].msg)
      BY <3>1, <3>2, <3>3
    <3>5. \A m : (\E j \in DOMAIN target : j <= Len(target') /\ target[j] = Event("inserted", m))
                     => Covers(Len(target), m)'
      BY <3>1, <3>3, <1>1 DEF Covers, Inserted, GrowsOnly
    <3>6. QED
      BY <3>1, <3>3, <3>4, <3>5 DEF GoodAcks
  <2>4. QED
    BY <1>3, <2>1, <2>2, <2>3
<1>25. ASSUME NEW a \in acks, AckFlushed(a) PROVE WorkInv'
  <2>1. UNCHANGED <<lead, leadStored, dispatches, target>> /\ acks' = acks \ {a} /\ targetStored' = Flushed(a.upTo)
    BY <1>25 DEF AckFlushed, leadVars
  <2>2. a.msg \in Message /\ a.upTo \in Nat /\ Covers(a.upTo, a.msg)
    BY DEF MailboxInv, GoodAcks
  <2>3. Inserted(targetStored, a.msg)'
    <3>1. \A m : Covers(a.upTo, m) => Inserted(targetStored, m)'
      BY <2>1, <2>2 DEF Covers, Inserted, Flushed, MailboxInv, TargetInv
    <3>2. QED
      BY <2>2, <3>1
  <2>4. Transaction("ack", a.msg) \in GoodTransactions'
    BY <2>2, <2>3 DEF Transaction, GoodTransactions
  <2>5. transactions' \in Seq(GoodTransactions')
    BY <1>3, <1>25, <2>4, AppendProperties DEF AckFlushed
  <2>6. QED
    BY <1>3, <2>1, <2>5
<1>26. ASSUME NEW r \in recoveries, RecoveryBegins(r) \/ RecoveryGoesOn(r) PROVE WorkInv'
  <2>1. UNCHANGED <<lead, leadStored, transactions, acks>>
    BY <1>26 DEF RecoveryBegins, RecoveryGoesOn, leadVars
  <2>2. PICK messages : GoesThrough(r, messages) /\ messages \subseteq Message
    BY <1>26 DEF RecoveryBegins, RecoveryGoesOn, Undelivered, MailboxInv, CountInv
  <2>3. dispatches' \in Seq(GoodDispatches')
    BY <1>3, <1>4, <2>2 DEF GoesThrough
  <2>4. QED
    BY <1>3, <2>1, <2>3
<1>27. ASSUME UNCHANGED <<lead, leadStored, transactions, dispatches>>, acks' \subseteq acks PROVE WorkInv'
  BY <1>3, <1>27
<1>28. QED
  BY <1>10, <1>11, <1>12, <1>13, <1>14, <1>16, <1>17, <1>18, <1>19, <1>20, <1>21, <1>22, <1>23, <1>24, <1>25, <1>26, <1>27
  DEF Next, Journal, Dispatch, Acknowledgement, Driver, RecoveryStep, Claim, ClaimDropped, AckFails, Retire,
      TargetStarts, vars, leadVars

-----------------------------------------------------------------------------
(* Only the running dispatch waits for a delivered record.                 *)

\* Every step but a crash keeps dispatches and their records in step.
LEMMA MarkStep ==
  ASSUME MailboxInv, [Next]_vars, ~Crash
  PROVE  MarkInv'
<1> DEFINE Marks == {i \in DOMAIN transactions : transactions[i].kind = "mark"}
<1>1. /\ transactions \in Seq(GoodTransactions) /\ DOMAIN transactions = 1 .. Len(transactions) /\ Len(transactions) \in Nat
      /\ dispatches \in Seq(GoodDispatches) /\ DOMAIN dispatches = 1 .. Len(dispatches) /\ Len(dispatches) \in Nat
  BY DEF MailboxInv, WorkInv
<1>2. ASSUME NEW kind \in {"send", "ack"}, NEW m, transactions' = Append(transactions, Transaction(kind, m)),
             UNCHANGED dispatches
      PROVE  MarkInv'
  <2>1. /\ DOMAIN transactions' = 1 .. Len(transactions) + 1
        /\ \A i \in 1 .. Len(transactions) : transactions'[i] = transactions[i]
        /\ transactions'[Len(transactions) + 1] = Transaction(kind, m)
    BY <1>1, <1>2
  <2>2. Transaction(kind, m).kind # "mark"
    BY DEF Transaction
  <2>3. QED
    BY <1>1, <1>2, <2>1, <2>2 DEF MailboxInv, MarkInv, At
<1>3. ASSUME transactions # <<>>, transactions' = Tail(transactions),
             Head(transactions).kind # "mark" => (At("marking") => At("marking")')
      PROVE  MarkInv'
  <2>1. /\ DOMAIN transactions' = 1 .. Len(transactions) - 1 /\ Len(transactions) > 0
        /\ \A i \in 1 .. Len(transactions) - 1 : transactions'[i] = transactions[i + 1]
        /\ Head(transactions) = transactions[1]
    BY <1>1, <1>3
  <2>2. CASE Head(transactions).kind = "mark"
    <3>1. \A i \in 1 .. Len(transactions) - 1 : transactions[i + 1].kind # "mark"
      BY <1>1, <2>1, <2>2 DEF MailboxInv, MarkInv
    <3>2. QED
      BY <2>1, <3>1 DEF MarkInv
  <2>3. CASE Head(transactions).kind # "mark"
    <3>1. \A i \in DOMAIN transactions' : transactions'[i].kind = "mark" =>
             At("marking") /\ \A j \in DOMAIN transactions' : transactions'[j].kind = "mark" => i = j
      <4> SUFFICES ASSUME NEW i \in 1 .. Len(transactions) - 1, transactions[i + 1].kind = "mark"
                   PROVE  /\ At("marking")
                          /\ \A j \in 1 .. Len(transactions) - 1 : transactions[j + 1].kind = "mark" => i = j
        BY <2>1
      <4>1. i + 1 \in DOMAIN transactions /\ \A j \in 1 .. Len(transactions) - 1 : j + 1 \in DOMAIN transactions
        BY <1>1
      <4>2. At("marking") /\ \A j \in 1 .. Len(transactions) - 1 : transactions[j + 1].kind = "mark" => i + 1 = j + 1
        BY <4>1 DEF MailboxInv, MarkInv
      <4>3. QED
        BY <1>1, <4>2
    <3>2. QED
      BY <1>3, <2>3, <3>1 DEF MarkInv
  <2>4. QED
    BY <2>2, <2>3
<1>4. ASSUME UNCHANGED transactions, At("marking") => At("marking")'
      PROVE  MarkInv'
  BY <1>4 DEF MailboxInv, MarkInv
<1>5. ASSUME transactions # <<>>, transactions' = [transactions EXCEPT ![1].flushing = TRUE], UNCHANGED dispatches
      PROVE  MarkInv'
  <2>1. DOMAIN transactions' = DOMAIN transactions
    BY <1>5
  <2>2. \A i \in DOMAIN transactions : transactions'[i].kind = transactions[i].kind
    <3>1. \A i \in DOMAIN transactions : transactions[i] \in GoodTransactions
      BY <1>1, ElementOfSeq
    <3>2. QED
      BY <1>1, <1>5, <3>1 DEF GoodTransactions
  <2>3. QED
    BY <1>5, <2>1, <2>2 DEF MailboxInv, MarkInv, At
<1>6. ASSUME ~At("marking"), UNCHANGED transactions
      PROVE  MarkInv'
  BY <1>4, <1>6
<1>7. ASSUME ~At("marking"), dispatches # <<>>, Marking
      PROVE  MarkInv'
  <2>1. /\ DOMAIN transactions' = 1 .. Len(transactions) + 1
        /\ \A i \in 1 .. Len(transactions) : transactions'[i] = transactions[i]
    BY <1>1, <1>7 DEF Marking
  <2>2. \A i \in 1 .. Len(transactions) : transactions[i].kind # "mark"
    BY <1>1, <1>7 DEF MailboxInv, MarkInv
  <2>3. At("marking")'
    <3>1. Head(dispatches) \in Dispatches
      BY <1>1, <1>7, Queue DEF GoodDispatches
    <3>2. dispatches' = [dispatches EXCEPT ![1] = [Head(dispatches) EXCEPT !.at = "marking", !.upTo = 0]]
      BY <1>7 DEF Marking, Becomes
    <3>3. Len(dispatches') = Len(dispatches) /\ dispatches' # <<>> /\ Head(dispatches') = dispatches'[1] /\ 1 \in DOMAIN dispatches
      BY <1>1, <1>7, <3>2
    <3>4. Head(dispatches').at = "marking"
      BY <3>1, <3>2, <3>3 DEF Dispatches
    <3>5. QED
      BY <3>3, <3>4 DEF At
  <2>4. QED
    BY <1>1, <2>1, <2>2, <2>3 DEF MarkInv
<1>8. ASSUME NEW m, dispatches' = TryDispatch(m), At("marking")
      PROVE  At("marking")'
  BY <1>1, <1>8 DEF TryDispatch, At
<1>9. CASE Send
  BY <1>2, <1>9 DEF Send
<1>10. CASE SendAppends
  BY <1>5, <1>10 DEF SendAppends, Running, Appends
<1>11. CASE SendRejected
  BY <1>3, <1>11 DEF SendRejected, Running, At
<1>12. CASE MarkAppends
  BY <1>5, <1>12 DEF MarkAppends, Running, Appends
<1>13. CASE SendFlushed
  BY <1>3, <1>8, <1>13 DEF SendFlushed, Running, SendLeaves
<1>14. CASE Marked
  BY <1>3, <1>14 DEF Marked, Running, At
<1>15. CASE TransactionFails
  BY <1>3, <1>15 DEF TransactionFails, Running, At
<1>16. CASE DispatchStarts \/ DispatchNext \/ Steer \/ DispatchFails
  BY <1>6, <1>16 DEF DispatchStarts, DispatchNext, Steer, DispatchFails, At
<1>17. CASE ReadStored
  BY <1>6, <1>7, <1>17 DEF ReadStored, At
<1>18. CASE Checkpoint
  BY <1>6, <1>7, <1>18 DEF Checkpoint, At
<1>19. ASSUME NEW a \in acks, AckFlushed(a) PROVE MarkInv'
  BY <1>2, <1>19 DEF AckFlushed
<1>20. ASSUME NEW r \in recoveries, RecoveryBegins(r) \/ RecoveryGoesOn(r) PROVE MarkInv'
  <2>1. UNCHANGED transactions /\ \E messages : GoesThrough(r, messages)
    BY <1>20 DEF RecoveryBegins, RecoveryGoesOn
  <2>2. UNCHANGED dispatches \/ \E m : dispatches' = TryDispatch(m)
    BY <2>1 DEF GoesThrough
  <2>3. At("marking") => At("marking")'
    BY <1>8, <2>2 DEF At
  <2>4. QED
    BY <1>4, <2>1, <2>3
<1>21. CASE UNCHANGED <<transactions, dispatches>>
  BY <1>4, <1>21 DEF At
<1>22. QED
  BY <1>9, <1>10, <1>11, <1>12, <1>13, <1>14, <1>15, <1>16, <1>17, <1>18, <1>19, <1>20, <1>21
  DEF Next, Journal, Dispatch, Acknowledgement, Driver, RecoveryStep, Claim, Admit, ClaimDropped, AckFails,
      Retire, TargetStarts, vars

\* Every step keeps the counters and the recoveries in their types.
LEMMA CountStep == MailboxInv /\ [Next]_vars => CountInv'
<1> SUFFICES ASSUME MailboxInv, [Next]_vars PROVE CountInv'
  OBVIOUS
<1>1. /\ live \in BOOLEAN /\ sent \in 0 .. MaxMessage /\ MaxMessage \in Nat /\ MaxFault \in Nat
      /\ faults \in 0 .. MaxFault /\ retired \in 0 .. faults
  BY MailboxAssumption DEF MailboxInv, CountInv
<1>2. /\ live' \in BOOLEAN /\ sent' \in 0 .. MaxMessage
      /\ faults' \in 0 .. MaxFault /\ retired' \in 0 .. faults'
  <2>1. UNCHANGED live \/ live' = TRUE \/ live' = FALSE
    BY DEF Next, Journal, Dispatch, Acknowledgement, Driver, RecoveryStep, Send, SendAppends, SendRejected,
        MarkAppends, SendFlushed, Marked, TransactionFails, Appends, DispatchStarts, DispatchNext, ReadStored,
        Steer, Checkpoint, DispatchFails, Claim, Admit, ClaimDropped, AckFlushed, AckFails, Retire, TargetStarts,
        RecoveryBegins, RecoveryGoesOn, Crash, vars, targetVars
  <2>2. UNCHANGED sent \/ Send
    BY DEF Next, Journal, Dispatch, Acknowledgement, Driver, RecoveryStep, SendAppends, SendRejected,
        MarkAppends, SendFlushed, Marked, TransactionFails, Appends, DispatchStarts, DispatchNext, ReadStored,
        Steer, Checkpoint, DispatchFails, Claim, Admit, ClaimDropped, AckFlushed, AckFails, Retire, TargetStarts,
        RecoveryBegins, RecoveryGoesOn, Crash, vars
  <2>3. \/ UNCHANGED <<faults, retired>>
        \/ Failing
        \/ Fault /\ retired' = retired + 1
    BY DEF Next, Journal, Dispatch, Acknowledgement, Driver, RecoveryStep, Send, SendAppends, SendRejected,
        MarkAppends, SendFlushed, Marked, TransactionFails, Appends, DispatchStarts, DispatchNext, ReadStored,
        Steer, Checkpoint, DispatchFails, Claim, Admit, ClaimDropped, AckFlushed, AckFails, Retire, TargetStarts,
        RecoveryBegins, RecoveryGoesOn, Crash, vars, faultVars, Failing
  <2>4. QED
    <3>1. faults' \in 0 .. MaxFault /\ retired' \in 0 .. faults'
      BY <1>1, <2>3 DEF Failing, Fault
    <3>2. sent' \in 0 .. MaxMessage
      BY <1>1, <2>2 DEF Send
    <3>3. live' \in BOOLEAN
      BY <1>1, <2>1
    <3>4. QED
      BY <3>1, <3>2, <3>3
<1> DEFINE Passes == [start : Nat, begun : BOOLEAN, hand : Message \union {None}, rest : SUBSET Message]
<1>3. recoveries \subseteq Passes
  BY DEF MailboxInv, CountInv
<1>4. Recovery(0) \in Passes /\ Recovery(retired + 1) \in Passes
  BY <1>1 DEF Recovery
<1>5. ASSUME NEW r \in recoveries, NEW messages \in SUBSET Message, GoesThrough(r, messages)
      PROVE  recoveries' \subseteq Passes
  <2>1. \A m \in Message : [r EXCEPT !.begun = TRUE, !.hand = m, !.rest = {n \in messages : n > m}] \in Passes
    BY <1>3
  <2>2. CASE recoveries' = recoveries \ {r}
    BY <1>3, <2>2
  <2>3. ASSUME NEW m \in Message,
               recoveries' = (recoveries \ {r}) \union
                   {[r EXCEPT !.begun = TRUE, !.hand = m, !.rest = {n \in messages : n > m}]}
        PROVE  recoveries' \subseteq Passes
    BY <1>3, <2>1, <2>3
  <2>4. QED
    BY <1>5, <2>2, <2>3 DEF GoesThrough
<1>6. ASSUME NEW r \in recoveries, RecoveryBegins(r) \/ RecoveryGoesOn(r) PROVE recoveries' \subseteq Passes
  <2>1. Undelivered \in SUBSET Message /\ r.rest \in SUBSET Message
    BY <1>3 DEF Undelivered
  <2>2. QED
    BY <1>5, <1>6, <2>1 DEF RecoveryBegins, RecoveryGoesOn
<1>7. recoveries' \subseteq Passes
  BY <1>3, <1>4, <1>6
  DEF Next, Journal, Dispatch, Acknowledgement, Driver, RecoveryStep, Send, SendAppends, SendRejected,
      MarkAppends, SendFlushed, Marked, TransactionFails, Appends, DispatchStarts, DispatchNext, ReadStored,
      Steer, Checkpoint, DispatchFails, Claim, Admit, ClaimDropped, AckFlushed, AckFails, Retire, TargetStarts,
      Crash, vars
<1>8. QED
  BY <1>2, <1>7 DEF CountInv

-----------------------------------------------------------------------------
(* The crash, and the theorems.                                            *)

\* What is left of either log after a crash satisfies the invariant.
LEMMA CrashStep == MailboxInv /\ Crash => TargetInv' /\ WorkInv' /\ MarkInv'
<1> SUFFICES ASSUME MailboxInv, Crash PROVE TargetInv' /\ WorkInv' /\ MarkInv'
  OBVIOUS
<1>1. PICK n \in leadStored .. Len(lead), k \in targetStored .. Len(target) :
         /\ lead' = Prefix(lead, n) /\ leadStored' = n
         /\ target' = Prefix(target, k) /\ targetStored' = k
  BY DEF Crash
<1>2. /\ lead \in Seq(GoodRecords) /\ n \in 0 .. Len(lead) /\ target \in Seq(TargetEvents) /\ k \in 0 .. Len(target)
      /\ targetStored \in Nat /\ targetStored <= k
  BY <1>1 DEF MailboxInv, WorkInv, TargetInv
<1>3. /\ target' \in Seq(TargetEvents) /\ Len(target') = k /\ DOMAIN target' = 1 .. k /\ DOMAIN target = 1 .. Len(target)
      /\ \A i \in 1 .. k : target'[i] = target[i]
  BY <1>1, <1>2 DEF Prefix
<1>4. \A i \in 1 .. k : \A m : Inserted(i, m) => Inserted(i, m)'
  BY <1>2, <1>3 DEF Inserted
<1>5. \A m : Inserted(targetStored, m) => Inserted(targetStored, m)'
  BY <1>1, <1>2, <1>3 DEF Inserted
<1>6. TargetInv'
  <2>1. \A i \in 1 .. k : /\ target[i].kind # "spliced" => target[i].msg \in Message
                          /\ target[i].kind = "user" => Inserted(i, target[i].msg)
    BY <1>2, <1>3 DEF MailboxInv, TargetInv
  <2>2. claimed' = {} /\ targetStored' \in 0 .. Len(target')
    BY <1>1, <1>2, <1>3 DEF Crash
  <2>3. QED
    <3>1. ASSUME NEW i \in DOMAIN target'
          PROVE  /\ (target[i].kind # "spliced" => target[i].msg \in Message)'
                 /\ (target[i].kind = "user" => Inserted(i, target[i].msg))'
      <4>1. i \in 1 .. k /\ target'[i] = target[i]
        BY <1>3
      <4>2. \A m : Inserted(i, m) => Inserted(i, m)'
        BY <1>4, <4>1
      <4>3. QED
        BY <2>1, <4>1, <4>2
    <3>2. claimed' \subseteq DOMAIN target' /\ \A i \in claimed' : target'[i].kind = "inserted"
      BY <2>2
    <3>3. QED
      BY <1>3, <2>2, <3>1, <3>2 DEF TargetInv
<1>7. WorkInv'
  <2>1. GoodRecords \subseteq GoodRecords'
    BY <1>5 DEF GoodRecords, LeadEvents
  <2>2. \A i \in 1 .. n : lead[i] \in GoodRecords
    BY <1>2
  <2>3. lead' \in Seq(GoodRecords) /\ Len(lead') = n
    BY <1>1, <1>2, <2>2, SubSeqProperties DEF Prefix
  <2>4. lead' \in Seq(GoodRecords')
    BY <2>1, <2>3, SeqMonotonic
  <2>5. transactions' = <<>> /\ dispatches' = <<>> /\ acks' = {} /\ leadStored' \in 0 .. Len(lead')
    BY <1>1, <1>2, <2>3 DEF Crash
  <2>6. QED
    BY <2>4, <2>5, EmptySeq DEF WorkInv
<1>8. MarkInv'
  BY DEF Crash, MarkInv
<1>9. QED
  BY <1>6, <1>7, <1>8

\* The initial state satisfies the invariant.
LEMMA MailboxInit == Init => MailboxInv
  BY MailboxAssumption, EmptySeq DEF Init, MailboxInv, TargetInv, WorkInv, MarkInv, CountInv

\* Delivery is recorded only for what is stored, over every interleaving of
\* senders, dispatches, acknowledgements, recoveries, failures and crashes.
THEOREM MailboxInvariant == Spec => []MailboxInv
<1>1. MailboxInv /\ [Next]_vars => MailboxInv'
  BY TargetStep, WorkStep, MarkStep, CountStep, CrashStep DEF MailboxInv
<1>2. QED
  BY MailboxInit, <1>1, PTL DEF Spec

\* Every state of the mailbox has its type.
THEOREM Typing == Spec => []TypeOK
<1>1. MailboxInv => TypeOK
  <2> SUFFICES ASSUME MailboxInv PROVE TypeOK
    OBVIOUS
  <2>1. lead \in Seq(LeadEvents)
    BY SeqMonotonic DEF MailboxInv, WorkInv, GoodRecords
  <2>2. transactions \in Seq([kind : {"send", "mark", "ack"}, msg : Message, flushing : BOOLEAN])
    <3>1. GoodTransactions \subseteq [kind : {"send", "mark", "ack"}, msg : Message, flushing : BOOLEAN]
      BY DEF GoodTransactions
    <3>2. QED
      BY <3>1, SeqMonotonic DEF MailboxInv, WorkInv
  <2>3. dispatches \in Seq(Dispatches)
    BY SeqMonotonic DEF MailboxInv, WorkInv, GoodDispatches
  <2>4. QED
    BY <2>1, <2>2, <2>3 DEF MailboxInv, TargetInv, WorkInv, CountInv, TypeOK, LeadEvents, TargetEvents,
        Dispatches, GoodAcks
<1>2. QED
  BY MailboxInvariant, <1>1, PTL

\* A message the lead has marked delivered survives every crash of the teammate.
THEOREM AcknowledgedAlwaysStored == Spec => []AcknowledgedIsStored
<1>1. MailboxInv => AcknowledgedIsStored
  <2> SUFFICES ASSUME MailboxInv, NEW m \in Message, Has(lead, "delivered", m)
               PROVE  Has(Prefix(target, targetStored), "inserted", m)
    BY DEF AcknowledgedIsStored
  <2>1. PICK i \in DOMAIN lead : lead[i] = Event("delivered", m)
    BY DEF Has
  <2>2. lead[i] \in GoodRecords
    BY ElementOfSeq DEF MailboxInv, WorkInv
  <2>3. PICK j \in DOMAIN target : j <= targetStored /\ target[j] = Event("inserted", m)
    BY <2>1, <2>2 DEF GoodRecords, Event, Inserted
  <2>4. j \in DOMAIN Prefix(target, targetStored) /\ Prefix(target, targetStored)[j] = target[j]
    BY <2>3 DEF MailboxInv, TargetInv, Prefix
  <2>5. QED
    BY <2>3, <2>4 DEF Has
<1>2. QED
  BY MailboxInvariant, <1>1, PTL

-----------------------------------------------------------------------------
(* Nothing waits twice, and nothing overtakes: what holds of the messages  *)
(* in the teammate's log, of the batch in the running dispatch's hands and *)
(* of the sends that have not yet reached the lead's log.                  *)

Entered(m) == \E i \in DOMAIN target : target[i] = Event("inserted", m)
QueuedInLead(m) == Has(lead, "queued", m)

\* Two copies of a message are separated by a claim, in every prefix of the log.
Separated ==
    \A i, j \in DOMAIN target :
        i < j /\ target[i].kind = "inserted" /\ target[i] = target[j] =>
            \E k \in i .. j : target[k].kind = "spliced"

\* What the running dispatch has found out about its message still holds.
CopyInv ==
    /\ Separated
    /\ ~live => targetStored = Len(target)
    /\ claimed # {} => live
    /\ At("reading") => \A i \in DOMAIN target : target[i].kind = "inserted" => i <= targetStored
    /\ At("steering") => \A i \in Inbox(target) : target[i].msg # InHand

\* Only the first dispatch runs.
WaitingInv == \A i \in DOMAIN dispatches : i > 1 => dispatches[i].at = "start"

\* The messages that have got further than their send's transaction.
Known == {m \in Message : \/ QueuedInLead(m) \/ Entered(m)
                          \/ \E i \in DOMAIN dispatches : dispatches[i].msg = m
                          \/ \E r \in recoveries : m \in r.rest}

\* Sends queue in the order of their messages, behind everything that is known.
SendInv ==
    /\ \A m \in Known : m <= sent
    /\ \A i \in DOMAIN transactions : transactions[i].kind = "send" =>
          /\ transactions[i].msg <= sent
          /\ transactions[i].flushing \/ \A m \in Known : m < transactions[i].msg
          /\ \A j \in DOMAIN transactions : transactions[j].kind = "send" /\ i < j =>
                transactions[i].msg < transactions[j].msg

\* A batch d, from its earliest message on, holds every queued message up to
\* the dispatch's own that has not reached the teammate.
GoodBatch(d) ==
    /\ \A n \in d.rest : d.hand < n
    /\ d.rest \union {d.hand} \subseteq 0 .. d.msg
    /\ \A n \in 1 .. d.msg : QueuedInLead(n) => Entered(n) \/ n \in d.rest \union {d.hand}
    /\ d.at = "marking" => Entered(d.hand)
    /\ d.at = "next" => d.hand = None
BatchInv == dispatches # <<>> /\ ~At("start") => GoodBatch(Head(dispatches))

OrderInv == CopyInv /\ WaitingInv /\ SendInv /\ BatchInv /\ QueueOrderKept

Transactions == [kind : {"send", "mark", "ack"}, msg : Message, flushing : BOOLEAN]

\* The types of what the following steps read.
LEMMA Shapes ==
  ASSUME MailboxInv
  PROVE  /\ target \in Seq(TargetEvents) /\ DOMAIN target = 1 .. Len(target) /\ Len(target) \in Nat
         /\ lead \in Seq(LeadEvents) /\ DOMAIN lead = 1 .. Len(lead) /\ Len(lead) \in Nat
         /\ dispatches \in Seq(Dispatches) /\ DOMAIN dispatches = 1 .. Len(dispatches) /\ Len(dispatches) \in Nat
         /\ transactions \in Seq(Transactions) /\ DOMAIN transactions = 1 .. Len(transactions)
         /\ Len(transactions) \in Nat
         /\ targetStored \in 0 .. Len(target) /\ live \in BOOLEAN /\ sent \in Nat /\ retired \in Nat
         /\ \A r \in recoveries : r.rest \subseteq Message
         /\ Message \subseteq Nat /\ MaxMessage \in Nat
<1>1. lead \in Seq(LeadEvents)
  BY SeqMonotonic DEF MailboxInv, WorkInv, GoodRecords
<1>2. dispatches \in Seq(Dispatches)
  BY SeqMonotonic DEF MailboxInv, WorkInv, GoodDispatches
<1>3. transactions \in Seq(Transactions)
  <2>1. GoodTransactions \subseteq Transactions
    BY DEF GoodTransactions, Transactions
  <2>2. QED
    BY <2>1, SeqMonotonic DEF MailboxInv, WorkInv
<1>4. /\ target \in Seq(TargetEvents) /\ targetStored \in 0 .. Len(target)
      /\ live \in BOOLEAN /\ sent \in 0 .. MaxMessage /\ faults \in 0 .. MaxFault /\ retired \in 0 .. faults
      /\ \A r \in recoveries : r.rest \subseteq Message
  BY DEF MailboxInv, TargetInv, CountInv
<1>5. MaxMessage \in Nat /\ MaxFault \in Nat
  BY MailboxAssumption
<1>6. sent \in Nat /\ retired \in Nat /\ Message \subseteq Nat
  BY <1>4, <1>5 DEF Message
<1>7. QED
  BY <1>1, <1>2, <1>3, <1>4, <1>5, <1>6, LenProperties

\* The transaction that runs is about a message.
LEMMA SubjectTyped ==
  ASSUME MailboxInv, transactions # <<>>
  PROVE  Subject \in Message
<1>1. transactions \in Seq(Transactions)
  BY Shapes
<1>2. Head(transactions) \in Transactions
  BY <1>1, Queue
<1>3. QED
  BY <1>2 DEF Subject, Transactions

\* The running dispatch changes: those that wait go on waiting.
LEMMA DispatchChanges ==
  ASSUME MailboxInv, WaitingInv, dispatches # <<>>, NEW op, dispatches' = Becomes(op)
  PROVE  WaitingInv' /\ dispatches' # <<>> /\ Head(dispatches') = op
         /\ Len(dispatches') = Len(dispatches) /\ \A i \in 2 .. Len(dispatches) : dispatches'[i] = dispatches[i]
<1>1. /\ dispatches \in Seq(Dispatches) /\ DOMAIN dispatches = 1 .. Len(dispatches) /\ Len(dispatches) \in Nat
      /\ 1 \in DOMAIN dispatches
  BY Shapes, Queue
<1>2. DOMAIN dispatches' = 1 .. Len(dispatches) /\ dispatches' \in Seq(Dispatches \union {op})
  BY <1>1 DEF Becomes
<1>3. /\ Len(dispatches') = Len(dispatches) /\ dispatches'[1] = op
      /\ \A i \in 2 .. Len(dispatches) : dispatches'[i] = dispatches[i]
  BY <1>1, <1>2 DEF Becomes
<1>4. dispatches' # <<>> /\ Head(dispatches') = op
  BY <1>1, <1>2, <1>3
<1>5. QED
  BY <1>1, <1>2, <1>3, <1>4 DEF WaitingInv

\* The running dispatch ends: the next one has not started.
LEMMA DispatchEnds ==
  ASSUME MailboxInv, WaitingInv, dispatches # <<>>, dispatches' = GiveUp
  PROVE  /\ WaitingInv' /\ (dispatches' = <<>> \/ At("start")')
         /\ Len(dispatches') = Len(dispatches) - 1
         /\ \A i \in 1 .. Len(dispatches) - 1 : dispatches'[i] = dispatches[i + 1]
<1>1. /\ dispatches \in Seq(Dispatches) /\ DOMAIN dispatches = 1 .. Len(dispatches) /\ Len(dispatches) \in Nat \ {0}
  BY Shapes, EmptySeq
<1>2. /\ dispatches' \in Seq(Dispatches) /\ Len(dispatches') = Len(dispatches) - 1
      /\ DOMAIN dispatches' = 1 .. Len(dispatches) - 1
      /\ \A i \in 1 .. Len(dispatches) - 1 : dispatches'[i] = dispatches[i + 1]
  BY <1>1 DEF GiveUp
<1>3. \A i \in 1 .. Len(dispatches) - 1 : dispatches'[i].at = "start"
  BY <1>1, <1>2 DEF WaitingInv
<1>4. dispatches' = <<>> \/ At("start")'
  BY <1>1, <1>2, <1>3, Queue DEF At
<1>5. QED
  BY <1>2, <1>3, <1>4 DEF WaitingInv

\* A dispatch is queued behind the running one.
LEMMA DispatchQueued ==
  ASSUME MailboxInv, WaitingInv, NEW m \in Message, dispatches' = TryDispatch(m)
  PROVE  /\ WaitingInv'
         /\ \/ dispatches # <<>> /\ dispatches' # <<>> /\ Head(dispatches') = Head(dispatches)
            \/ dispatches' = <<>> \/ At("start")'
         /\ \A i \in DOMAIN dispatches' : dispatches'[i].msg = m \/ \E j \in DOMAIN dispatches : dispatches'[i] = dispatches[j]
<1>1. /\ dispatches \in Seq(Dispatches) /\ DOMAIN dispatches = 1 .. Len(dispatches) /\ Len(dispatches) \in Nat
      /\ NewDispatch(m).at = "start" /\ NewDispatch(m).msg = m /\ NewDispatch(m) \in Dispatches
  BY Shapes DEF NewDispatch, Dispatches, Labels
<1>2. CASE dispatches' = dispatches
  BY <1>1, <1>2 DEF WaitingInv, At
<1>3. CASE dispatches' = Append(dispatches, NewDispatch(m))
  <2>1. /\ dispatches' \in Seq(Dispatches) /\ Len(dispatches') = Len(dispatches) + 1
        /\ DOMAIN dispatches' = 1 .. Len(dispatches) + 1
        /\ \A i \in 1 .. Len(dispatches) : dispatches'[i] = dispatches[i]
        /\ dispatches'[Len(dispatches) + 1] = NewDispatch(m)
    BY <1>1, <1>3
  <2>2. dispatches' # <<>> /\ Head(dispatches') = dispatches'[1]
    BY <1>1, <2>1
  <2>3. dispatches # <<>> => Head(dispatches') = Head(dispatches)
    BY <1>1, <2>1, <2>2
  <2>4. dispatches = <<>> => At("start")'
    BY <1>1, <2>1, <2>2 DEF At
  <2>5. WaitingInv'
    BY <1>1, <2>1 DEF WaitingInv
  <2>6. QED
    BY <1>1, <2>1, <2>2, <2>3, <2>4, <2>5
<1>4. QED
  BY <1>2, <1>3 DEF TryDispatch

\* The events a step appends to the teammate's log: only a steer inserts a message.
LEMMA NewEntries ==
  ASSUME MailboxInv, [Next]_vars, ~Crash, ~Steer,
         NEW i \in DOMAIN target', i \notin DOMAIN target
  PROVE  target'[i].kind # "inserted"
<1>1. /\ DOMAIN target = 1 .. Len(target) /\ DOMAIN target' = 1 .. Len(target')
      /\ Len(target) \in Nat /\ Len(target') \in Nat /\ target \in Seq(TargetEvents)
  BY TargetGrows, Shapes DEF GrowsOnly
<1>2. CASE Claim
  <2>1. target' = Append(target, Event("spliced", None))
    BY <1>2 DEF Claim
  <2>2. target'[i] = Event("spliced", None)
    BY <1>1, <2>1
  <2>3. QED
    BY <2>2 DEF Event
<1>3. CASE Admit
  <2>1. PICK batch \in [1 .. Cardinality(claimed) -> claimed] :
           target' = target \o [k \in DOMAIN batch |-> Event("user", target[batch[k]].msg)]
    BY <1>3 DEF Admit
  <2> DEFINE news == [k \in DOMAIN batch |-> Event("user", target[batch[k]].msg)]
  <2>2. Cardinality(claimed) \in Nat
    <3>1. IsFiniteSet(1 .. Len(target))
      BY <1>1, FS_Interval
    <3>2. QED
      BY <1>1, <3>1, FS_Subset, FS_CardinalityType DEF MailboxInv, TargetInv
  <2>3. news \in Seq({Event("user", target[j].msg) : j \in claimed})
    BY <2>2
  <2>4. target'[i] \in {Event("user", target[j].msg) : j \in claimed}
    <3>1. target' = target \o news
      BY <2>1
    <3> HIDE DEF news
    <3>0. Len(news) \in Nat
      BY <2>3, LenProperties
    <3>2. i - Len(target) \in 1 .. Len(news) /\ target'[i] = news[i - Len(target)]
      BY <1>1, <2>3, <3>0, <3>1
    <3>3. QED
      BY <2>3, <3>2, ElementOfSeq
  <2>5. QED
    BY <2>4 DEF Event
<1>4. CASE target' = target
  BY <1>4
<1>5. QED
  BY <1>2, <1>3, <1>4
  DEF Next, Journal, Dispatch, Acknowledgement, Driver, RecoveryStep, Send, SendAppends, SendRejected,
      MarkAppends, SendFlushed, Marked, TransactionFails, Appends, DispatchStarts, DispatchNext, ReadStored,
      Checkpoint, DispatchFails, ClaimDropped, AckFlushed, AckFails, Retire, TargetStarts, RecoveryBegins,
      RecoveryGoesOn, vars, targetVars

-----------------------------------------------------------------------------
(* What a step makes of the running dispatch, d before and e after it.     *)

Quiet == dispatches = <<>> \/ At("start")
Same(d, e) == e.msg = d.msg /\ e.rest = d.rest /\ e.hand = d.hand
Forwarded(d, e) == e.msg = d.msg /\ e.rest = d.rest /\ e.hand = None /\ e.at = "next"
Begun(d, e, messages) ==
    /\ e.msg = d.msg /\ e.hand \in messages /\ e.rest = messages \ {e.hand}
    /\ \A n \in messages : e.hand <= n
    /\ \/ e.at = "reading" /\ ~live
       \/ e.at = "flushing"
       \/ e.at = "steering" /\ ~Accepted(target, e.hand)

Steered(d, e) == Steer /\ (Forwarded(d, e) \/ (Same(d, e) /\ e.at = "flushing"))
Read(d, e) ==
    /\ ReadStored /\ Same(d, e)
    /\ \/ e.at = "marking" /\ Accepted(Prefix(target, targetStored), d.hand)
       \/ e.at = "steering" /\ ~Accepted(Prefix(target, targetStored), d.hand)
Checkpointed(d, e) == Checkpoint /\ Same(d, e) /\ e.at = "marking" /\ Accepted(target, d.hand)
Started(d, e) == DispatchStarts /\ d.msg \in Undelivered /\ Begun(d, e, Through(d.msg))
WentOn(d, e) == DispatchNext /\ Begun(d, e, d.rest)

HeadMoved(d, e) ==
    \/ e = d
    \/ Steered(d, e) \/ Read(d, e) \/ Checkpointed(d, e) \/ Started(d, e) \/ WentOn(d, e)
    \/ d.at = "marking" /\ Forwarded(d, e)

\* The running dispatch takes up the first of its messages.
LEMMA BeginsBatch ==
  ASSUME MailboxInv, WaitingInv, dispatches # <<>>, NEW messages \in SUBSET Message, Begin(messages)
  PROVE  WaitingInv' /\ dispatches' # <<>> /\ Begun(Head(dispatches), Head(dispatches'), messages)
<1>1. PICK m \in messages :
         /\ \A n \in messages : m <= n
         /\ LET op == [Head(dispatches) EXCEPT !.hand = m, !.rest = messages \ {m}]
            IN  \/ ~live /\ dispatches' = Becomes([op EXCEPT !.at = "reading", !.session = 0])
                \/ /\ live /\ Accepted(target, m)
                   /\ dispatches' = Becomes([op EXCEPT !.at = "flushing", !.session = 0, !.upTo = Len(target)])
                \/ /\ live /\ ~Accepted(target, m)
                   /\ dispatches' = Becomes([op EXCEPT !.at = "steering", !.session = retired + 1])
  BY DEF Begin
<1> DEFINE op == [Head(dispatches) EXCEPT !.hand = m, !.rest = messages \ {m}]
<1>2. Head(dispatches) \in Dispatches
  BY Shapes, Queue
<1>3. op \in Dispatches /\ op.hand = m /\ op.rest = messages \ {m} /\ op.msg = Head(dispatches).msg
  BY <1>2 DEF Dispatches
<1> HIDE DEF op
<1>4. CASE ~live /\ dispatches' = Becomes([op EXCEPT !.at = "reading", !.session = 0])
  <2>1. /\ WaitingInv' /\ dispatches' # <<>>
        /\ Head(dispatches') = [op EXCEPT !.at = "reading", !.session = 0]
    BY <1>4, DispatchChanges
  <2>2. QED
    BY <1>1, <1>3, <1>4, <2>1 DEF Begun, Dispatches
<1>5. CASE dispatches' = Becomes([op EXCEPT !.at = "flushing", !.session = 0, !.upTo = Len(target)])
  <2>1. /\ WaitingInv' /\ dispatches' # <<>>
        /\ Head(dispatches') = [op EXCEPT !.at = "flushing", !.session = 0, !.upTo = Len(target)]
    BY <1>5, DispatchChanges
  <2>2. QED
    BY <1>1, <1>3, <2>1 DEF Begun, Dispatches
<1>6. CASE ~Accepted(target, m) /\ dispatches' = Becomes([op EXCEPT !.at = "steering", !.session = retired + 1])
  <2>1. /\ WaitingInv' /\ dispatches' # <<>>
        /\ Head(dispatches') = [op EXCEPT !.at = "steering", !.session = retired + 1]
    BY <1>6, DispatchChanges
  <2>2. QED
    BY <1>1, <1>3, <1>6, <2>1 DEF Begun, Dispatches
<1>7. QED
  BY <1>1, <1>4, <1>5, <1>6 DEF op

\* Every step but a crash moves the running dispatch on as the code does, or
\* leaves none that has started.
LEMMA HeadMoves ==
  ASSUME MailboxInv, WaitingInv, [Next]_vars, ~Crash
  PROVE  /\ WaitingInv'
         /\ \/ Quiet'
            \/ dispatches # <<>> /\ dispatches' # <<>> /\ HeadMoved(Head(dispatches), Head(dispatches'))
<1> DEFINE Moves == /\ WaitingInv'
                    /\ \/ Quiet'
                       \/ dispatches # <<>> /\ dispatches' # <<>> /\ HeadMoved(Head(dispatches), Head(dispatches'))
<1>1. CASE dispatches' = dispatches
  <2>1. WaitingInv'
    BY <1>1 DEF WaitingInv
  <2>2. QED
    BY <1>1, <2>1 DEF Quiet, HeadMoved
<1>2. CASE dispatches # <<>> /\ dispatches' = GiveUp
  BY <1>2, DispatchEnds DEF Quiet
<1>3. ASSUME NEW m \in Message, dispatches' = TryDispatch(m) PROVE Moves
  BY <1>3, DispatchQueued DEF Quiet, HeadMoved
<1>4. ASSUME dispatches # <<>>, dispatches' = NextInHand
      PROVE  /\ WaitingInv'
             /\ Quiet' \/ (dispatches' # <<>> /\ Forwarded(Head(dispatches), Head(dispatches')))
  <2>1. CASE dispatches' = GiveUp
    BY <1>4, <2>1, DispatchEnds DEF Quiet
  <2>2. CASE dispatches' = Becomes([Head(dispatches) EXCEPT !.at = "next", !.hand = None])
    <3>1. /\ WaitingInv' /\ dispatches' # <<>>
          /\ Head(dispatches') = [Head(dispatches) EXCEPT !.at = "next", !.hand = None]
      BY <1>4, <2>2, DispatchChanges
    <3>2. Head(dispatches) \in Dispatches
      BY <1>4, Shapes, Queue
    <3>3. QED
      BY <3>1, <3>2 DEF Forwarded, Dispatches
  <2>3. QED
    BY <1>4, <2>1, <2>2 DEF NextInHand, GiveUp
<1>5. CASE SendFlushed
  <2>1. Subject \in Message
    BY <1>5, SubjectTyped DEF SendFlushed, Running
  <2>2. QED
    BY <1>3, <1>5, <2>1 DEF SendFlushed
<1>6. ASSUME transactions # <<>>, Head(transactions).kind = "mark" PROVE At("marking")
  <2>1. 1 \in DOMAIN transactions /\ Head(transactions) = transactions[1]
    BY <1>6, Shapes, Queue
  <2>2. QED
    BY <1>6, <2>1 DEF MailboxInv, MarkInv
<1>7. CASE Marked
  <2>1. transactions # <<>>
    BY <1>7 DEF Marked, Running
  <2>2. CASE Head(transactions).kind = "mark"
    <3>1. At("marking") /\ dispatches' = NextInHand
      BY <1>6, <1>7, <2>1, <2>2 DEF Marked
    <3>2. QED
      BY <1>4, <3>1 DEF At, HeadMoved
  <2>3. CASE Head(transactions).kind # "mark"
    BY <1>1, <1>7, <2>3 DEF Marked
  <2>4. QED
    BY <2>2, <2>3
<1>8. CASE TransactionFails
  <2>1. transactions # <<>>
    BY <1>8 DEF TransactionFails, Running
  <2>2. CASE Head(transactions).kind = "mark"
    <3>1. At("marking") /\ dispatches' = GiveUp
      BY <1>6, <1>8, <2>1, <2>2 DEF TransactionFails
    <3>2. QED
      BY <1>2, <3>1 DEF At
  <2>3. CASE Head(transactions).kind # "mark"
    BY <1>1, <1>8, <2>3 DEF TransactionFails
  <2>4. QED
    BY <2>2, <2>3
<1>9. CASE DispatchStarts
  <2>1. CASE Head(dispatches).msg \in Undelivered
    <3>1. dispatches # <<>> /\ Begin(Through(Head(dispatches).msg))
      BY <1>9, <2>1 DEF DispatchStarts, At
    <3>2. Through(Head(dispatches).msg) \in SUBSET Message
      BY DEF Through, Undelivered
    <3>3. QED
      BY <1>9, <2>1, <3>1, <3>2, BeginsBatch DEF HeadMoved, Started
  <2>2. CASE Head(dispatches).msg \notin Undelivered
    BY <1>2, <1>9, <2>2 DEF DispatchStarts, At
  <2>3. QED
    BY <2>1, <2>2
<1>10. CASE DispatchNext
  <2>1. dispatches # <<>> /\ Begin(Head(dispatches).rest)
    BY <1>10 DEF DispatchNext, At
  <2>2. Head(dispatches).rest \in SUBSET Message
    <3>1. Head(dispatches) \in Dispatches
      BY <2>1, Shapes, Queue
    <3>2. QED
      BY <3>1 DEF Dispatches
  <2>3. QED
    BY <1>10, <2>1, <2>2, BeginsBatch DEF HeadMoved, WentOn
<1>11. ASSUME dispatches # <<>>, Marking
       PROVE  /\ WaitingInv' /\ dispatches' # <<>>
              /\ Same(Head(dispatches), Head(dispatches')) /\ Head(dispatches').at = "marking"
  <2>1. /\ WaitingInv' /\ dispatches' # <<>>
        /\ Head(dispatches') = [Head(dispatches) EXCEPT !.at = "marking", !.upTo = 0]
    BY <1>11, DispatchChanges DEF Marking
  <2>2. Head(dispatches) \in Dispatches
    BY <1>11, Shapes, Queue
  <2>3. QED
    BY <2>1, <2>2 DEF Same, Dispatches
<1>12. CASE ReadStored
  <2>1. dispatches # <<>>
    BY <1>12 DEF ReadStored, At
  <2>2. CASE Accepted(Prefix(target, targetStored), InHand)
    <3>1. Marking
      BY <1>12, <2>2 DEF ReadStored
    <3>2. QED
      BY <1>11, <1>12, <2>1, <2>2, <3>1 DEF HeadMoved, Read, InHand
  <2>3. CASE ~Accepted(Prefix(target, targetStored), InHand)
    <3>1. dispatches' = Becomes([Head(dispatches) EXCEPT !.at = "steering"])
      BY <1>12, <2>3 DEF ReadStored
    <3>2. WaitingInv' /\ dispatches' # <<>> /\ Head(dispatches') = [Head(dispatches) EXCEPT !.at = "steering"]
      BY <2>1, <3>1, DispatchChanges
    <3>3. Head(dispatches) \in Dispatches
      BY <2>1, Shapes, Queue
    <3>4. Same(Head(dispatches), Head(dispatches')) /\ Head(dispatches').at = "steering"
      BY <3>2, <3>3 DEF Same, Dispatches
    <3>5. QED
      BY <1>12, <2>1, <2>3, <3>2, <3>4 DEF HeadMoved, Read, InHand
  <2>4. QED
    BY <2>2, <2>3
<1>13. CASE Steer
  <2>1. dispatches # <<>>
    BY <1>13 DEF Steer, At
  <2>2. CASE dispatches' = NextInHand
    BY <1>4, <1>13, <2>1, <2>2 DEF HeadMoved, Steered
  <2>3. CASE dispatches' = GiveUp
    BY <1>2, <2>1, <2>3
  <2>4. CASE dispatches' = Becomes([Head(dispatches) EXCEPT !.at = "flushing", !.session = 0, !.upTo = Len(target')])
    <3>1. /\ WaitingInv' /\ dispatches' # <<>>
          /\ Head(dispatches') = [Head(dispatches) EXCEPT !.at = "flushing", !.session = 0, !.upTo = Len(target')]
      BY <2>1, <2>4, DispatchChanges
    <3>2. Head(dispatches) \in Dispatches
      BY <2>1, Shapes, Queue
    <3>3. Same(Head(dispatches), Head(dispatches')) /\ Head(dispatches').at = "flushing"
      BY <3>1, <3>2 DEF Same, Dispatches
    <3>4. QED
      BY <1>13, <2>1, <3>1, <3>3 DEF HeadMoved, Steered
  <2>5. QED
    BY <1>13, <2>2, <2>3, <2>4 DEF Steer
<1>14. CASE Checkpoint
  <2>1. dispatches # <<>>
    BY <1>14 DEF Checkpoint, At
  <2>2. CASE Accepted(target, InHand)
    <3>1. Marking
      BY <1>14, <2>2 DEF Checkpoint
    <3>2. QED
      BY <1>11, <1>14, <2>1, <2>2, <3>1 DEF HeadMoved, Checkpointed, InHand
  <2>3. CASE ~Accepted(target, InHand)
    BY <1>2, <1>14, <2>1, <2>3 DEF Checkpoint
  <2>4. QED
    BY <2>2, <2>3
<1>15. CASE DispatchFails
  BY <1>2, <1>15 DEF DispatchFails, At
<1>16. ASSUME NEW r, NEW messages \in SUBSET Message, GoesThrough(r, messages) PROVE Moves
  <2>1. CASE UNCHANGED dispatches
    BY <1>1, <2>1
  <2>2. CASE \E m \in messages : dispatches' = TryDispatch(m)
    BY <1>3, <2>2
  <2>3. QED
    BY <1>16, <2>1, <2>2 DEF GoesThrough
<1>17. CASE RecoveryStep
  <2>1. PICK r \in recoveries : RecoveryBegins(r) \/ RecoveryGoesOn(r)
    BY <1>17 DEF RecoveryStep
  <2>2. r.rest \in SUBSET Message /\ Undelivered \in SUBSET Message
    BY Shapes DEF Undelivered
  <2>3. QED
    BY <1>16, <2>1, <2>2 DEF RecoveryBegins, RecoveryGoesOn
<1>18. QED
  BY <1>1, <1>5, <1>7, <1>8, <1>9, <1>10, <1>12, <1>13, <1>14, <1>15, <1>17
  DEF Next, Journal, Dispatch, Acknowledgement, Driver, Send, SendAppends, SendRejected, MarkAppends, Appends,
      Claim, Admit, ClaimDropped, AckFlushed, AckFails, Retire, TargetStarts, vars

\* A steer is the end of steering.
LEMMA SteerEnds ==
  ASSUME MailboxInv, WaitingInv, Steer
  PROVE  ~At("steering")'
<1>1. dispatches # <<>> /\ Head(dispatches) \in Dispatches
  BY Shapes, Queue DEF Steer, At
<1>2. CASE dispatches' = GiveUp
  <2>1. dispatches' = <<>> \/ At("start")'
    BY <1>1, <1>2, DispatchEnds
  <2>2. QED
    BY <2>1 DEF At
<1>3. CASE dispatches' = Becomes([Head(dispatches) EXCEPT !.at = "next", !.hand = None])
  <2>1. Head(dispatches') = [Head(dispatches) EXCEPT !.at = "next", !.hand = None]
    BY <1>1, <1>3, DispatchChanges
  <2>2. QED
    BY <1>1, <2>1 DEF At, Dispatches
<1>4. CASE dispatches' = Becomes([Head(dispatches) EXCEPT !.at = "flushing", !.session = 0, !.upTo = Len(target')])
  <2>1. Head(dispatches') = [Head(dispatches) EXCEPT !.at = "flushing", !.session = 0, !.upTo = Len(target')]
    BY <1>1, <1>4, DispatchChanges
  <2>2. QED
    BY <1>1, <2>1 DEF At, Dispatches
<1>5. QED
  BY <1>2, <1>3, <1>4 DEF Steer, NextInHand, GiveUp

\* Only a steer adds to the inbox.
LEMMA InboxShrinks ==
  ASSUME MailboxInv, [Next]_vars, ~Crash, ~Steer
  PROVE  \A i \in Inbox(target') : i \in Inbox(target) /\ target'[i] = target[i]
<1>1. /\ DOMAIN target = 1 .. Len(target) /\ DOMAIN target' = 1 .. Len(target')
      /\ Len(target) \in Nat /\ Len(target') \in Nat /\ Len(target) <= Len(target')
      /\ \A i \in DOMAIN target : target'[i] = target[i]
  BY TargetGrows, Shapes DEF GrowsOnly
<1> SUFFICES ASSUME NEW i \in Inbox(target') PROVE i \in Inbox(target) /\ target'[i] = target[i]
  OBVIOUS
<1>2. i \in DOMAIN target' /\ target'[i].kind = "inserted" /\ \A j \in i .. Len(target') : target'[j].kind # "spliced"
  BY DEF Inbox
<1>3. i \in DOMAIN target
  BY <1>2, NewEntries
<1>4. \A j \in i .. Len(target) : j \in DOMAIN target /\ j \in i .. Len(target')
  BY <1>1, <1>3
<1>5. QED
  BY <1>1, <1>2, <1>3, <1>4 DEF Inbox

\* Two copies of a message stay separated, and what a dispatch has found out
\* about its message stays true.
LEMMA CopyStep ==
  ASSUME MailboxInv, CopyInv, WaitingInv, [Next]_vars, ~Crash
  PROVE  CopyInv'
<1>1. /\ DOMAIN target = 1 .. Len(target) /\ DOMAIN target' = 1 .. Len(target')
      /\ Len(target) \in Nat /\ Len(target') \in Nat /\ Len(target) <= Len(target')
      /\ targetStored \in 0 .. Len(target) /\ targetStored' \in targetStored .. Len(target')
      /\ target \in Seq(TargetEvents) /\ live \in BOOLEAN
      /\ \A i \in DOMAIN target : target'[i] = target[i]
  BY TargetGrows, Shapes DEF GrowsOnly
<1>2. Separated'
  <2> SUFFICES ASSUME NEW i \in DOMAIN target', NEW j \in DOMAIN target', i < j,
                      target'[i].kind = "inserted", target'[i] = target'[j]
               PROVE  \E k \in i .. j : target'[k].kind = "spliced"
    BY DEF Separated
  <2>1. i \in Nat /\ j \in Nat /\ i \in DOMAIN target' /\ i >= 1
    BY <1>1
  <2>2. CASE j \in DOMAIN target
    <3>1. i \in DOMAIN target
      BY <1>1, <2>1, <2>2
    <3>2. PICK k \in i .. j : target[k].kind = "spliced"
      BY <1>1, <2>2, <3>1 DEF CopyInv, Separated
    <3>3. k \in DOMAIN target
      BY <1>1, <2>1, <2>2
    <3>4. QED
      BY <1>1, <3>2, <3>3
  <2>3. CASE j \notin DOMAIN target
    <3>1. Steer
      BY <2>3, NewEntries
    <3>2. /\ target' = Append(target, Event("inserted", InHand))
          /\ \A k \in Inbox(target) : target[k].msg # InHand
      BY <3>1 DEF Steer, CopyInv
    <3>3. Len(target') = Len(target) + 1 /\ target'[Len(target) + 1] = Event("inserted", InHand)
      BY <1>1, <3>2
    <3>4. j = Len(target) + 1 /\ i \in DOMAIN target
      BY <1>1, <2>1, <2>3, <3>3
    <3>5. target[i].kind = "inserted" /\ target[i].msg = InHand
      BY <1>1, <3>3, <3>4 DEF Event
    <3>6. PICK k \in i .. Len(target) : target[k].kind = "spliced"
      BY <3>2, <3>4, <3>5 DEF Inbox
    <3>7. k \in DOMAIN target /\ k \in i .. j
      BY <1>1, <2>1, <3>4
    <3>8. QED
      BY <1>1, <3>6, <3>7
  <2>4. QED
    BY <2>2, <2>3
<1>3. ~live' => targetStored' = Len(target')
  <2>1. CASE Retire
    BY <2>1, <1>1 DEF Retire
  <2>2. CASE live'
    BY <2>2
  <2>3. CASE ~live /\ target' = target
    BY <2>3, <1>1 DEF CopyInv
  <2>4. QED
    BY <2>1, <2>2, <2>3
    DEF CopyInv, Next, Journal, Dispatch, Acknowledgement, Driver, RecoveryStep, Send, SendAppends, SendRejected,
        MarkAppends, SendFlushed, Marked, TransactionFails, Appends, DispatchStarts, DispatchNext, ReadStored,
        Steer, Checkpoint, DispatchFails, Claim, Admit, ClaimDropped, AckFlushed, AckFails, TargetStarts,
        RecoveryBegins, RecoveryGoesOn, vars, targetVars
<1>4. claimed' # {} => live'
  BY DEF CopyInv, Next, Journal, Dispatch, Acknowledgement, Driver, RecoveryStep, Send, SendAppends, SendRejected,
         MarkAppends, SendFlushed, Marked, TransactionFails, Appends, DispatchStarts, DispatchNext, ReadStored,
         Steer, Checkpoint, DispatchFails, Claim, Admit, ClaimDropped, AckFlushed, AckFails, Retire, TargetStarts,
         RecoveryBegins, RecoveryGoesOn, vars, targetVars
<1> DEFINE d == Head(dispatches)
           e == Head(dispatches')
<1>5. ASSUME At("reading")' \/ At("steering")'
      PROVE  dispatches # <<>> /\ dispatches' # <<>> /\ HeadMoved(d, e)
  <2>1. ~Quiet'
    BY <1>5 DEF Quiet, At
  <2>2. QED
    BY <2>1, HeadMoves
<1>6. ASSUME At("reading")' PROVE \A i \in DOMAIN target' : target'[i].kind = "inserted" => i <= targetStored'
  <2>1. e.at = "reading" /\ dispatches # <<>> /\ HeadMoved(d, e)
    BY <1>5, <1>6 DEF At
  <2>2. CASE e = d
    <3>1. At("reading") /\ ~Steer
      BY <2>1, <2>2 DEF At, Steer
    <3>2. \A i \in DOMAIN target' : target'[i].kind = "inserted" => i \in DOMAIN target /\ target[i].kind = "inserted"
      BY <1>1, <3>1, NewEntries
    <3>3. \A i \in DOMAIN target : target[i].kind = "inserted" => i <= targetStored
      BY <3>1 DEF CopyInv
    <3>4. \A i \in DOMAIN target' : i \in Nat
      BY <1>1
    <3>5. QED
      BY <1>1, <3>2, <3>3, <3>4
  <2>3. CASE ~live /\ target' = target
    BY <1>1, <2>3 DEF CopyInv
  <2>4. QED
    BY <2>1, <2>2, <2>3
    DEF HeadMoved, Steered, Read, Checkpointed, Started, WentOn, Forwarded, Begun, DispatchStarts, DispatchNext,
        targetVars
<1>7. ASSUME At("steering")' PROVE \A i \in Inbox(target') : target'[i].msg # InHand'
  <2>1. /\ e.at = "steering" /\ dispatches # <<>> /\ HeadMoved(d, e)
        /\ InHand' = e.hand /\ InHand = d.hand
    BY <1>5, <1>7 DEF At, InHand
  <2>2. CASE e = d
    <3>1. At("steering") /\ ~Steer
      BY <1>7, <2>1, <2>2, SteerEnds DEF At
    <3>2. \A i \in Inbox(target) : target[i].msg # InHand
      BY <3>1 DEF CopyInv
    <3>3. QED
      BY <2>1, <2>2, <3>1, <3>2, InboxShrinks
  <2>3. CASE ~Accepted(target, e.hand) /\ target' = target
    BY <2>1, <2>3 DEF Accepted
  <2>4. CASE Read(d, e)
    <3>1. ~Accepted(Prefix(target, targetStored), d.hand) /\ At("reading") /\ target' = target /\ e.hand = d.hand
      BY <2>1, <2>4 DEF Read, Same, ReadStored, targetVars
    <3> DEFINE log == Prefix(target, targetStored)
    <3>2. /\ Len(log) = targetStored /\ DOMAIN log = 1 .. targetStored
          /\ \A i \in 1 .. targetStored : log[i] = target[i]
      BY <1>1 DEF Prefix
    <3>3. ASSUME NEW i \in Inbox(target), target[i].msg = d.hand PROVE FALSE
      <4>1. i \in DOMAIN target /\ target[i].kind = "inserted" /\ \A j \in i .. Len(target) : target[j].kind # "spliced"
        BY DEF Inbox
      <4>2. i \in 1 .. targetStored
        BY <1>1, <3>1, <4>1 DEF CopyInv
      <4>3. \A j \in i .. targetStored : j \in 1 .. targetStored /\ j \in i .. Len(target)
        BY <1>1, <4>2
      <4>4. i \in Inbox(log) /\ log[i].msg = d.hand
        BY <3>2, <3>3, <4>1, <4>2, <4>3 DEF Inbox
      <4>5. QED
        BY <3>1, <4>4 DEF Accepted
    <3>4. QED
      BY <2>1, <3>1, <3>3
  <2>5. QED
    BY <2>1, <2>2, <2>3, <2>4
    DEF HeadMoved, Steered, Checkpointed, Started, WentOn, Forwarded, Begun, DispatchStarts, DispatchNext,
        targetVars
<1>8. QED
  BY <1>2, <1>3, <1>4, <1>6, <1>7 DEF CopyInv

-----------------------------------------------------------------------------
(* What a step makes known.                                                *)

\* Only a send's transaction queues a message.
LEMMA NewlyQueued ==
  ASSUME MailboxInv, [Next]_vars, ~Crash, NEW m, QueuedInLead(m)'
  PROVE  QueuedInLead(m) \/ (SendAppends /\ m = Subject)
<1>1. lead \in Seq(LeadEvents) /\ DOMAIN lead = 1 .. Len(lead) /\ Len(lead) \in Nat
  BY Shapes
<1>2. CASE lead' = lead
  BY <1>2 DEF QueuedInLead, Has
<1>3. ASSUME NEW kind, lead' = Append(lead, Event(kind, Subject))
      PROVE  QueuedInLead(m) \/ (kind = "queued" /\ m = Subject)
  <2>1. /\ DOMAIN lead' = 1 .. Len(lead) + 1 /\ lead'[Len(lead) + 1] = Event(kind, Subject)
        /\ \A i \in 1 .. Len(lead) : lead'[i] = lead[i]
    BY <1>1, <1>3
  <2>2. PICK i \in DOMAIN lead' : lead'[i] = Event("queued", m)
    BY DEF QueuedInLead, Has
  <2>3. CASE i \in DOMAIN lead
    BY <1>1, <2>1, <2>2, <2>3 DEF QueuedInLead, Has
  <2>4. CASE i = Len(lead) + 1
    BY <2>1, <2>2, <2>4 DEF Event
  <2>5. QED
    BY <1>1, <2>1, <2>3, <2>4
<1>4. CASE SendAppends
  BY <1>3, <1>4 DEF SendAppends, Appends
<1>5. CASE MarkAppends
  BY <1>3, <1>5 DEF MarkAppends, Appends
<1>6. QED
  BY <1>2, <1>4, <1>5
  DEF Next, Journal, Dispatch, Acknowledgement, Driver, RecoveryStep, Send, SendRejected, SendFlushed, Marked,
      TransactionFails, DispatchStarts, DispatchNext, ReadStored, Steer, Checkpoint, DispatchFails, Claim, Admit,
      ClaimDropped, AckFlushed, AckFails, Retire, TargetStarts, RecoveryBegins, RecoveryGoesOn, vars, leadVars

\* Only a steer inserts a message, and nothing but a crash takes one back.
LEMMA NewlyEntered ==
  ASSUME MailboxInv, [Next]_vars, ~Crash
  PROVE  /\ \A m : Entered(m) => Entered(m)'
         /\ \A m : Entered(m)' => Entered(m) \/ (Steer /\ m = InHand)
         /\ \A m : Steer /\ m = InHand => Entered(m)'
<1>1. /\ DOMAIN target = 1 .. Len(target) /\ DOMAIN target' = 1 .. Len(target')
      /\ Len(target) \in Nat /\ Len(target') \in Nat /\ Len(target) <= Len(target')
      /\ target \in Seq(TargetEvents)
      /\ \A i \in DOMAIN target : target'[i] = target[i]
  BY TargetGrows, Shapes DEF GrowsOnly
<1>2. \A m : Entered(m) => Entered(m)'
  BY <1>1 DEF Entered
<1>3. ASSUME Steer
      PROVE  Len(target') = Len(target) + 1 /\ target'[Len(target) + 1] = Event("inserted", InHand)
  BY <1>1, <1>3 DEF Steer
<1>4. ASSUME NEW m, Entered(m)' PROVE Entered(m) \/ (Steer /\ m = InHand)
  <2>1. PICK i \in DOMAIN target' : target'[i] = Event("inserted", m)
    BY <1>4 DEF Entered
  <2>2. CASE i \in DOMAIN target
    BY <1>1, <2>1, <2>2 DEF Entered
  <2>3. CASE i \notin DOMAIN target
    <3>1. Steer
      BY <2>1, <2>3, NewEntries DEF Event
    <3>2. i = Len(target) + 1
      BY <1>1, <1>3, <2>1, <2>3, <3>1
    <3>3. QED
      BY <1>3, <2>1, <3>1, <3>2 DEF Event
  <2>4. QED
    BY <2>2, <2>3
<1>5. ASSUME NEW m, Steer, m = InHand PROVE Entered(m)'
  <2>1. Len(target) + 1 \in DOMAIN target' /\ target'[Len(target) + 1] = Event("inserted", m)
    BY <1>1, <1>3, <1>5
  <2>2. QED
    BY <2>1 DEF Entered
<1>6. QED
  BY <1>2, <1>4, <1>5

\* The messages of the dispatches and of the recovery passes, and those that are
\* undelivered.
Pursued == {m \in Message : \/ m \in Undelivered
                            \/ \E i \in DOMAIN dispatches : dispatches[i].msg = m
                            \/ \E r \in recoveries : m \in r.rest}

\* A dispatch takes its message from a send or from a recovery pass.
LEMMA NewlyDispatched ==
  ASSUME MailboxInv, WaitingInv, [Next]_vars, ~Crash, NEW i \in DOMAIN dispatches'
  PROVE  dispatches'[i].msg \in Pursued \/ (SendFlushed /\ dispatches'[i].msg = Subject)
<1>1. /\ DOMAIN dispatches = 1 .. Len(dispatches) /\ Len(dispatches) \in Nat
      /\ dispatches \in Seq(Dispatches) /\ \A r \in recoveries : r.rest \subseteq Message
      /\ dispatches' \in Seq(Dispatches)
  <2>1. dispatches' \in Seq(GoodDispatches')
    BY WorkStep DEF WorkInv
  <2>2. GoodDispatches' \subseteq Dispatches
    BY DEF GoodDispatches
  <2>3. QED
    BY <2>1, <2>2, Shapes, SeqMonotonic
<1>2. \A j \in DOMAIN dispatches : dispatches[j].msg \in Pursued
  <2>1. \A j \in DOMAIN dispatches : dispatches[j] \in Dispatches
    BY <1>1, ElementOfSeq
  <2>2. QED
    BY <2>1 DEF Pursued, Dispatches
<1>3. CASE dispatches' = dispatches
  BY <1>2, <1>3
<1>4. ASSUME dispatches # <<>>, dispatches' = GiveUp PROVE dispatches'[i].msg \in Pursued
  <2>1. Len(dispatches') = Len(dispatches) - 1 /\ \A j \in 1 .. Len(dispatches) - 1 : dispatches'[j] = dispatches[j + 1]
    BY <1>4, DispatchEnds
  <2>2. i \in 1 .. Len(dispatches) - 1
    BY <1>1, <2>1, LenProperties
  <2>3. i + 1 \in DOMAIN dispatches
    BY <1>1, <2>2
  <2>4. QED
    BY <1>2, <2>1, <2>2, <2>3
<1>5. ASSUME dispatches # <<>>, NEW op, op.msg = Head(dispatches).msg, dispatches' = Becomes(op)
      PROVE  dispatches'[i].msg \in Pursued
  <2>1. /\ Head(dispatches') = op /\ Len(dispatches') = Len(dispatches)
        /\ \A j \in 2 .. Len(dispatches) : dispatches'[j] = dispatches[j]
    BY <1>5, DispatchChanges
  <2>2. Head(dispatches) = dispatches[1] /\ 1 \in DOMAIN dispatches
    BY <1>1, <1>5, Queue
  <2>3. i \in 1 .. Len(dispatches)
    BY <1>1, <2>1, LenProperties
  <2>4. CASE i = 1
    <3>1. dispatches'[1] = op
      BY <1>1, <1>5, <2>2 DEF Becomes
    <3>2. QED
      BY <1>2, <1>5, <2>2, <2>4, <3>1
  <2>5. CASE i \in 2 .. Len(dispatches)
    BY <1>1, <1>2, <2>1, <2>3, <2>5
  <2>6. QED
    BY <1>1, <2>3, <2>4, <2>5
<1>6. dispatches # <<>> => Head(dispatches) \in Dispatches
  BY <1>1, Queue
<1>7. ASSUME dispatches # <<>>, dispatches' = NextInHand PROVE dispatches'[i].msg \in Pursued
  <2>1. [Head(dispatches) EXCEPT !.at = "next", !.hand = None].msg = Head(dispatches).msg
    BY <1>6, <1>7 DEF Dispatches
  <2>2. QED
    BY <1>4, <1>5, <1>7, <2>1 DEF NextInHand, GiveUp
<1>8. ASSUME NEW m \in Pursued, dispatches' = TryDispatch(m) PROVE dispatches'[i].msg \in Pursued
  <2>1. dispatches'[i].msg = m \/ \E j \in DOMAIN dispatches : dispatches'[i] = dispatches[j]
    BY <1>8, DispatchQueued DEF Pursued
  <2>2. QED
    BY <1>2, <1>8, <2>1
<1>9. ASSUME dispatches # <<>>, NEW messages, Begin(messages) PROVE dispatches'[i].msg \in Pursued
  <2>1. PICK m : LET op == [Head(dispatches) EXCEPT !.hand = m, !.rest = messages \ {m}]
                 IN  \/ dispatches' = Becomes([op EXCEPT !.at = "reading", !.session = 0])
                     \/ dispatches' = Becomes([op EXCEPT !.at = "flushing", !.session = 0, !.upTo = Len(target)])
                     \/ dispatches' = Becomes([op EXCEPT !.at = "steering", !.session = retired + 1])
    BY <1>9 DEF Begin
  <2> DEFINE op == [Head(dispatches) EXCEPT !.hand = m, !.rest = messages \ {m}]
  <2>2. /\ [op EXCEPT !.at = "reading", !.session = 0].msg = Head(dispatches).msg
        /\ [op EXCEPT !.at = "flushing", !.session = 0, !.upTo = Len(target)].msg = Head(dispatches).msg
        /\ [op EXCEPT !.at = "steering", !.session = retired + 1].msg = Head(dispatches).msg
    BY <1>6, <1>9 DEF Dispatches
  <2>3. \E new : new.msg = Head(dispatches).msg /\ dispatches' = Becomes(new)
    <3> DEFINE a == [op EXCEPT !.at = "reading", !.session = 0]
               b == [op EXCEPT !.at = "flushing", !.session = 0, !.upTo = Len(target)]
               c == [op EXCEPT !.at = "steering", !.session = retired + 1]
    <3>1. a.msg = Head(dispatches).msg /\ b.msg = Head(dispatches).msg /\ c.msg = Head(dispatches).msg
      BY <2>2
    <3>2. dispatches' = Becomes(a) \/ dispatches' = Becomes(b) \/ dispatches' = Becomes(c)
      BY <2>1
    <3> HIDE DEF a, b, c
    <3>3. QED
      BY <3>1, <3>2
  <2>4. QED
    BY <1>5, <1>9, <2>3
<1>10. CASE DispatchStarts
  BY <1>4, <1>9, <1>10 DEF DispatchStarts, At
<1>11. CASE DispatchNext
  BY <1>9, <1>11 DEF DispatchNext, At
<1>12. ASSUME dispatches # <<>>, Marking PROVE dispatches'[i].msg \in Pursued
  <2>1. [Head(dispatches) EXCEPT !.at = "marking", !.upTo = 0].msg = Head(dispatches).msg
    BY <1>6, <1>12 DEF Dispatches
  <2>2. QED
    BY <1>5, <1>12, <2>1 DEF Marking
<1>13. CASE ReadStored
  <2>1. [Head(dispatches) EXCEPT !.at = "steering"].msg = Head(dispatches).msg
    BY <1>6, <1>13 DEF Dispatches, ReadStored, At
  <2>2. QED
    BY <1>5, <1>12, <1>13, <2>1 DEF ReadStored, At
<1>14. CASE Steer
  <2>1. [Head(dispatches) EXCEPT !.at = "flushing", !.session = 0, !.upTo = Len(target')].msg = Head(dispatches).msg
    BY <1>6, <1>14 DEF Dispatches, Steer, At
  <2>2. QED
    BY <1>4, <1>5, <1>7, <1>14, <2>1 DEF Steer, At
<1>15. CASE Checkpoint
  BY <1>4, <1>12, <1>15 DEF Checkpoint, At
<1>16. CASE DispatchFails
  BY <1>4, <1>16 DEF DispatchFails, At
<1>17. ASSUME transactions # <<>>, Head(transactions).kind = "mark" PROVE dispatches # <<>>
  <2>1. 1 \in DOMAIN transactions /\ Head(transactions) = transactions[1]
    BY <1>17, Shapes, Queue
  <2>2. QED
    BY <1>17, <2>1 DEF MailboxInv, MarkInv, At
<1>18. CASE Marked
  BY <1>3, <1>7, <1>17, <1>18 DEF Marked, Running
<1>19. CASE TransactionFails
  BY <1>3, <1>4, <1>17, <1>19 DEF TransactionFails, Running
<1>20. CASE SendFlushed
  <2>1. Subject \in Message
    BY <1>20, SubjectTyped DEF SendFlushed, Running
  <2>2. dispatches'[i].msg = Subject \/ \E j \in DOMAIN dispatches : dispatches'[i] = dispatches[j]
    BY <1>20, <2>1, DispatchQueued DEF SendFlushed
  <2>3. QED
    BY <1>2, <1>20, <2>2
<1>21. ASSUME NEW r, NEW messages \in SUBSET Pursued, GoesThrough(r, messages) PROVE dispatches'[i].msg \in Pursued
  <2>1. CASE dispatches' = dispatches
    BY <1>2, <2>1
  <2>2. CASE \E m \in messages : dispatches' = TryDispatch(m)
    <3>1. PICK m \in messages : dispatches' = TryDispatch(m)
      BY <2>2
    <3>2. m \in Pursued
      BY <1>21, <3>1
    <3>3. QED
      BY <1>8, <3>1, <3>2
  <2>3. QED
    BY <1>21, <2>1, <2>2 DEF GoesThrough
<1>22. CASE RecoveryStep
  <2>1. PICK r \in recoveries : RecoveryBegins(r) \/ RecoveryGoesOn(r)
    BY <1>22 DEF RecoveryStep
  <2>2. r.rest \in SUBSET Pursued /\ Undelivered \in SUBSET Pursued
    BY <1>1 DEF Pursued, Undelivered
  <2>3. QED
    BY <1>21, <2>1, <2>2 DEF RecoveryBegins, RecoveryGoesOn
<1>23. QED
  BY <1>3, <1>10, <1>11, <1>13, <1>14, <1>15, <1>16, <1>18, <1>19, <1>20, <1>22
  DEF Next, Journal, Dispatch, Acknowledgement, Driver, Send, SendAppends, SendRejected, MarkAppends, Appends,
      Claim, Admit, ClaimDropped, AckFlushed, AckFails, Retire, TargetStarts, vars

\* A recovery pass goes through messages that are undelivered when it begins.
LEMMA NewlyRecovered ==
  ASSUME MailboxInv, [Next]_vars, NEW r \in recoveries', NEW m \in r.rest
  PROVE  m \in Pursued
<1>1. \A q \in recoveries : q.rest \subseteq Message
  BY Shapes
<1>2. CASE r \in recoveries
  BY <1>1, <1>2 DEF Pursued
<1>3. CASE \E start : r = Recovery(start)
  BY <1>3 DEF Recovery
<1>4. ASSUME NEW q \in recoveries, NEW messages \in SUBSET Pursued, GoesThrough(q, messages)
      PROVE  m \in Pursued
  <2>1. q \in [start : Nat, begun : BOOLEAN, hand : Message \union {None}, rest : SUBSET Message]
    BY DEF MailboxInv, CountInv
  <2>2. CASE r \notin recoveries
    <3>1. PICK k : r = [q EXCEPT !.begun = TRUE, !.hand = k, !.rest = {n \in messages : n > k}]
      <4>1. CASE recoveries' = recoveries \ {q}
        BY <2>2, <4>1
      <4>2. ASSUME NEW k, recoveries' = (recoveries \ {q}) \union
                              {[q EXCEPT !.begun = TRUE, !.hand = k, !.rest = {n \in messages : n > k}]}
            PROVE  r = [q EXCEPT !.begun = TRUE, !.hand = k, !.rest = {n \in messages : n > k}]
        BY <2>2, <4>2
      <4>3. QED
        BY <1>4, <4>1, <4>2 DEF GoesThrough
    <3>2. r.rest = {n \in messages : n > k}
      BY <2>1, <3>1
    <3>3. QED
      BY <3>2
  <2>3. QED
    BY <1>2, <2>2
<1>5. CASE RecoveryStep
  <2>1. PICK q \in recoveries : RecoveryBegins(q) \/ RecoveryGoesOn(q)
    BY <1>5 DEF RecoveryStep
  <2>2. q.rest \in SUBSET Pursued /\ Undelivered \in SUBSET Pursued
    BY <1>1 DEF Pursued, Undelivered
  <2>3. QED
    BY <1>4, <2>1, <2>2 DEF RecoveryBegins, RecoveryGoesOn
<1>6. QED
  BY <1>2, <1>3, <1>5
  DEF Next, Journal, Dispatch, Acknowledgement, Driver, Send, SendAppends, SendRejected, MarkAppends, Appends,
      SendFlushed, Marked, TransactionFails, DispatchStarts, DispatchNext, ReadStored, Steer, Checkpoint,
      DispatchFails, Claim, Admit, ClaimDropped, AckFlushed, AckFails, Retire, TargetStarts, Crash, vars

-----------------------------------------------------------------------------
(* The order of the mailbox.                                               *)

\* What is pursued is known, and so is what the lead has queued or the teammate
\* has been sent.
LEMMA PursuedKnown ==
  ASSUME MailboxInv
  PROVE  Pursued \subseteq Known
<1>1. \A m \in Undelivered : QueuedInLead(m)
  BY DEF Undelivered, QueuedInLead
<1>2. QED
  BY <1>1 DEF Pursued, Known

\* The running dispatch's own message is known, and is not before the one in hand.
LEMMA OwnMessage ==
  ASSUME MailboxInv, dispatches # <<>>
  PROVE  /\ Head(dispatches) \in GoodDispatches /\ Head(dispatches) \in Dispatches
         /\ Head(dispatches).msg \in Known
<1>1. /\ Head(dispatches) \in GoodDispatches /\ 1 \in DOMAIN dispatches /\ Head(dispatches) = dispatches[1]
  BY Queue DEF MailboxInv, WorkInv
<1>2. Head(dispatches) \in Dispatches
  BY <1>1 DEF GoodDispatches
<1>3. QED
  BY <1>1, <1>2 DEF Known, Dispatches

\* The running send's transaction.
LEMMA RunningSend ==
  ASSUME MailboxInv, SendInv, transactions # <<>>, Head(transactions).kind = "send"
  PROVE  /\ Subject \in Message /\ Subject <= sent
         /\ ~Head(transactions).flushing => \A k \in Known : k < Subject
         /\ \A i \in DOMAIN transactions : i > 1 /\ transactions[i].kind = "send" => Subject < transactions[i].msg
<1>1. 1 \in DOMAIN transactions /\ Head(transactions) = transactions[1] /\ Head(transactions) \in Transactions
  BY Shapes, Queue
<1>2. QED
  BY <1>1 DEF SendInv, Subject, Transactions

\* A step makes known what was known, something before it, or the message of
\* the running send.
LEMMA KnownStep ==
  ASSUME MailboxInv, WaitingInv, BatchInv, [Next]_vars, ~Crash, NEW m \in Known'
  PROVE  \/ \E k \in Known : m <= k
         \/ (SendAppends \/ SendFlushed) /\ m = Subject
<1>1. m \in Message /\ Message \subseteq Nat
  BY Shapes DEF Known, Message
<1>2. CASE m \in Known
  BY <1>1, <1>2
<1>3. CASE QueuedInLead(m)'
  <2>1. CASE QueuedInLead(m)
    BY <1>1, <2>1 DEF Known
  <2>2. QED
    BY <1>3, <2>1, NewlyQueued
<1>4. CASE Entered(m)'
  <2>1. CASE Entered(m)
    BY <1>1, <2>1 DEF Known
  <2>2. CASE Steer /\ m = InHand
    <3>1. dispatches # <<>> /\ ~At("start")
      BY <2>2 DEF Steer, At
    <3>2. m \in 0 .. Head(dispatches).msg
      BY <2>2, <3>1 DEF BatchInv, GoodBatch, InHand
    <3>3. Head(dispatches).msg \in Known /\ m <= Head(dispatches).msg
      BY <3>1, <3>2, OwnMessage
    <3>4. QED
      BY <3>3
  <2>3. QED
    BY <1>4, <2>1, <2>2, NewlyEntered
<1>5. CASE \E i \in DOMAIN dispatches' : dispatches'[i].msg = m
  <2>1. m \in Pursued \/ (SendFlushed /\ m = Subject)
    BY <1>5, NewlyDispatched
  <2>2. QED
    BY <1>2, <2>1, PursuedKnown
<1>6. CASE \E r \in recoveries' : m \in r.rest
  BY <1>2, <1>6, NewlyRecovered, PursuedKnown
<1>7. QED
  BY <1>3, <1>4, <1>5, <1>6 DEF Known

\* Sends stay in the order of their messages.
LEMMA SendStep ==
  ASSUME MailboxInv, WaitingInv, BatchInv, SendInv, [Next]_vars, ~Crash
  PROVE  SendInv'
<1>1. /\ transactions \in Seq(Transactions) /\ DOMAIN transactions = 1 .. Len(transactions)
      /\ Len(transactions) \in Nat /\ sent \in Nat /\ Message \subseteq Nat
      /\ Known \subseteq Message /\ Known' \subseteq Message
  BY Shapes DEF Known, Message
<1>2. \A i \in DOMAIN transactions : transactions[i].msg \in Nat
  <2>1. \A i \in DOMAIN transactions : transactions[i] \in Transactions
    BY <1>1, ElementOfSeq
  <2>2. QED
    BY <1>1, <2>1 DEF Transactions
<1>3. CASE Send
  <2>1. /\ sent' = sent + 1 /\ Len(transactions') = Len(transactions) + 1
        /\ DOMAIN transactions' = 1 .. Len(transactions) + 1
        /\ transactions'[Len(transactions) + 1] = Transaction("send", sent + 1)
        /\ \A i \in 1 .. Len(transactions) : transactions'[i] = transactions[i]
    BY <1>1, <1>3 DEF Send
  <2>2. Known' = Known
    BY <1>3 DEF Send, Known, QueuedInLead, Entered, leadVars, targetVars
  <2>3. \A k \in Known : k \in Nat /\ k <= sent
    BY <1>1 DEF SendInv
  <2>4. Transaction("send", sent + 1).msg = sent + 1
    BY DEF Transaction
  <2>5. ASSUME NEW i \in DOMAIN transactions', transactions'[i].kind = "send"
        PROVE  /\ transactions'[i].msg <= sent'
               /\ transactions'[i].flushing \/ \A k \in Known' : k < transactions'[i].msg
               /\ \A j \in DOMAIN transactions' : transactions'[j].kind = "send" /\ i < j =>
                     transactions'[i].msg < transactions'[j].msg
    <3>1. CASE i = Len(transactions) + 1
      BY <1>1, <2>1, <2>2, <2>3, <2>4, <3>1
    <3>2. CASE i \in DOMAIN transactions
      <4>1. /\ transactions[i].msg <= sent /\ transactions[i].msg \in Nat
            /\ transactions[i].flushing \/ \A k \in Known : k < transactions[i].msg
            /\ \A j \in DOMAIN transactions : transactions[j].kind = "send" /\ i < j =>
                  transactions[i].msg < transactions[j].msg
        BY <1>1, <1>2, <2>1, <2>5, <3>2 DEF SendInv
      <4>2. QED
        BY <1>1, <2>1, <2>2, <2>4, <3>2, <4>1
    <3>3. QED
      BY <1>1, <2>1, <3>1, <3>2
  <2>6. QED
    BY <1>1, <2>1, <2>2, <2>3, <2>5 DEF SendInv
<1>4. CASE ~Send
  <2>1. sent' = sent
    BY <1>4
    DEF Next, Journal, Dispatch, Acknowledgement, Driver, RecoveryStep, SendAppends, SendRejected,
        MarkAppends, SendFlushed, Marked, TransactionFails, Appends, DispatchStarts, DispatchNext, ReadStored,
        Steer, Checkpoint, DispatchFails, Claim, Admit, ClaimDropped, AckFlushed, AckFails, Retire, TargetStarts,
        RecoveryBegins, RecoveryGoesOn, Crash, vars
  <2>2. \A m \in Known' : m <= sent
    <3> SUFFICES ASSUME NEW m \in Known' PROVE m <= sent
      OBVIOUS
    <3>1. CASE \E k \in Known : m <= k
      BY <1>1, <3>1 DEF SendInv
    <3>2. CASE (SendAppends \/ SendFlushed) /\ m = Subject
      BY <3>2, RunningSend DEF SendAppends, SendFlushed, Running
    <3>3. QED
      BY <3>1, <3>2, KnownStep
  <2>3. ASSUME NEW i \in DOMAIN transactions, transactions[i].kind = "send", i > 1 \/ ~(SendAppends \/ SendFlushed)
        PROVE  transactions[i].flushing \/ \A m \in Known' : m < transactions[i].msg
    <3> SUFFICES ASSUME NEW m \in Known', ~transactions[i].flushing PROVE m < transactions[i].msg
      OBVIOUS
    <3>1. CASE \E k \in Known : m <= k
      <4>1. PICK k \in Known : m <= k
        BY <3>1
      <4>2. k < transactions[i].msg
        BY <2>3 DEF SendInv
      <4>3. m \in Nat /\ k \in Nat /\ transactions[i].msg \in Nat
        BY <1>1, <1>2
      <4>4. QED
        BY <4>1, <4>2, <4>3
    <3>2. CASE (SendAppends \/ SendFlushed) /\ m = Subject
      BY <2>3, <3>2, RunningSend DEF SendAppends, SendFlushed, Running
    <3>3. QED
      BY <3>1, <3>2, KnownStep
  <2>4. CASE ~(SendAppends \/ SendFlushed) /\ transactions' = transactions
    BY <2>1, <2>2, <2>3, <2>4 DEF SendInv
  <2>5. CASE transactions # <<>> /\ transactions' = Tail(transactions)
    <3>1. /\ DOMAIN transactions' = 1 .. Len(transactions) - 1
          /\ \A i \in 1 .. Len(transactions) - 1 : transactions'[i] = transactions[i + 1] /\ i + 1 \in DOMAIN transactions
      BY <1>1, <2>5, EmptySeq
    <3>2. ASSUME NEW i \in DOMAIN transactions', transactions'[i].kind = "send"
          PROVE  /\ transactions'[i].msg <= sent
                 /\ transactions'[i].flushing \/ \A m \in Known' : m < transactions'[i].msg
                 /\ \A j \in DOMAIN transactions' : transactions'[j].kind = "send" /\ i < j =>
                       transactions'[i].msg < transactions'[j].msg
      <4>1. i + 1 \in DOMAIN transactions /\ i + 1 > 1 /\ transactions'[i] = transactions[i + 1]
        BY <1>1, <3>1
      <4>2. transactions'[i].flushing \/ \A m \in Known' : m < transactions'[i].msg
        BY <2>3, <3>2, <4>1
      <4>3. /\ transactions[i + 1].msg <= sent
            /\ \A j \in DOMAIN transactions : transactions[j].kind = "send" /\ i + 1 < j =>
                  transactions[i + 1].msg < transactions[j].msg
        BY <3>2, <4>1 DEF SendInv
      <4>4. ASSUME NEW j \in DOMAIN transactions', transactions'[j].kind = "send", i < j
            PROVE  transactions'[i].msg < transactions'[j].msg
        <5>1. j + 1 \in DOMAIN transactions /\ transactions'[j] = transactions[j + 1] /\ i + 1 < j + 1
          BY <1>1, <3>1, <4>4
        <5>2. QED
          BY <4>1, <4>3, <4>4, <5>1
      <4>5. QED
        BY <4>1, <4>2, <4>3, <4>4
    <3>3. QED
      BY <2>1, <2>2, <3>2 DEF SendInv
  <2>6. ASSUME NEW kind, Appends(kind), transactions # <<>>, SendAppends \/ MarkAppends
        PROVE  SendInv'
    <3>1. /\ DOMAIN transactions' = 1 .. Len(transactions)
          /\ 1 \in DOMAIN transactions /\ Head(transactions) = transactions[1]
          /\ \A i \in 2 .. Len(transactions) : transactions'[i] = transactions[i]
          /\ transactions'[1] = [transactions[1] EXCEPT !.flushing = TRUE]
      <4>1. 1 \in DOMAIN transactions /\ Head(transactions) = transactions[1]
        BY <1>1, <2>6, Queue
      <4>2. transactions' = [transactions EXCEPT ![1].flushing = TRUE]
        BY <2>6 DEF Appends
      <4>3. QED
        BY <1>1, <4>1, <4>2
    <3>2. transactions[1] \in Transactions
      BY <1>1, <3>1, ElementOfSeq
    <3>3. /\ transactions'[1].flushing = TRUE /\ transactions'[1].msg = transactions[1].msg
          /\ transactions'[1].kind = transactions[1].kind
      BY <3>1, <3>2 DEF Transactions
    <3>4. ASSUME NEW i \in DOMAIN transactions
          PROVE  transactions'[i].msg = transactions[i].msg /\ transactions'[i].kind = transactions[i].kind
      <4>1. CASE i = 1
        BY <3>3, <4>1
      <4>2. CASE i \in 2 .. Len(transactions)
        BY <3>1, <4>2
      <4>3. QED
        BY <1>1, <4>1, <4>2
    <3>5. ASSUME NEW i \in DOMAIN transactions, transactions[i].kind = "send"
          PROVE  transactions'[i].flushing \/ \A m \in Known' : m < transactions'[i].msg
      <4>1. CASE i = 1
        BY <3>3, <4>1
      <4>2. CASE i \in 2 .. Len(transactions)
        <5>1. i > 1 /\ transactions'[i] = transactions[i]
          BY <1>1, <3>1, <4>2
        <5>2. QED
          BY <2>3, <3>5, <5>1
      <4>3. QED
        BY <1>1, <4>1, <4>2
    <3>6. QED
      BY <1>1, <2>1, <2>2, <3>1, <3>4, <3>5 DEF SendInv
  <2>7. ASSUME NEW kind, kind # "send", NEW m, transactions' = Append(transactions, Transaction(kind, m)),
               ~(SendAppends \/ SendFlushed)
        PROVE  SendInv'
    <3>1. /\ DOMAIN transactions' = 1 .. Len(transactions) + 1
          /\ \A i \in 1 .. Len(transactions) : transactions'[i] = transactions[i]
          /\ transactions'[Len(transactions) + 1] = Transaction(kind, m)
      BY <1>1, <2>7
    <3>2. \A i \in DOMAIN transactions' : transactions'[i].kind = "send" => i \in DOMAIN transactions
      BY <1>1, <2>7, <3>1 DEF Transaction
    <3>3. QED
      BY <1>1, <2>1, <2>2, <2>3, <2>7, <3>1, <3>2 DEF SendInv
  <2>8. CASE SendAppends
    BY <2>6, <2>8 DEF SendAppends, Running
  <2>9. CASE MarkAppends
    BY <2>6, <2>9 DEF MarkAppends, Running
  <2>10. CASE SendFlushed
    BY <2>5, <2>10 DEF SendFlushed, Running, SendLeaves
  <2>11. CASE SendRejected \/ Marked \/ TransactionFails
    BY <2>5, <2>11 DEF SendRejected, Marked, TransactionFails, Running
  <2>12. CASE ~(SendAppends \/ SendFlushed) /\ Marking
    BY <2>7, <2>12 DEF Marking
  <2>13. CASE ~(SendAppends \/ SendFlushed) /\ \E a \in acks : AckFlushed(a)
    BY <2>7, <2>13 DEF AckFlushed
  <2>14. QED
    BY <1>4, <2>4, <2>8, <2>9, <2>10, <2>11, <2>12, <2>13
    DEF Next, Journal, Dispatch, Acknowledgement, Driver, RecoveryStep, DispatchStarts, DispatchNext, ReadStored,
        Steer, Checkpoint, DispatchFails, Claim, Admit, ClaimDropped, AckFails, Retire, TargetStarts,
        RecoveryBegins, RecoveryGoesOn, vars
<1>5. QED
  BY <1>3, <1>4

\* The running dispatch's batch misses no message that is queued.
LEMMA BatchStep ==
  ASSUME MailboxInv, WaitingInv, SendInv, BatchInv, [Next]_vars, ~Crash
  PROVE  BatchInv'
<1> SUFFICES ASSUME dispatches' # <<>>, ~At("start")' PROVE GoodBatch(Head(dispatches))'
  BY DEF BatchInv
<1> DEFINE d == Head(dispatches)
           e == Head(dispatches')
<1>1. dispatches # <<>> /\ HeadMoved(d, e) /\ e.at # "start"
  BY HeadMoves DEF Quiet, At
<1>2. /\ d \in GoodDispatches /\ d \in Dispatches /\ d.msg \in Known /\ Message \subseteq Nat
      /\ d.msg \in Message /\ d.rest \subseteq Message /\ 1 .. d.msg \subseteq Message
      /\ d.msg \in Nat
  <2>1. d \in GoodDispatches /\ d \in Dispatches /\ d.msg \in Known
    BY <1>1, OwnMessage
  <2>2. MaxMessage \in Nat
    BY Shapes
  <2>3. QED
    BY <2>1, <2>2 DEF Dispatches, Message
<1>3. \A n \in 1 .. d.msg : QueuedInLead(n)' => QueuedInLead(n)
  <2> SUFFICES ASSUME NEW n \in 1 .. d.msg, SendAppends, n = Subject PROVE FALSE
    BY NewlyQueued
  <2>1. \A k \in Known : k < Subject
    BY RunningSend DEF SendAppends, Running
  <2>2. d.msg < n
    BY <1>2, <2>1
  <2>3. QED
    BY <1>2, <2>2
<1>4. /\ \A m : Entered(m) => Entered(m)'
      /\ \A m : Steer /\ m = InHand => Entered(m)'
  BY NewlyEntered
<1> DEFINE Good(f) ==
             /\ \A n \in f.rest : f.hand < n
             /\ f.rest \union {f.hand} \subseteq 0 .. f.msg
             /\ \A n \in 1 .. f.msg : QueuedInLead(n)' => Entered(n)' \/ n \in f.rest \union {f.hand}
             /\ f.at = "marking" => \E m : m = f.hand /\ Entered(m)'
             /\ f.at = "next" => f.hand = None
<1>5. Good(e) => GoodBatch(Head(dispatches))'
  BY DEF GoodBatch
<1>6. d.at # "start" => GoodBatch(d)
  BY <1>1 DEF BatchInv, At
<1>7. CASE e = d
  <2>1. GoodBatch(d)
    BY <1>1, <1>6, <1>7
  <2>2. Good(d)
    BY <1>3, <1>4, <2>1 DEF GoodBatch
  <2>3. QED
    BY <1>5, <1>7, <2>2
<1>8. ASSUME GoodBatch(d), Forwarded(d, e), \E m : m = d.hand /\ Entered(m)'
      PROVE  Good(e)
  <2>1. e.msg = d.msg /\ e.rest = d.rest /\ e.hand = 0 /\ e.at = "next" /\ None = 0
    BY <1>8 DEF Forwarded, None
  <2>2. \A n \in d.rest : 0 < n
    BY <1>2 DEF Message
  <2>3. d.rest \union {0} \subseteq 0 .. d.msg
    BY <1>2, <1>8 DEF GoodBatch
  <2>4. \A n \in 1 .. d.msg : QueuedInLead(n)' => Entered(n)' \/ n \in d.rest \union {0}
    BY <1>3, <1>4, <1>8 DEF GoodBatch
  <2>5. QED
    BY <2>1, <2>2, <2>3, <2>4
<1>9. ASSUME GoodBatch(d), Same(d, e), e.at # "next", e.at = "marking" => \E m : m = d.hand /\ Entered(m)'
      PROVE  Good(e)
  BY <1>3, <1>4, <1>9 DEF GoodBatch, Same
<1>10. CASE Steered(d, e)
  <2>1. Steer /\ d.at = "steering" /\ d.hand = InHand
    BY <1>10 DEF Steered, Steer, At, InHand
  <2>2. GoodBatch(d) /\ \E m : m = d.hand /\ Entered(m)'
    BY <1>4, <1>6, <2>1
  <2>3. Good(e)
    BY <1>8, <1>9, <1>10, <2>2 DEF Steered
  <2>4. QED
    BY <1>5, <2>3
<1>11. CASE Read(d, e)
  <2>1. d.at = "reading" /\ d.hand \in Message
    BY <1>2, <1>11 DEF Read, ReadStored, At, GoodDispatches
  <2>2. ASSUME e.at = "marking" PROVE Entered(d.hand)
    <3>1. Inserted(targetStored, d.hand)
      BY <1>11, <2>1, <2>2, AcceptedInserted DEF Read, MailboxInv, TargetInv
    <3>2. QED
      BY <3>1 DEF Inserted, Entered
  <2>3. Good(e)
    BY <1>4, <1>6, <1>9, <1>11, <2>1, <2>2 DEF Read
  <2>4. QED
    BY <1>5, <2>3
<1>12. CASE Checkpointed(d, e)
  <2>1. d.at = "flushing" /\ d.hand \in Message
    BY <1>2, <1>12 DEF Checkpointed, Checkpoint, At, GoodDispatches
  <2>2. Entered(d.hand)
    <3>1. Covers(Len(target), d.hand)
      BY <1>12, <2>1, AcceptedCovered DEF Checkpointed, MailboxInv
    <3>2. QED
      BY <3>1 DEF Covers, Inserted, Entered
  <2>3. Good(e)
    BY <1>4, <1>6, <1>9, <1>12, <2>1, <2>2 DEF Checkpointed
  <2>4. QED
    BY <1>5, <2>3
<1>13. ASSUME NEW messages \in SUBSET Message, messages \subseteq 1 .. d.msg, Begun(d, e, messages),
              \A n \in 1 .. d.msg : QueuedInLead(n) => Entered(n) \/ n \in messages
       PROVE  Good(e)
  <2>1. /\ e.msg = d.msg /\ e.hand \in messages /\ e.rest = messages \ {e.hand}
        /\ \A n \in messages : e.hand <= n /\ e.at # "marking" /\ e.at # "next"
    BY <1>13 DEF Begun
  <2>2. \A n \in messages : n \in Nat /\ n \in 0 .. d.msg
    BY <1>2, <1>13
  <2>3. e.rest \union {e.hand} = messages /\ \A n \in e.rest : e.hand < n
    BY <2>1, <2>2
  <2>4. QED
    BY <1>3, <1>4, <1>13, <2>1, <2>2, <2>3
<1>14. CASE Started(d, e)
  <2>1. Through(d.msg) \subseteq 1 .. d.msg /\ Through(d.msg) \in SUBSET Message
    BY <1>2 DEF Through, Undelivered, Message
  <2>2. ASSUME NEW n \in 1 .. d.msg, QueuedInLead(n), n \notin Through(d.msg) PROVE Entered(n)
    <3>1. n \in Message /\ n <= d.msg
      BY <1>2
    <3>2. Has(lead, "delivered", n)
      BY <2>2, <3>1 DEF Through, Undelivered, QueuedInLead
    <3>3. PICK i \in DOMAIN lead : lead[i] = Event("delivered", n)
      BY <3>2 DEF Has
    <3>4. lead[i] \in GoodRecords
      BY ElementOfSeq DEF MailboxInv, WorkInv
    <3>5. QED
      BY <3>3, <3>4 DEF GoodRecords, Event, Inserted, Entered
  <2>3. Begun(d, e, Through(d.msg))
    BY <1>14 DEF Started
  <2>4. Good(e)
    BY <1>13, <2>1, <2>2, <2>3
  <2>5. QED
    BY <1>5, <2>4
<1>15. CASE WentOn(d, e)
  <2>1. d.at = "next" /\ Begun(d, e, d.rest)
    BY <1>15 DEF WentOn, DispatchNext, At
  <2>2. GoodBatch(d) /\ d.hand = 0
    BY <1>6, <2>1 DEF GoodBatch, None
  <2>3. d.rest \subseteq 1 .. d.msg
    BY <1>2, <2>2 DEF GoodBatch, Message
  <2>4. \A n \in 1 .. d.msg : QueuedInLead(n) => Entered(n) \/ n \in d.rest
    BY <1>2, <2>2 DEF GoodBatch
  <2>5. Good(e)
    BY <1>2, <1>13, <2>1, <2>3, <2>4
  <2>6. QED
    BY <1>5, <2>5
<1>16. CASE d.at = "marking" /\ Forwarded(d, e)
  <2>1. GoodBatch(d) /\ Entered(d.hand)
    BY <1>6, <1>16 DEF GoodBatch
  <2>2. Good(e)
    BY <1>4, <1>8, <1>16, <2>1
  <2>3. QED
    BY <1>5, <2>2
<1>17. QED
  BY <1>1, <1>7, <1>10, <1>11, <1>12, <1>14, <1>15, <1>16 DEF HeadMoved

\* No message overtakes another on its way to the teammate.
LEMMA QueueOrderStep ==
  ASSUME MailboxInv, WaitingInv, SendInv, BatchInv, QueueOrderKept, [Next]_vars, ~Crash
  PROVE  QueueOrderKept'
<1>1. /\ DOMAIN target = 1 .. Len(target) /\ DOMAIN target' = 1 .. Len(target')
      /\ Len(target) \in Nat /\ Len(target') \in Nat /\ Len(target) <= Len(target')
      /\ target \in Seq(TargetEvents) /\ Message \subseteq Nat
      /\ \A i \in DOMAIN target : target'[i] = target[i]
  BY TargetGrows, Shapes DEF GrowsOnly
<1> SUFFICES ASSUME NEW i \in DOMAIN target', target'[i].kind = "inserted",
                    NEW m \in Message, m < target'[i].msg, QueuedInLead(m)'
             PROVE  \E j \in 1 .. i - 1 : target'[j] = Event("inserted", m)
  BY DEF QueueOrderKept, QueuedInLead
<1>2. CASE i \in DOMAIN target
  <2>1. target'[i] = target[i] /\ target[i] \in TargetEvents
    BY <1>1, <1>2, ElementOfSeq
  <2>2. target[i].msg \in Message /\ target[i] = Event("inserted", target[i].msg)
    BY <1>2, <2>1 DEF MailboxInv, TargetInv, TargetEvents, Event
  <2>3. target[i].msg \in Known
    BY <1>2, <2>2 DEF Known, Entered
  <2>4. QueuedInLead(m)
    <3> SUFFICES ASSUME SendAppends, m = Subject PROVE FALSE
      BY NewlyQueued
    <3>1. \A k \in Known : k < Subject
      BY RunningSend DEF SendAppends, Running
    <3>2. target'[i].msg \in Nat /\ m \in Nat /\ target'[i].msg < m
      BY <1>1, <2>1, <2>2, <2>3, <3>1
    <3>3. QED
      BY <3>2
  <2>5. PICK j \in 1 .. i - 1 : target[j] = Event("inserted", m)
    BY <1>2, <2>1, <2>4 DEF QueueOrderKept, QueuedInLead
  <2>6. j \in DOMAIN target
    BY <1>1, <1>2, <2>5
  <2>7. QED
    BY <1>1, <2>5, <2>6
<1>3. CASE i \notin DOMAIN target
  <2>1. Steer
    BY <1>3, NewEntries
  <2>2. target' = Append(target, Event("inserted", InHand)) /\ UNCHANGED lead /\ At("steering")
    BY <2>1 DEF Steer, leadVars
  <2>3. i = Len(target) + 1 /\ target'[i] = Event("inserted", InHand)
    BY <1>1, <1>3, <2>2
  <2>4. m < InHand
    BY <2>3 DEF Event
  <2>5. QueuedInLead(m)
    BY <2>2 DEF QueuedInLead, Has
  <2> DEFINE d == Head(dispatches)
  <2>6. dispatches # <<>> /\ GoodBatch(d) /\ d.hand = InHand
    BY <2>2 DEF BatchInv, At, InHand
  <2>7. d \in Dispatches
    BY <2>6, OwnMessage
  <2>8. InHand <= d.msg /\ InHand \in Nat /\ d.msg \in Nat
    <3>1. d.msg \in Nat
      BY <1>1, <2>7 DEF Dispatches
    <3>2. InHand \in 0 .. d.msg
      BY <2>6 DEF GoodBatch
    <3>3. QED
      BY <3>1, <3>2
  <2>9. m \in 1 .. d.msg /\ m \notin d.rest \union {d.hand}
    <3>1. m \in Nat /\ m >= 1
      BY DEF Message
    <3>2. d.rest \subseteq Nat
      BY <1>1, <2>7 DEF Dispatches
    <3>3. QED
      BY <2>4, <2>6, <2>8, <3>1, <3>2 DEF GoodBatch
  <2>10. Entered(m)
    BY <2>5, <2>6, <2>9 DEF GoodBatch
  <2>11. PICK j \in DOMAIN target : target[j] = Event("inserted", m)
    BY <2>10 DEF Entered
  <2>12. QED
    BY <1>1, <2>3, <2>11
<1>4. QED
  BY <1>2, <1>3

-----------------------------------------------------------------------------
(* Crashes, and the theorems.                                              *)

\* A crash leaves a prefix of either log, and no work.
LEMMA OrderCrash ==
  ASSUME MailboxInv, OrderInv, Crash
  PROVE  OrderInv'
<1>1. /\ target \in Seq(TargetEvents) /\ DOMAIN target = 1 .. Len(target) /\ Len(target) \in Nat
      /\ lead \in Seq(LeadEvents) /\ DOMAIN lead = 1 .. Len(lead) /\ Len(lead) \in Nat
      /\ leadStored \in 0 .. Len(lead) /\ targetStored \in 0 .. Len(target)
  BY Shapes DEF MailboxInv, WorkInv
<1>2. PICK n \in leadStored .. Len(lead), k \in targetStored .. Len(target) :
         lead' = Prefix(lead, n) /\ target' = Prefix(target, k) /\ targetStored' = k
  BY DEF Crash
<1>3. /\ DOMAIN target' = 1 .. k /\ Len(target') = k /\ k \in Nat
      /\ \A i \in 1 .. k : i \in DOMAIN target /\ target'[i] = target[i]
      /\ DOMAIN lead' = 1 .. n /\ \A i \in 1 .. n : i \in DOMAIN lead /\ lead'[i] = lead[i]
  BY <1>1, <1>2 DEF Prefix
<1>4. /\ dispatches' = <<>> /\ transactions' = <<>> /\ recoveries' = {Recovery(0)} /\ claimed' = {} /\ sent' = sent
  BY DEF Crash
<1>5. (\A m : QueuedInLead(m)' => QueuedInLead(m)) /\ \A m : Entered(m)' => Entered(m)
  BY <1>3 DEF QueuedInLead, Has, Entered
<1>6. Separated'
  <2> SUFFICES ASSUME NEW i \in 1 .. k, NEW j \in 1 .. k, i < j,
                      target'[i].kind = "inserted", target'[i] = target'[j]
               PROVE  \E l \in i .. j : target'[l].kind = "spliced"
    BY <1>3 DEF Separated
  <2>1. PICK l \in i .. j : target[l].kind = "spliced"
    BY <1>3 DEF OrderInv, CopyInv, Separated
  <2>2. l \in 1 .. k
    BY <1>3
  <2>3. QED
    BY <1>3, <2>1, <2>2
<1>7. CopyInv'
  BY <1>2, <1>3, <1>4, <1>6 DEF CopyInv, At
<1>8. SendInv'
  <2>1. Known' \subseteq Known
    <3> SUFFICES ASSUME NEW m \in Known' PROVE m \in Known
      OBVIOUS
    <3>1. \A r \in recoveries' : m \notin r.rest
      BY <1>4 DEF Recovery
    <3>2. DOMAIN dispatches' = {}
      BY <1>4
    <3>3. QED
      BY <1>5, <3>1, <3>2 DEF Known
  <2>2. QED
    BY <1>4, <2>1 DEF OrderInv, SendInv
<1>9. QueueOrderKept'
  <2> SUFFICES ASSUME NEW i \in 1 .. k, target'[i].kind = "inserted",
                      NEW m \in Message, m < target'[i].msg, QueuedInLead(m)'
               PROVE  \E j \in 1 .. i - 1 : target'[j] = Event("inserted", m)
    BY <1>3 DEF QueueOrderKept, QueuedInLead
  <2>1. PICK j \in 1 .. i - 1 : target[j] = Event("inserted", m)
    BY <1>3, <1>5 DEF OrderInv, QueueOrderKept, QueuedInLead
  <2>2. j \in 1 .. k
    BY <1>3
  <2>3. QED
    BY <1>3, <2>1, <2>2
<1>10. WaitingInv' /\ BatchInv'
  BY <1>4 DEF WaitingInv, BatchInv
<1>11. QED
  BY <1>7, <1>8, <1>9, <1>10 DEF OrderInv

\* What the order of the mailbox rests on holds always.
LEMMA OrderInvariant == Spec => [](MailboxInv /\ OrderInv)
<1>1. Init => OrderInv
  <2> SUFFICES ASSUME Init PROVE OrderInv
    OBVIOUS
  <2>1. /\ target = <<>> /\ lead = <<>> /\ dispatches = <<>> /\ transactions = <<>> /\ recoveries = {}
        /\ claimed = {} /\ live = TRUE /\ sent = 0
    BY DEF Init
  <2>2. DOMAIN target = {} /\ DOMAIN lead = {} /\ DOMAIN dispatches = {} /\ DOMAIN transactions = {}
    BY <2>1
  <2>3. Known = {}
    BY <2>1, <2>2 DEF Known, QueuedInLead, Has, Entered
  <2>4. QED
    BY <2>1, <2>2, <2>3
    DEF OrderInv, CopyInv, Separated, WaitingInv, SendInv, BatchInv, QueueOrderKept, At
<1>2. MailboxInv /\ OrderInv /\ [Next]_vars => OrderInv'
  <2> SUFFICES ASSUME MailboxInv, OrderInv, [Next]_vars PROVE OrderInv'
    OBVIOUS
  <2>1. CASE Crash
    BY <2>1, OrderCrash
  <2>2. CASE ~Crash
    <3>1. CopyInv' /\ WaitingInv'
      BY <2>2, CopyStep, HeadMoves DEF OrderInv
    <3>2. SendInv' /\ BatchInv' /\ QueueOrderKept'
      BY <2>2, SendStep, BatchStep, QueueOrderStep DEF OrderInv
    <3>3. QED
      BY <3>1, <3>2 DEF OrderInv
  <2>3. QED
    BY <2>1, <2>2
<1>3. QED
  BY <1>1, <1>2, MailboxInvariant, PTL DEF Spec

\* Two copies of a message never wait in the teammate's inbox together, however
\* often dispatches, recoveries and crashes retry its delivery.
THEOREM OnePendingCopyAlways == Spec => []OnePendingCopy
<1>1. MailboxInv /\ OrderInv => OnePendingCopy
  <2> SUFFICES ASSUME MailboxInv, OrderInv, NEW i \in Inbox(target), NEW j \in Inbox(target),
                      target[i].msg = target[j].msg, i # j
               PROVE  FALSE
    BY DEF OnePendingCopy
  <2>1. /\ target \in Seq(TargetEvents) /\ DOMAIN target = 1 .. Len(target) /\ Len(target) \in Nat
    BY Shapes
  <2>2. ASSUME NEW a \in Inbox(target), NEW b \in Inbox(target), target[a].msg = target[b].msg, a < b
        PROVE  FALSE
    <3>1. /\ a \in DOMAIN target /\ b \in DOMAIN target /\ target[a].kind = "inserted" /\ target[b].kind = "inserted"
          /\ \A k \in a .. Len(target) : target[k].kind # "spliced"
      BY DEF Inbox
    <3>2. target[a] = target[b]
      <4>1. target[a] \in TargetEvents /\ target[b] \in TargetEvents
        BY <2>1, <3>1, ElementOfSeq
      <4>2. QED
        BY <2>2, <3>1, <4>1 DEF TargetEvents
    <3>3. PICK k \in a .. b : target[k].kind = "spliced"
      BY <2>2, <3>1, <3>2 DEF OrderInv, CopyInv, Separated
    <3>4. k \in a .. Len(target)
      BY <2>1, <3>1, <3>3
    <3>5. QED
      BY <3>1, <3>3, <3>4
  <2>3. i \in Nat /\ j \in Nat
    BY <2>1 DEF Inbox
  <2>4. QED
    BY <2>2, <2>3
<1>2. QED
  BY OrderInvariant, <1>1, PTL

\* A message enters the teammate's log only after every earlier message that is
\* queued, unless a crash has forgotten that message's record.
THEOREM QueueOrderAlwaysKept == Spec => []QueueOrderKept
<1>1. OrderInv => QueueOrderKept
  BY DEF OrderInv
<1>2. QED
  BY OrderInvariant, <1>1, PTL

=============================================================================
