---------------------------- MODULE TeamMailbox ----------------------------
(***************************************************************************)
(* The durable team mailbox (packages/experimental/agent-team/src/         *)
(* mailbox.ts, journal.ts, session-message.ts): messages to one teammate,  *)
(* queued in the lead's log, steered into the teammate's inbox, and marked *)
(* delivered in the lead's log.                                            *)
(*                                                                         *)
(* The process runs four kinds of coroutines over the two logs: the lead's *)
(* transactions, one at a time; the dispatches to the teammate, one at a   *)
(* time; the acknowledgements of messages the model has seen; and the      *)
(* recoveries started with an agent.  A crash keeps a prefix of each log.  *)
(***************************************************************************)
EXTENDS Integers, Sequences, FiniteSets

CONSTANTS
    MaxMessage,        \* bound: the messages sent
    MaxPending,        \* maxPendingMessagesPerMember
    MaxFault           \* bound: failed steps, releases of the teammate and crashes

ASSUME MailboxAssumption ==
    MaxMessage \in Nat /\ MaxPending \in Nat \ {0} /\ MaxFault \in Nat

\* Message ids are fresh.  The n-th send sends message n: sends pass the lead's
\* queue one by one, so the mailbox is in the order of these numbers.
Message == 1 .. MaxMessage
None == 0

VARIABLES
    lead, leadStored,      \* the lead's log, and how much of it is on disk
    target, targetStored,  \* the teammate's log, and how much of it is on disk
    live, claimed,         \* the teammate runs; the inserted events its driver has claimed
    sent,                  \* the number of sends
    transactions,          \* the lead's transaction queue, the running one first
    dispatches,            \* the teammate's dispatch queue, the running one first
    acks,                  \* checkpoints of messages that entered the history
    recoveries,            \* the recovery passes, one per agent start
    retired, faults        \* the times the teammate was released, and all faults

leadVars == <<lead, leadStored>>
targetVars == <<target, targetStored, live, claimed>>
faultVars == <<retired, faults>>
vars == <<leadVars, targetVars, sent, transactions, dispatches, acks, recoveries, faultVars>>

Init ==
    /\ lead = <<>> /\ leadStored = 0
    /\ target = <<>> /\ targetStored = 0 /\ live = TRUE /\ claimed = {}
    /\ sent = 0 /\ transactions = <<>> /\ dispatches = <<>> /\ acks = {} /\ recoveries = {}
    /\ retired = 0 /\ faults = 0

-----------------------------------------------------------------------------
(* What the logs say.                                                      *)

Event(kind, m) == [kind |-> kind, msg |-> m]
Has(log, kind, m) == \E i \in DOMAIN log : log[i] = Event(kind, m)
Prefix(log, n) == SubSeq(log, 1, n)

\* Queued minus delivered.
Undelivered == {m \in Message : Has(lead, "queued", m) /\ ~Has(lead, "delivered", m)}

\* The inserted events still in the inbox.  A steered message waits in the
\* next-step list, which a claim takes whole.
Inbox(log) == {i \in DOMAIN log : /\ log[i].kind = "inserted"
                                  /\ \A j \in i .. Len(log) : log[j].kind # "spliced"}

\* Mutant: a message counts once the model has seen it.
InHistory(log, m) == Has(log, "user", m)
\* messageAccepted: in the history, or still in the inbox.
Accepted(log, m) == Has(log, "user", m) \/ \E i \in Inbox(log) : log[i].msg = m

-----------------------------------------------------------------------------
(* Dispatches and the lead's transactions, both one at a time, in order.   *)

Transaction(kind, m) == [kind |-> kind, msg |-> m, flushing |-> FALSE]

\* A dispatch for msg: the message in hand, those it goes on to, the session it
\* found live (0 if none), and what its flush covers.
NewDispatch(m) == [msg |-> m, at |-> "start", hand |-> None, rest |-> {}, session |-> 0, upTo |-> 0]
InHand == Head(dispatches).hand

\* tryDispatch answers false for a message that some dispatch has in flight.
InFlight(m) == \E i \in DOMAIN dispatches : m \in {dispatches[i].msg, dispatches[i].hand}
TryDispatch(m) == IF InFlight(m) THEN dispatches ELSE Append(dispatches, NewDispatch(m))

\* The running dispatch changes, goes on to its next message, or ends.
Becomes(op) == [dispatches EXCEPT ![1] = op]
NextInHand == IF Head(dispatches).rest = {} THEN Tail(dispatches)
              ELSE Becomes([Head(dispatches) EXCEPT !.at = "next", !.hand = None])
GiveUp == Tail(dispatches)

\* A recovery pass, with the message it waits for and those that follow.
Recovery(start) == [start |-> start, begun |-> FALSE, hand |-> None, rest |-> {}]

\* A step that fails, or is aborted.
Fault == faults < MaxFault /\ faults' = faults + 1
Failing == Fault /\ UNCHANGED retired

Send ==
    /\ sent < MaxMessage /\ sent' = sent + 1
    /\ transactions' = Append(transactions, Transaction("send", sent'))
    /\ UNCHANGED <<leadVars, targetVars, dispatches, acks, recoveries, faultVars>>

\* The running transaction: its kind and message, before and after its append.
Running(kinds, flushing) ==
    transactions # <<>> /\ Head(transactions).kind \in kinds /\ Head(transactions).flushing = flushing
Subject == Head(transactions).msg
Appends(kind) ==
    /\ lead' = Append(lead, Event(kind, Subject))
    /\ transactions' = [transactions EXCEPT ![1].flushing = TRUE]
    /\ UNCHANGED <<leadStored, targetVars, sent, dispatches, acks, recoveries, faultVars>>

SendAppends ==
    /\ Running({"send"}, FALSE) /\ Cardinality(Undelivered) < MaxPending
    /\ Appends("queued")

\* TEAM_MAILBOX_FULL, or the caller has aborted.
SendRejected ==
    /\ Running({"send"}, FALSE)
    /\ IF Cardinality(Undelivered) < MaxPending THEN Failing ELSE UNCHANGED faultVars
    /\ transactions' = Tail(transactions)
    /\ UNCHANGED <<leadVars, targetVars, sent, dispatches, acks, recoveries>>

\* markDelivered, on behalf of a dispatch ("mark") or an acknowledgement ("ack").
Markable(m) == Has(lead, "queued", m) /\ ~Has(lead, "delivered", m)

MarkAppends ==
    /\ Running({"mark", "ack"}, FALSE) /\ Markable(Subject)
    /\ Appends("delivered")

\* Mutant: the send awaits its dispatch inside the transaction.
SendKeepsLead == [transactions EXCEPT ![1].kind = "sending"]
SendLeaves == Tail(transactions)

\* The send registers its dispatch before it releases the lead's queue.
SendFlushed ==
    /\ Running({"send"}, TRUE)
    /\ leadStored' = Len(lead)
    /\ dispatches' = TryDispatch(Subject) /\ transactions' = SendLeaves
    /\ UNCHANGED <<lead, targetVars, sent, acks, recoveries, faultVars>>

\* The record is written, or there is nothing to record.
Marked ==
    /\ \/ Running({"mark", "ack"}, TRUE) /\ leadStored' = Len(lead)
       \/ Running({"mark", "ack"}, FALSE) /\ ~Markable(Subject) /\ UNCHANGED leadStored
    /\ transactions' = Tail(transactions)
    /\ dispatches' = IF Head(transactions).kind = "mark" THEN NextInHand ELSE dispatches
    /\ UNCHANGED <<lead, targetVars, sent, acks, recoveries, faultVars>>

\* The flush rejects; the event stays in the live log.
TransactionFails ==
    /\ Running({"send", "mark", "ack"}, TRUE) /\ Failing
    /\ transactions' = Tail(transactions)
    /\ dispatches' = IF Head(transactions).kind = "mark" THEN GiveUp ELSE dispatches
    /\ UNCHANGED <<leadVars, targetVars, sent, acks, recoveries>>

-----------------------------------------------------------------------------
(* The running dispatch.                                                   *)

At(label) == dispatches # <<>> /\ Head(dispatches).at = label

\* Mutant: a dispatch takes its own message only.
OnlyOwn(m) == {m}
\* Every undelivered message up to m.
Through(m) == {n \in Undelivered : n <= m}

\* dispatchOnce up to its first await, for the earliest message: a live target
\* that has it is only checkpointed, one that has not is steered, and the
\* stored log of a cold one is read first.
Begin(messages) ==
    \E m \in messages :
        /\ \A n \in messages : m <= n
        /\ LET op == [Head(dispatches) EXCEPT !.hand = m, !.rest = messages \ {m}]
           IN  \/ ~live /\ dispatches' = Becomes([op EXCEPT !.at = "reading", !.session = 0])
               \/ /\ live /\ Accepted(target, m)
                  /\ dispatches' = Becomes([op EXCEPT !.at = "flushing", !.session = 0, !.upTo = Len(target)])
               \/ /\ live /\ ~Accepted(target, m)
                  /\ dispatches' = Becomes([op EXCEPT !.at = "steering", !.session = retired + 1])

DispatchStarts ==
    /\ At("start")
    /\ IF Head(dispatches).msg \in Undelivered THEN Begin(Through(Head(dispatches).msg))
       ELSE dispatches' = GiveUp
    /\ UNCHANGED <<leadVars, targetVars, sent, transactions, acks, recoveries, faultVars>>

DispatchNext ==
    /\ At("next") /\ Begin(Head(dispatches).rest)
    /\ UNCHANGED <<leadVars, targetVars, sent, transactions, acks, recoveries, faultVars>>

Marking ==
    /\ transactions' = Append(transactions, Transaction("mark", InHand))
    /\ dispatches' = Becomes([Head(dispatches) EXCEPT !.at = "marking", !.upTo = 0])

ReadStored ==
    /\ At("reading")
    /\ IF Accepted(Prefix(target, targetStored), InHand) THEN Marking
       ELSE dispatches' = Becomes([Head(dispatches) EXCEPT !.at = "steering"]) /\ UNCHANGED transactions
    /\ UNCHANGED <<leadVars, targetVars, sent, acks, recoveries, faultVars>>

\* steerHostSubagentPrompt resumes a cold teammate, whose start begins a
\* recovery.  A message to one that was cold is acknowledged by its admission
\* alone; the checkpoint of a session that is gone rejects.
Steer ==
    /\ At("steering")
    /\ target' = Append(target, Event("inserted", InHand)) /\ live' = TRUE
    /\ recoveries' = IF live THEN recoveries ELSE recoveries \union {Recovery(retired + 1)}
    /\ dispatches' = IF Head(dispatches).session = 0 THEN NextInHand
                     ELSE IF live /\ Head(dispatches).session = retired + 1
                     THEN Becomes([Head(dispatches) EXCEPT !.at = "flushing", !.session = 0, !.upTo = Len(target')])
                     ELSE GiveUp
    /\ UNCHANGED <<leadVars, targetStored, claimed, sent, transactions, acks, faultVars>>

\* Mutant: the checkpoint does not wait for the flush.
UnflushedStore(n) == targetStored
\* A flush stores at least what the log held at its call.
Flushed(n) == IF n > targetStored THEN n ELSE targetStored

Checkpoint ==
    /\ At("flushing") /\ targetStored' = Flushed(Head(dispatches).upTo)
    /\ IF Accepted(target, InHand) THEN Marking ELSE dispatches' = GiveUp /\ UNCHANGED transactions
    /\ UNCHANGED <<leadVars, target, live, claimed, sent, acks, recoveries, faultVars>>

\* A read, a resume, a steer or a flush rejects, or is aborted.
DispatchFails ==
    /\ At("reading") \/ At("steering") \/ At("flushing")
    /\ Failing /\ dispatches' = GiveUp
    /\ UNCHANGED <<leadVars, targetVars, sent, transactions, acks, recoveries>>

-----------------------------------------------------------------------------
(* The teammate's driver, and the acknowledgements of what it admits.      *)

Claim ==
    /\ live /\ claimed = {} /\ Inbox(target) # {}
    /\ claimed' = Inbox(target) /\ target' = Append(target, Event("spliced", None))
    /\ UNCHANGED <<leadVars, targetStored, live, sent, transactions, dispatches, acks, recoveries, faultVars>>

\* The step enters, in the order of the inbox: observeSessionEvent starts a
\* checkpoint for every message.
Admit ==
    /\ claimed # {} /\ claimed' = {}
    /\ \E batch \in [1 .. Cardinality(claimed) -> claimed] :
          /\ \A i, j \in DOMAIN batch : i < j => batch[i] < batch[j]
          /\ target' = target \o [i \in DOMAIN batch |-> Event("user", target[batch[i]].msg)]
    /\ acks' = acks \union {[msg |-> target[i].msg, upTo |-> Len(target')] : i \in claimed}
    /\ UNCHANGED <<leadVars, targetStored, live, sent, transactions, dispatches, recoveries, faultVars>>

\* The pre-step rejects or the turn is aborted: claimed work is not requeued.
ClaimDropped ==
    /\ claimed # {} /\ claimed' = {} /\ Failing
    /\ UNCHANGED <<leadVars, target, targetStored, live, sent, transactions, dispatches, acks, recoveries>>

AckFlushed(a) ==
    /\ acks' = acks \ {a} /\ targetStored' = Flushed(a.upTo)
    /\ transactions' = Append(transactions, Transaction("ack", a.msg))
    /\ UNCHANGED <<leadVars, target, live, claimed, sent, dispatches, recoveries, faultVars>>

AckFails(a) ==
    /\ acks' = acks \ {a} /\ Failing
    /\ UNCHANGED <<leadVars, targetVars, sent, transactions, dispatches, recoveries>>

\* The activation is released: its close drains the log, behind any flush.
Retire ==
    /\ live /\ ~At("flushing") /\ acks = {}
    /\ Fault /\ retired' = retired + 1
    /\ live' = FALSE /\ claimed' = {} /\ targetStored' = Len(target)
    /\ UNCHANGED <<leadVars, target, sent, transactions, dispatches, acks, recoveries>>

\* Somebody else resumes the teammate.
TargetStarts ==
    /\ ~live /\ live' = TRUE
    /\ recoveries' = recoveries \union {Recovery(retired + 1)}
    /\ UNCHANGED <<leadVars, target, targetStored, claimed, sent, transactions, dispatches, acks, faultVars>>

-----------------------------------------------------------------------------
(* recoverFor, and the crash it is for.                                    *)

\* The pass goes through its messages, awaiting each dispatch it starts;
\* those in flight are passed over.
GoesThrough(r, messages) ==
    LET idle == {m \in messages : ~InFlight(m)}
    IN  \/ /\ idle = {}
           /\ recoveries' = recoveries \ {r} /\ UNCHANGED dispatches
        \/ \E m \in idle :
              /\ \A n \in idle : m <= n
              /\ dispatches' = TryDispatch(m)
              /\ recoveries' = (recoveries \ {r}) \union
                     {[r EXCEPT !.begun = TRUE, !.hand = m, !.rest = {n \in messages : n > m}]}

RecoveryBegins(r) ==
    /\ ~r.begun /\ GoesThrough(r, Undelivered)
    /\ UNCHANGED <<leadVars, targetVars, sent, transactions, acks, faultVars>>

RecoveryGoesOn(r) ==
    /\ r.begun /\ \A i \in DOMAIN dispatches : dispatches[i].msg # r.hand
    /\ GoesThrough(r, r.rest)
    /\ UNCHANGED <<leadVars, targetVars, sent, transactions, acks, faultVars>>

\* Either log keeps what was stored and any part of what was on its way; the
\* lead is resumed, which starts a recovery.
Crash ==
    /\ Fault
    /\ \E n \in leadStored .. Len(lead), k \in targetStored .. Len(target) :
          /\ lead' = Prefix(lead, n) /\ leadStored' = n
          /\ target' = Prefix(target, k) /\ targetStored' = k
    /\ live' = FALSE /\ claimed' = {}
    /\ transactions' = <<>> /\ dispatches' = <<>> /\ acks' = {} /\ recoveries' = {Recovery(0)}
    /\ UNCHANGED <<sent, retired>>

-----------------------------------------------------------------------------
Journal == SendAppends \/ SendRejected \/ MarkAppends \/ SendFlushed \/ Marked \/ TransactionFails
Dispatch == DispatchStarts \/ DispatchNext \/ ReadStored \/ Steer \/ Checkpoint \/ DispatchFails
Acknowledgement == \E a \in acks : AckFlushed(a) \/ AckFails(a)
Driver == Claim \/ Admit \/ ClaimDropped
RecoveryStep == \E r \in recoveries : RecoveryBegins(r) \/ RecoveryGoesOn(r)

Next ==
    \/ Send \/ Journal \/ Dispatch \/ Acknowledgement \/ Driver \/ RecoveryStep
    \/ Retire \/ TargetStarts \/ Crash

Spec == Init /\ [][Next]_vars

\* The running transaction and the running dispatch go on: flushes, reads and
\* resumes settle, one way or the other.
FairSpec == Spec /\ WF_vars(Journal) /\ WF_vars(Dispatch)

-----------------------------------------------------------------------------
(* Properties.                                                             *)

Labels == {"start", "next", "reading", "steering", "flushing", "marking"}
TypeOK ==
    /\ lead \in Seq([kind : {"queued", "delivered"}, msg : Message]) /\ leadStored \in 0 .. Len(lead)
    /\ target \in Seq([kind : {"inserted", "spliced", "user"}, msg : Message \union {None}])
    /\ targetStored \in 0 .. Len(target)
    /\ live \in BOOLEAN /\ claimed \subseteq DOMAIN target /\ sent \in 0 .. MaxMessage
    /\ transactions \in Seq([kind : {"send", "mark", "ack"}, msg : Message, flushing : BOOLEAN])
    /\ dispatches \in Seq([msg : Message, at : Labels, hand : Message \union {None}, rest : SUBSET Message,
                           session : Nat, upTo : Nat])
    /\ acks \subseteq [msg : Message, upTo : Nat]
    /\ recoveries \subseteq [start : Nat, begun : BOOLEAN, hand : Message \union {None}, rest : SUBSET Message]
    /\ faults \in 0 .. MaxFault /\ retired \in 0 .. faults

\* "A target receipt is acknowledged ... only after the target Session durably
\* holds the message identity" (README.md): what the lead records as delivered
\* is in the part of the target's log that a crash keeps.
AcknowledgedIsStored ==
    \A m \in Message : Has(lead, "delivered", m) => Has(Prefix(target, targetStored), "inserted", m)

\* "Delivery ... does not duplicate the message": no two copies of a message
\* wait in the inbox, whatever crashes and retries came before.
OnePendingCopy == \A i, j \in Inbox(target) : target[i].msg = target[j].msg => i = j

\* Messages reach the teammate in the order of the mailbox: before one is
\* inserted, every earlier one has been, unless a crash has forgotten it.
QueueOrderKept ==
    \A i \in DOMAIN target : target[i].kind = "inserted" =>
        \A m \in Message : m < target[i].msg /\ Has(lead, "queued", m) =>
            \E j \in 1 .. i - 1 : target[j] = Event("inserted", m)

\* Every transaction and every dispatch ends: a dispatch needs the lead's
\* queue for its delivered record, and nobody holds that queue for a dispatch.
Idle == transactions = <<>> /\ dispatches = <<>>
MailboxSettles == ~Idle ~> Idle

\* "target-Session de-duplication" (README.md): the model sees a message once.
SeenOnce == \A i, j \in DOMAIN target : target[i].kind = "user" /\ target[i] = target[j] => i = j

=============================================================================
