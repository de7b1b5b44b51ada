-------------------------- MODULE CrashRepair_proofs --------------------------
(***************************************************************************)
(* Proofs about CrashRepair, for every number of turns, steps, calls,      *)
(* events and crashes: what a resumed session's log has become.            *)
(***************************************************************************)
EXTENDS CrashRepair, SequenceTheorems, FiniteSetTheorems, WellFoundedInduction, TLAPS

-----------------------------------------------------------------------------
(* Induction over the length of a log: the two folds.                      *)

\* A nonempty set of numbers has a least one.
LEMMA Least ==
    ASSUME NEW X, X \subseteq Nat, X # {}
    PROVE  \E x \in X : \A y \in X : x <= y
<1>1. \E x \in X : \A y \in X : ~ (<<y, x>> \in OpToRel(<, Nat))
  BY NatLessThanWellFounded, WFMin, Zenon
<1>2. \A x, y \in Nat : <<y, x>> \in OpToRel(<, Nat) <=> y < x
  BY Zenon DEF OpToRel
<1>3. \E x \in X : \A y \in X : ~(y < x)
  BY <1>1, <1>2, Zenon
<1>4. QED
  BY <1>3

\* Induction, over the set of numbers that have a property.
LEMMA Induct ==
    ASSUME NEW I, 0 \in I, \A n \in Nat : n \in I => n + 1 \in I
    PROVE  \A n \in Nat : n \in I
<1> DEFINE X == {n \in Nat : n \notin I}
<1>1. SUFFICES ASSUME X # {} PROVE FALSE
  BY <1>1
<1>2. PICK x \in X : \A y \in X : x <= y
  BY <1>1, Least
<1>3. x # 0 /\ x - 1 \in Nat /\ x - 1 \notin X
  BY <1>2
<1>4. QED
  BY <1>3

\* f is the scan after each of the first n events.
ScanFold(f, events, n) == f = [i \in 0..n |-> IF i = 0 THEN NothingOpen ELSE Scan(f[i - 1], events[i])]

\* There is one, and its value after k events depends on those alone.
LEMMA ScanFoldExists ==
    ASSUME NEW events, NEW N \in Nat
    PROVE  \E f : ScanFold(f, events, N)
<1> DEFINE I == {n \in Nat : \E f : ScanFold(f, events, n)}
<1>1. 0 \in I
  <2>1. ScanFold([i \in 0..0 |-> NothingOpen], events, 0)
    BY DEF ScanFold
  <2>2. QED
    BY <2>1
<1>2. ASSUME NEW n \in Nat, n \in I PROVE n + 1 \in I
  <2>1. PICK f : ScanFold(f, events, n)
    BY <1>2
  <2> DEFINE g == [i \in 0..n + 1 |-> IF i = n + 1 THEN Scan(f[n], events[n + 1]) ELSE f[i]]
  <2>2. ASSUME NEW i \in 0..n + 1 PROVE g[i] = IF i = 0 THEN NothingOpen ELSE Scan(g[i - 1], events[i])
    <3>1. CASE i = n + 1
      <4>1. i # 0 /\ i - 1 = n /\ n \in 0..n + 1 /\ n # n + 1
        BY <3>1
      <4>2. QED
        BY <3>1, <4>1
    <3>2. CASE i # n + 1
      <4>1. i \in 0..n /\ (i # 0 => i - 1 \in 0..n + 1 /\ i - 1 # n + 1)
        BY <3>2
      <4>2. f[i] = IF i = 0 THEN NothingOpen ELSE Scan(f[i - 1], events[i])
        BY <2>1, <4>1 DEF ScanFold
      <4>3. QED
        BY <3>2, <4>1, <4>2
    <3>3. QED
      BY <3>1, <3>2
  <2>3. ScanFold(g, events, n + 1)
    <3>1. g = [i \in 0..n + 1 |-> g[i]]
      OBVIOUS
    <3> HIDE DEF g
    <3>2. QED
      BY <2>2, <3>1 DEF ScanFold
  <2>4. QED
    BY <2>3
<1> HIDE DEF I
<1>3. N \in I
  BY <1>1, <1>2, Induct
<1>4. QED
  BY <1>3 DEF I

\* Two scans of logs that begin alike agree as far as the logs do.
LEMMA ScanFoldUnique ==
    ASSUME NEW a, NEW b, NEW f, NEW g, NEW n \in Nat, NEW k \in Nat, k <= n,
           ScanFold(f, a, n), ScanFold(g, b, k), \A i \in 1..k : a[i] = b[i]
    PROVE  f[k] = g[k]
<1> DEFINE I == {i \in Nat : i <= k => f[i] = g[i]}
<1>1. 0 \in I
  BY DEF ScanFold
<1>2. ASSUME NEW i \in Nat, i \in I PROVE i + 1 \in I
  <2> SUFFICES ASSUME i + 1 <= k PROVE f[i + 1] = g[i + 1]
    OBVIOUS
  <2>1. i + 1 \in 0..n /\ i + 1 \in 0..k /\ i + 1 # 0 /\ (i + 1) - 1 = i /\ i + 1 \in 1..k
    OBVIOUS
  <2>2. f[i] = g[i]
    BY <1>2
  <2>3. f[i + 1] = Scan(f[i], a[i + 1]) /\ g[i + 1] = Scan(g[i], b[i + 1])
    BY <2>1 DEF ScanFold
  <2>4. QED
    BY <2>1, <2>2, <2>3
<1> HIDE DEF I
<1>3. k \in I
  BY <1>1, <1>2, Induct
<1>4. QED
  BY <1>3 DEF I

\* Scanned is the scan after the last event.
LEMMA ScannedIsFold ==
    ASSUME NEW events, Len(events) \in Nat
    PROVE  \E f : ScanFold(f, events, Len(events)) /\ Scanned(events) = f[Len(events)]
<1> DEFINE scan == CHOOSE f : ScanFold(f, events, Len(events))
<1>1. ScanFold(scan, events, Len(events))
  BY ScanFoldExists
<1>2. Scanned(events) = scan[Len(events)]
  BY DEF Scanned, ScanFold
<1>3. QED
  BY <1>1, <1>2

\* The scan of an empty log, and of one with another event.
LEMMA ScannedAppend ==
    ASSUME NEW S, NEW s \in Seq(S), NEW e \in S
    PROVE  Scanned(<<>>) = NothingOpen /\ Scanned(Append(s, e)) = Scan(Scanned(s), e)
<1>1. Scanned(<<>>) = NothingOpen
  <2>1. PICK f : ScanFold(f, <<>>, 0) /\ Scanned(<<>>) = f[0]
    BY ScannedIsFold
  <2>2. QED
    BY <2>1 DEF ScanFold
<1> DEFINE a == Append(s, e)
           n == Len(s)
<1>2. n \in Nat /\ Len(a) = n + 1 /\ a[n + 1] = e /\ \A i \in 1..n : a[i] = s[i]
  BY AppendProperties, LenProperties
<1> HIDE DEF a
<1>3. PICK f : ScanFold(f, a, n + 1) /\ Scanned(a) = f[n + 1]
  BY <1>2, ScannedIsFold
<1>4. PICK g : ScanFold(g, s, n) /\ Scanned(s) = g[n]
  BY <1>2, ScannedIsFold
<1> HIDE DEF n
<1>5. f[n] = g[n]
  <2>1. n + 1 \in Nat /\ n <= n + 1
    BY <1>2
  <2>2. QED
    BY <1>2, <1>3, <1>4, <2>1, ScanFoldUnique
<1>6. f[n + 1] = Scan(f[n], a[n + 1])
  <2>1. n + 1 \in 0..n + 1 /\ n + 1 # 0 /\ (n + 1) - 1 = n
    BY <1>2
  <2>2. QED
    BY <1>3, <2>1 DEF ScanFold
<1>7. QED
  BY <1>1, <1>2, <1>3, <1>4, <1>5, <1>6 DEF a

\* f is the cursor after each of the first n events.
CursorFold(f, events, n) == f = [i \in 0..n |-> IF i = 0 THEN T!FreshTrace ELSE T!Apply(f[i - 1], events[i])]

\* As for the scan.
LEMMA CursorFoldExists ==
    ASSUME NEW events, NEW N \in Nat
    PROVE  \E f : CursorFold(f, events, N)
<1> DEFINE I == {n \in Nat : \E f : CursorFold(f, events, n)}
<1>1. 0 \in I
  <2>1. CursorFold([i \in 0..0 |-> T!FreshTrace], events, 0)
    BY DEF CursorFold
  <2>2. QED
    BY <2>1
<1>2. ASSUME NEW n \in Nat, n \in I PROVE n + 1 \in I
  <2>1. PICK f : CursorFold(f, events, n)
    BY <1>2
  <2> DEFINE g == [i \in 0..n + 1 |-> IF i = n + 1 THEN T!Apply(f[n], events[n + 1]) ELSE f[i]]
  <2>2. ASSUME NEW i \in 0..n + 1 PROVE g[i] = IF i = 0 THEN T!FreshTrace ELSE T!Apply(g[i - 1], events[i])
    <3>1. CASE i = n + 1
      <4>1. i # 0 /\ i - 1 = n /\ n \in 0..n + 1 /\ n # n + 1
        BY <3>1
      <4>2. QED
        BY <3>1, <4>1
    <3>2. CASE i # n + 1
      <4>1. i \in 0..n /\ (i # 0 => i - 1 \in 0..n + 1 /\ i - 1 # n + 1)
        BY <3>2
      <4>2. f[i] = IF i = 0 THEN T!FreshTrace ELSE T!Apply(f[i - 1], events[i])
        BY <2>1, <4>1 DEF CursorFold
      <4>3. QED
        BY <3>2, <4>1, <4>2
    <3>3. QED
      BY <3>1, <3>2
  <2>3. CursorFold(g, events, n + 1)
    <3>1. g = [i \in 0..n + 1 |-> g[i]]
      OBVIOUS
    <3> HIDE DEF g
    <3>2. QED
      BY <2>2, <3>1 DEF CursorFold
  <2>4. QED
    BY <2>3
<1> HIDE DEF I
<1>3. N \in I
  BY <1>1, <1>2, Induct
<1>4. QED
  BY <1>3 DEF I

\* Two cursors over logs that begin alike agree as far as the logs do.
LEMMA CursorFoldUnique ==
    ASSUME NEW a, NEW b, NEW f, NEW g, NEW n \in Nat, NEW k \in Nat, k <= n,
           CursorFold(f, a, n), CursorFold(g, b, k), \A i \in 1..k : a[i] = b[i]
    PROVE  f[k] = g[k]
<1> DEFINE I == {i \in Nat : i <= k => f[i] = g[i]}
<1>1. 0 \in I
  BY DEF CursorFold
<1>2. ASSUME NEW i \in Nat, i \in I PROVE i + 1 \in I
  <2> SUFFICES ASSUME i + 1 <= k PROVE f[i + 1] = g[i + 1]
    OBVIOUS
  <2>1. i + 1 \in 0..n /\ i + 1 \in 0..k /\ i + 1 # 0 /\ (i + 1) - 1 = i /\ i + 1 \in 1..k
    OBVIOUS
  <2>2. f[i] = g[i]
    BY <1>2
  <2>3. f[i + 1] = T!Apply(f[i], a[i + 1]) /\ g[i + 1] = T!Apply(g[i], b[i + 1])
    BY <2>1 DEF CursorFold
  <2>4. QED
    BY <2>1, <2>2, <2>3
<1> HIDE DEF I
<1>3. k \in I
  BY <1>1, <1>2, Induct
<1>4. QED
  BY <1>3 DEF I

\* Cursor is the companion's cursor after the last event.
LEMMA CursorIsFold ==
    ASSUME NEW events, Len(events) \in Nat
    PROVE  \E f : CursorFold(f, events, Len(events)) /\ Cursor(events) = f[Len(events)]
<1> DEFINE cursor == CHOOSE f : CursorFold(f, events, Len(events))
<1>1. CursorFold(cursor, events, Len(events))
  BY CursorFoldExists
<1>2. Cursor(events) = cursor[Len(events)]
  BY DEF Cursor, CursorFold
<1>3. QED
  BY <1>1, <1>2

\* The cursor of an empty log, and of one with another event.
LEMMA CursorAppend ==
    ASSUME NEW S, NEW s \in Seq(S), NEW e \in S
    PROVE  Cursor(<<>>) = T!FreshTrace /\ Cursor(Append(s, e)) = T!Apply(Cursor(s), e)
<1>1. Cursor(<<>>) = T!FreshTrace
  <2>1. PICK f : CursorFold(f, <<>>, 0) /\ Cursor(<<>>) = f[0]
    BY CursorIsFold
  <2>2. QED
    BY <2>1 DEF CursorFold
<1> DEFINE a == Append(s, e)
           n == Len(s)
<1>2. n \in Nat /\ Len(a) = n + 1 /\ a[n + 1] = e /\ \A i \in 1..n : a[i] = s[i]
  BY AppendProperties, LenProperties
<1> HIDE DEF a
<1>3. PICK f : CursorFold(f, a, n + 1) /\ Cursor(a) = f[n + 1]
  BY <1>2, CursorIsFold
<1>4. PICK g : CursorFold(g, s, n) /\ Cursor(s) = g[n]
  BY <1>2, CursorIsFold
<1> HIDE DEF n
<1>5. f[n] = g[n]
  <2>1. n + 1 \in Nat /\ n <= n + 1
    BY <1>2
  <2>2. QED
    BY <1>2, <1>3, <1>4, <2>1, CursorFoldUnique
<1>6. f[n + 1] = T!Apply(f[n], a[n + 1])
  <2>1. n + 1 \in 0..n + 1 /\ n + 1 # 0 /\ (n + 1) - 1 = n
    BY <1>2
  <2>2. QED
    BY <1>3, <2>1 DEF CursorFold
<1>7. QED
  BY <1>1, <1>2, <1>3, <1>4, <1>5, <1>6 DEF a

-----------------------------------------------------------------------------
(* What is true of every prefix of the log, a crash's included: of its     *)
(* events ev, the companion's cursor t and the scan s at their end.        *)

Types == {"turn/start", "turn/end", "step/start", "step/end", "assistant/message", "tool/call"} \union ResultTypes
Entries == [type : Types, turn : Nat, step : Nat, call : Nat]
Traces == [openTurn : Nat, openStep : Nat, nextTurn : Nat, nextStep : Nat, pendingCalls : SUBSET Nat,
           last : Entries \union {T!FreshTrace.last}]
Waiting == [call : Nat, step : Nat, started : BOOLEAN]
ScanStates == [openTurn : Nat, openStep : Nat, pending : Seq(Waiting)]

\* Cursor and scan agree on what is open; a call is pending once, in the open
\* step, and the companion expects the result of one that has started.
Distinct(pending) == \A j, k \in DOMAIN pending : pending[j].call = pending[k].call => j = k
Shape(t, s) ==
    /\ t \in Traces /\ s \in ScanStates
    /\ t.openTurn \in {0, t.nextTurn} /\ t.nextTurn > 0 /\ t.openStep \in {0, t.nextStep} /\ t.nextStep > 0
    /\ t.openTurn = 0 => t.openStep = 0
    /\ s.openTurn = t.openTurn /\ s.openStep = t.openStep
    /\ t.openStep = 0 => s.pending = <<>>
    /\ Distinct(s.pending)
    /\ \A p \in ToSet(s.pending) : p.step = t.openStep /\ (p.started => p.call \in t.pendingCalls)

\* Turns and steps are numbered upwards: an event is of the open step or before it.
Reached(t, e) ==
    \/ e.turn < t.nextTurn
    \/ /\ e.turn = t.nextTurn /\ t.openTurn # 0
       /\ e.step < t.nextStep \/ (e.step = t.nextStep /\ t.openStep # 0)

Within(t, e) == t.openStep # 0 /\ e.turn = t.openTurn /\ e.step = t.openStep
SameStep(e, m) == e.turn = m.turn /\ e.step = m.step
IsAnswer(e, m, c) == e.type \in ResultTypes /\ SameStep(e, m) /\ e.call = c
AnswersIn(ev, m, c) == {i \in DOMAIN ev : IsAnswer(ev[i], m, c)}
Answered(ev, m, c) == \E i \in DOMAIN ev : AnswersIn(ev, m, c) = {i}
Pending(s, c) == \E p \in ToSet(s.pending) : p.call = c

\* A call of the open step is pending and unanswered, or answered once; a
\* recorded one is marked started, and expected until it is answered.
OpenCalls(ev, t, s) ==
    \A i \in DOMAIN ev : Within(t, ev[i]) =>
        /\ ev[i].type # "step/end"
        /\ ev[i].type = "assistant/message" => \A c \in 1..ev[i].call :
              IF Pending(s, c) THEN AnswersIn(ev, ev[i], c) = {} ELSE Answered(ev, ev[i], c)
        /\ ev[i].type = "tool/call" =>
              /\ \A p \in ToSet(s.pending) : p.call = ev[i].call => p.started
              /\ ev[i].call \in t.pendingCalls \/ AnswersIn(ev, ev[i], ev[i].call) # {}
        /\ ev[Len(ev)].type = "step/start" => i = Len(ev)
\* What is pending was requested in the open step.
PendingRequested(ev, t, s) ==
    \A p \in ToSet(s.pending) : \E i \in DOMAIN ev :
        Within(t, ev[i]) /\ ev[i].type = "assistant/message" /\ p.call \in 1..ev[i].call

\* A step that ended with nothing pending has one answer for each of its calls.
EndsSettled(ev, j) == ev[j].type = "step/end" /\ Scanned(SubSeq(ev, 1, j - 1)).pending = <<>>
ClosedCalls(ev) ==
    \A i, j \in DOMAIN ev :
        ev[i].type = "assistant/message" /\ EndsSettled(ev, j) /\ SameStep(ev[i], ev[j])
            => \A c \in 1..ev[i].call : Answered(ev, ev[i], c)
MessagesEnd(ev, t) ==
    \A i \in DOMAIN ev : ev[i].type = "assistant/message" =>
        Within(t, ev[i]) \/ \E j \in DOMAIN ev : ev[j].type = "step/end" /\ SameStep(ev[i], ev[j])

SoundAt(ev, t, s) ==
    /\ Shape(t, s) /\ \A i \in DOMAIN ev : Reached(t, ev[i])
    /\ OpenCalls(ev, t, s) /\ PendingRequested(ev, t, s) /\ ClosedCalls(ev) /\ MessagesEnd(ev, t)
Sound(ev) == SoundAt(ev, Cursor(ev), Scanned(ev))

\* Every prefix that a crash can leave is sound.
GoodLog(ev) == ev \in Seq(Entries) /\ \A n \in 0..Len(ev) : Sound(SubSeq(ev, 1, n))

LogInv == GoodLog(log)
\* What the process knows of the log, and what is on disk.
StateInv ==
    /\ mode \in {"live", "down", "repairing"}
    /\ durable \in 0..Len(log)
    /\ mode # "down" => trace = Cursor(log)
    /\ closers = IF mode = "repairing" THEN Closers(log) ELSE <<>>
\* Until the tail is whole nothing is written behind it.
TailInv ==
    /\ tail \in {"whole", "torn", "cut"} /\ loaded \in 0..Len(log)
    /\ tail # "whole" => durable <= loaded
    /\ mode # "live" /\ tail # "whole" => loaded = Len(log)
    /\ mode = "down" => loaded = Len(log) /\ (tail = "whole" => durable = Len(log))
\* What is not yet durable of a repaired log are closers: a crash among them leaves
\* a log that repair completes alike.
RepairsAlike ==
    mode = "repairing" /\ tail = "whole" =>
        \A k \in durable..Len(log) : SubSeq(log, 1, k) \o Closers(SubSeq(log, 1, k)) = log \o closers
\* A step that the live loop has not abandoned has ended with nothing pending.
SettledInv ==
    \A j \in DOMAIN log : log[j].type = "step/end" /\ <<log[j].turn, log[j].step>> \notin abandoned
        => EndsSettled(log, j)
\* The live loop's open step holds nothing that repair has written.
OwnStepInv == mode = "live" => \A i \in DOMAIN log : Within(trace, log[i]) => log[i].type # "tool/not-started"
\* A body runs behind its recorded call, which no crash takes back.
RanInv == \A r \in ran : \E i \in 1..durable : log[i].type = "tool/call" /\ r = <<log[i].turn, log[i].step, log[i].call>>

RepairInv == LogInv /\ StateInv /\ TailInv /\ RepairsAlike /\ SettledInv /\ OwnStepInv /\ RanInv /\ NotStartedNeverRan

-----------------------------------------------------------------------------
(* The pending calls.                                                      *)

\* A sequence without its i-th element.
LEMMA RemoveAtFacts ==
    ASSUME NEW S, NEW s \in Seq(S), NEW i \in 1..Len(s)
    PROVE  /\ RemoveAt(s, i) \in Seq(S) /\ Len(RemoveAt(s, i)) = Len(s) - 1
           /\ \A k \in 1..Len(s) - 1 : RemoveAt(s, i)[k] = IF k < i THEN s[k] ELSE s[k + 1]
<1> DEFINE a == SubSeq(s, 1, i - 1)
           b == SubSeq(s, i + 1, Len(s))
<1>1. Len(s) \in Nat /\ i \in Int /\ \A k \in 1..Len(s) : s[k] \in S
  BY LenProperties, ElementOfSeq
<1>2. a \in Seq(S) /\ Len(a) = i - 1 /\ \A k \in 1..i - 1 : a[k] = s[k]
  <2>1. \A k \in 1..i - 1 : s[k] \in S
    BY <1>1
  <2>2. 1 \in Int /\ i - 1 \in Int
    BY <1>1
  <2>3. /\ a \in Seq(S) /\ Len(a) = (IF 1 <= i - 1 THEN (i - 1) - 1 + 1 ELSE 0)
        /\ \A k \in 1..(i - 1) - 1 + 1 : a[k] = s[1 + k - 1]
    BY <2>1, <2>2, SubSeqProperties
  <2> HIDE DEF a
  <2>4. (i - 1) - 1 + 1 = i - 1 /\ \A k \in 1..i - 1 : 1 + k - 1 = k
    BY <1>1
  <2>5. QED
    BY <1>1, <2>3, <2>4
<1>3. b \in Seq(S) /\ Len(b) = Len(s) - i /\ \A k \in 1..Len(s) - i : b[k] = s[i + k]
  <2>1. \A k \in i + 1..Len(s) : s[k] \in S
    BY <1>1
  <2>2. i + 1 \in Int /\ Len(s) \in Int
    BY <1>1
  <2>3. /\ b \in Seq(S) /\ Len(b) = (IF i + 1 <= Len(s) THEN Len(s) - (i + 1) + 1 ELSE 0)
        /\ \A k \in 1..Len(s) - (i + 1) + 1 : b[k] = s[(i + 1) + k - 1]
    BY <2>1, <2>2, SubSeqProperties
  <2> HIDE DEF b
  <2>4. Len(b) = Len(s) - i
    BY <1>1, <2>3
  <2>5. ASSUME NEW k \in 1..Len(s) - i PROVE b[k] = s[i + k]
    <3>1. k \in 1..Len(s) - (i + 1) + 1 /\ (i + 1) + k - 1 = i + k
      BY <1>1
    <3>2. b[k] = s[(i + 1) + k - 1]
      BY <2>3, <3>1
    <3>3. QED
      BY <3>1, <3>2
  <2>6. QED
    BY <2>3, <2>4, <2>5
<1>4. RemoveAt(s, i) = a \o b
  BY DEF RemoveAt
<1> HIDE DEF a, b
<1>5. /\ a \o b \in Seq(S) /\ Len(a \o b) = Len(s) - 1
      /\ \A k \in 1..Len(s) - 1 : (a \o b)[k] = IF k <= i - 1 THEN a[k] ELSE b[k - (i - 1)]
  <2>1. Len(a) + Len(b) = Len(s) - 1
    BY <1>1, <1>2, <1>3
  <2>2. /\ a \o b \in Seq(S) /\ Len(a \o b) = Len(a) + Len(b)
        /\ \A k \in 1..Len(a) + Len(b) : (a \o b)[k] = IF k <= Len(a) THEN a[k] ELSE b[k - Len(a)]
    BY <1>2, <1>3, ConcatProperties
  <2>3. Len(a) = i - 1
    BY <1>2
  <2>4. QED
    BY <2>1, <2>2, <2>3, Zenon
<1>6. ASSUME NEW k \in 1..Len(s) - 1 PROVE (a \o b)[k] = IF k < i THEN s[k] ELSE s[k + 1]
  <2>1. CASE k < i
    <3>1. k <= i - 1 /\ k \in 1..i - 1
      BY <1>1, <2>1
    <3>2. QED
      BY <1>2, <1>5, <2>1, <3>1
  <2>2. CASE ~(k < i)
    <3>1. ~(k <= i - 1) /\ k - (i - 1) \in 1..Len(s) - i /\ i + (k - (i - 1)) = k + 1
      BY <1>1, <2>2
    <3>2. QED
      BY <1>3, <1>5, <2>2, <3>1
  <2>3. QED
    BY <2>1, <2>2
<1>7. QED
  BY <1>4, <1>5, <1>6

\* Map.delete: the call's entry goes, the others stay in their order.
LEMMA PendingDeleted ==
    ASSUME NEW pending \in Seq(Waiting), Distinct(pending), NEW c
    PROVE  /\ Deleted(pending, c) \in Seq(Waiting) /\ Distinct(Deleted(pending, c))
           /\ ToSet(Deleted(pending, c)) = {p \in ToSet(pending) : p.call # c}
           /\ pending # <<>> /\ c = pending[1].call => Deleted(pending, c) = Tail(pending)
<1>1. Len(pending) \in Nat /\ DOMAIN pending = 1..Len(pending)
  BY LenProperties
<1>2. CASE EntryOf(pending, c) = {}
  <2>1. Deleted(pending, c) = pending /\ \A k \in DOMAIN pending : pending[k].call # c
    BY <1>2 DEF Deleted, EntryOf
  <2>2. pending # <<>> => 1 \in DOMAIN pending
    BY <1>1, EmptySeq
  <2>3. QED
    BY <2>1, <2>2 DEF ToSet
<1>3. CASE EntryOf(pending, c) # {}
  <2> DEFINE i == CHOOSE i \in EntryOf(pending, c) : TRUE
             d == RemoveAt(pending, i)
  <2>1. i \in 1..Len(pending) /\ pending[i].call = c /\ Deleted(pending, c) = d
    BY <1>1, <1>3 DEF Deleted, EntryOf
  <2> HIDE DEF i
  <2>2. /\ d \in Seq(Waiting) /\ Len(d) = Len(pending) - 1
        /\ \A k \in 1..Len(pending) - 1 : d[k] = IF k < i THEN pending[k] ELSE pending[k + 1]
    BY <2>1, RemoveAtFacts
  <2>3. DOMAIN d = 1..Len(pending) - 1
    BY <2>2, LenProperties
  <2> HIDE DEF d
  <2> DEFINE from(k) == IF k < i THEN k ELSE k + 1
  <2>4. ASSUME NEW k \in DOMAIN d PROVE from(k) \in DOMAIN pending /\ from(k) # i /\ d[k] = pending[from(k)]
    BY <1>1, <2>1, <2>2, <2>3
  <2>5. \A j, k \in DOMAIN d : from(j) = from(k) => j = k
    BY <1>1, <2>1, <2>3
  <2>6. ASSUME NEW j \in DOMAIN pending, j # i PROVE \E k \in DOMAIN d : from(k) = j
    <3>1. CASE j < i
      <4>1. j \in DOMAIN d /\ from(j) = j
        BY <1>1, <2>1, <2>3, <3>1
      <4>2. QED
        BY <4>1
    <3>2. CASE j > i
      <4>1. j - 1 \in DOMAIN d /\ from(j - 1) = j
        BY <1>1, <2>1, <2>3, <3>2
      <4>2. QED
        BY <4>1
    <3>3. QED
      BY <1>1, <2>1, <2>6, <3>1, <3>2
  <2> HIDE DEF from
  <2>7. Distinct(d)
    BY <2>4, <2>5 DEF Distinct
  <2>8. \A j \in DOMAIN pending : pending[j].call = c <=> j = i
    BY <1>1, <2>1 DEF Distinct
  <2>9. ToSet(d) = {p \in ToSet(pending) : p.call # c}
    <3>1. ASSUME NEW k \in DOMAIN d PROVE d[k] \in ToSet(pending) /\ d[k].call # c
      BY <2>4, <2>8 DEF ToSet
    <3>2. ASSUME NEW j \in DOMAIN pending, pending[j].call # c PROVE \E k \in DOMAIN d : d[k] = pending[j]
      BY <2>4, <2>6, <2>8, <3>2
    <3>3. QED
      BY <3>1, <3>2 DEF ToSet
  <2>10. ASSUME pending # <<>>, c = pending[1].call PROVE d = Tail(pending)
    <3>1. i = 1 /\ Len(pending) > 0
      <4>1. 1 \in DOMAIN pending
        BY <1>1, <2>1
      <4>2. QED
        BY <1>1, <2>8, <2>10, <4>1
    <3>2. /\ Tail(pending) \in Seq(Waiting) /\ Len(Tail(pending)) = Len(pending) - 1
          /\ \A k \in 1..Len(Tail(pending)) : Tail(pending)[k] = pending[k + 1]
      BY <2>10, HeadTailProperties
    <3>3. \A k \in 1..Len(d) : d[k] = Tail(pending)[k]
      BY <1>1, <2>2, <3>1, <3>2
    <3>4. QED
      BY <2>2, <3>2, <3>3, SeqEqual
  <2>11. QED
    BY <2>1, <2>2, <2>7, <2>9, <2>10
<1>4. QED
  BY <1>2, <1>3

\* A recorded call is marked where it is pending.
LEMMA PendingStarted ==
    ASSUME NEW pending \in Seq(Waiting), Distinct(pending), NEW c
    PROVE  /\ Started(pending, c) \in Seq(Waiting) /\ Distinct(Started(pending, c))
           /\ \A p \in ToSet(Started(pending, c)) : \E q \in ToSet(pending) :
                 p.call = q.call /\ p.step = q.step /\ (p.started <=> q.started \/ q.call = c)
           /\ \A q \in ToSet(pending) : \E p \in ToSet(Started(pending, c)) : p.call = q.call
           /\ pending = <<>> => Started(pending, c) = <<>>
<1>1. /\ Len(pending) \in Nat /\ DOMAIN pending = 1..Len(pending) /\ \A k \in DOMAIN pending : pending[k] \in Waiting
  BY LenProperties, ElementOfSeq
<1> DEFINE d == Started(pending, c)
<1>2. DOMAIN d = DOMAIN pending /\ \A k \in DOMAIN pending : d[k] = [pending[k] EXCEPT !.started = @ \/ pending[k].call = c]
  BY DEF Started
<1>3. ASSUME NEW k \in DOMAIN pending
      PROVE  /\ d[k] \in Waiting /\ d[k].call = pending[k].call /\ d[k].step = pending[k].step
             /\ d[k].started <=> pending[k].started \/ pending[k].call = c
  <2> DEFINE q == pending[k]
  <2>1. q \in Waiting /\ d[k] = [q EXCEPT !.started = @ \/ q.call = c]
    BY <1>1, <1>2
  <2> HIDE DEF q, d
  <2>2. /\ [q EXCEPT !.started = @ \/ q.call = c] \in Waiting
        /\ [q EXCEPT !.started = @ \/ q.call = c].call = q.call
        /\ [q EXCEPT !.started = @ \/ q.call = c].step = q.step
        /\ [q EXCEPT !.started = @ \/ q.call = c].started = (q.started \/ q.call = c)
    BY <2>1 DEF Waiting
  <2>3. QED
    BY <2>1, <2>2 DEF q
<1>4. d \in Seq(Waiting)
  <2>1. d = [k \in 1..Len(pending) |-> d[k]]
    BY <1>1 DEF Started
  <2>2. \A k \in 1..Len(pending) : d[k] \in Waiting
    BY <1>1, <1>3
  <2> HIDE DEF d
  <2>3. [k \in 1..Len(pending) |-> d[k]] \in Seq(Waiting)
    BY <1>1, <2>2
  <2>4. QED
    BY <2>1, <2>3
<1>5. Distinct(d)
  BY <1>2, <1>3 DEF Distinct
<1>6. pending = <<>> => d = <<>>
  BY DEF Started
<1> HIDE DEF d
<1>7. \A p \in ToSet(d) : \E q \in ToSet(pending) :
         p.call = q.call /\ p.step = q.step /\ (p.started <=> q.started \/ q.call = c)
  BY <1>2, <1>3 DEF ToSet
<1>8. \A q \in ToSet(pending) : \E p \in ToSet(d) : p.call = q.call
  BY <1>2, <1>3 DEF ToSet
<1>9. QED
  BY <1>4, <1>5, <1>6, <1>7, <1>8 DEF d

\* A message's calls are pending in its step, none of them started.
LEMMA PendingRequests ==
    ASSUME NEW e \in Entries
    PROVE  /\ <<>> \o Requests(e) \in Seq(Waiting) /\ Distinct(<<>> \o Requests(e))
           /\ \A p \in ToSet(<<>> \o Requests(e)) : p.call \in 1..e.call /\ p.step = e.step /\ ~p.started
           /\ \A c \in 1..e.call : \E p \in ToSet(<<>> \o Requests(e)) : p.call = c
<1>1. e.call \in Nat /\ e.step \in Nat
  BY DEF Entries
<1> DEFINE d == Requests(e)
<1>2. DOMAIN d = 1..e.call /\ \A c \in 1..e.call : d[c] = [call |-> c, step |-> e.step, started |-> FALSE]
  BY DEF Requests
<1>3. \A c \in 1..e.call : d[c] \in Waiting /\ d[c].call = c /\ d[c].step = e.step /\ d[c].started = FALSE
  <2> TAKE c \in 1..e.call
  <2> DEFINE p == [call |-> c, step |-> e.step, started |-> FALSE]
  <2>1. d[c] = p /\ c \in Nat
    BY <1>1, <1>2
  <2>2. p \in Waiting /\ p.call = c /\ p.step = e.step /\ p.started = FALSE
    BY <1>1, <2>1 DEF Waiting
  <2> HIDE DEF p, d
  <2>3. QED
    BY <2>1, <2>2
<1>4. d \in Seq(Waiting)
  <2>1. d = [c \in 1..e.call |-> d[c]]
    BY DEF Requests
  <2> HIDE DEF d
  <2>2. [c \in 1..e.call |-> d[c]] \in Seq(Waiting)
    BY <1>1, <1>3
  <2>3. QED
    BY <2>1, <2>2
<1> HIDE DEF d
<1>5. <<>> \o d = d
  BY <1>4, ConcatEmptySeq
<1>6. Distinct(d)
  BY <1>2, <1>3 DEF Distinct
<1>7. /\ \A p \in ToSet(d) : p.call \in 1..e.call /\ p.step = e.step /\ ~p.started
      /\ \A c \in 1..e.call : \E p \in ToSet(d) : p.call = c
  BY <1>2, <1>3 DEF ToSet
<1>8. QED
  BY <1>4, <1>5, <1>6, <1>7 DEF d

-----------------------------------------------------------------------------
(* What an event does to the cursor and to the scan.                       *)

\* An event's fields.
LEMMA EntryFields ==
    ASSUME NEW e \in Entries
    PROVE  e.type \in Types /\ e.turn \in Nat /\ e.step \in Nat /\ e.call \in Nat
  BY DEF Entries

\* The cursor's fields.
LEMMA TraceFields ==
    ASSUME NEW t \in Traces
    PROVE  /\ t.openTurn \in Nat /\ t.openStep \in Nat /\ t.nextTurn \in Nat /\ t.nextStep \in Nat
           /\ t.nextTurn + 1 \in Nat /\ t.nextStep + 1 \in Nat
           /\ t.pendingCalls \subseteq Nat
  BY DEF Traces

\* The companion's cursor, one line for each type of event.
LEMMA ApplyMoves ==
    ASSUME NEW t \in Traces, NEW e \in Entries, NEW u, u = T!Apply(t, e)
    PROVE  /\ u \in Traces
           /\ e.type = "turn/start" => /\ u.openTurn = e.turn /\ u.openStep = t.openStep
                                       /\ u.nextTurn = t.nextTurn /\ u.nextStep = 1 /\ u.pendingCalls = t.pendingCalls
           /\ e.type = "turn/end" => /\ u.openTurn = 0 /\ u.openStep = t.openStep
                                     /\ u.nextTurn = t.nextTurn + 1 /\ u.nextStep = t.nextStep
                                     /\ u.pendingCalls = t.pendingCalls
           /\ e.type # "turn/start" /\ e.type # "turn/end" => u.openTurn = t.openTurn /\ u.nextTurn = t.nextTurn
           /\ e.type = "step/start" => u.openStep = e.step /\ u.nextStep = t.nextStep /\ u.pendingCalls = t.pendingCalls
           /\ e.type = "step/end" => u.openStep = 0 /\ u.nextStep = t.nextStep + 1 /\ u.pendingCalls = {}
           /\ e.type \in {"assistant/message", "tool/call"} \union ResultTypes
                 => u.openStep = t.openStep /\ u.nextStep = t.nextStep
           /\ e.type = "assistant/message" => u.pendingCalls = t.pendingCalls
           /\ e.type = "tool/call" => u.pendingCalls = t.pendingCalls \union {e.call}
           /\ e.type \in ResultTypes => u.pendingCalls = t.pendingCalls \ {e.call}
<1>1. /\ t.openTurn \in Nat /\ t.openStep \in Nat /\ t.nextTurn \in Nat /\ t.nextStep \in Nat
      /\ t.nextTurn + 1 \in Nat /\ t.nextStep + 1 \in Nat /\ t.pendingCalls \in SUBSET Nat
      /\ e.type \in Types /\ e.turn \in Nat /\ e.step \in Nat /\ e.call \in Nat
  BY TraceFields, EntryFields
<1>2. CASE e.type = "turn/start"
  <2> DEFINE o == e.turn
             n == 1
  <2>1. u = [t EXCEPT !.openTurn = o, !.nextStep = n, !.last = e]
    BY <1>2 DEF T!Apply, T!None
  <2>2. o \in Nat /\ n \in Nat
    BY <1>1
  <2> HIDE DEF o, n
  <2>3. /\ u \in Traces /\ u.openTurn = o /\ u.openStep = t.openStep
        /\ u.nextTurn = t.nextTurn /\ u.nextStep = n /\ u.pendingCalls = t.pendingCalls
    BY <2>1, <2>2 DEF Traces
  <2>4. QED
    BY <1>2, <2>3 DEF ResultTypes, o, n
<1>3. CASE e.type = "turn/end"
  <2> DEFINE o == 0
             n == t.nextTurn + 1
  <2>1. u = [t EXCEPT !.openTurn = o, !.nextTurn = n, !.last = e]
    BY <1>3 DEF T!Apply, T!None
  <2>2. o \in Nat /\ n \in Nat
    BY <1>1
  <2> HIDE DEF o, n
  <2>3. /\ u \in Traces /\ u.openTurn = o /\ u.openStep = t.openStep
        /\ u.nextTurn = n /\ u.nextStep = t.nextStep /\ u.pendingCalls = t.pendingCalls
    BY <2>1, <2>2 DEF Traces
  <2>4. QED
    BY <1>3, <2>3 DEF ResultTypes, o, n
<1>4. CASE e.type = "step/start"
  <2> DEFINE o == e.step
  <2>1. u = [t EXCEPT !.openStep = o, !.last = e]
    BY <1>4 DEF T!Apply, T!None
  <2>2. o \in Nat
    BY <1>1
  <2> HIDE DEF o
  <2>3. /\ u \in Traces /\ u.openTurn = t.openTurn /\ u.openStep = o
        /\ u.nextTurn = t.nextTurn /\ u.nextStep = t.nextStep /\ u.pendingCalls = t.pendingCalls
    BY <2>1, <2>2 DEF Traces
  <2>4. QED
    BY <1>4, <2>3 DEF ResultTypes, o
<1>5. CASE e.type = "step/end"
  <2> DEFINE o == 0
             n == t.nextStep + 1
             c == {}
  <2>1. u = [t EXCEPT !.openStep = o, !.nextStep = n, !.pendingCalls = c, !.last = e]
    BY <1>5 DEF T!Apply, T!None
  <2>2. o \in Nat /\ n \in Nat /\ c \in SUBSET Nat
    BY <1>1
  <2> HIDE DEF o, n, c
  <2>3. /\ u \in Traces /\ u.openTurn = t.openTurn /\ u.openStep = o
        /\ u.nextTurn = t.nextTurn /\ u.nextStep = n /\ u.pendingCalls = c
    BY <2>1, <2>2 DEF Traces
  <2>4. QED
    BY <1>5, <2>3 DEF ResultTypes, o, n, c
<1>6. CASE e.type = "assistant/message"
  <2>1. u = [t EXCEPT !.last = e]
    BY <1>6 DEF T!Apply, T!None
  <2>3. /\ u \in Traces /\ u.openTurn = t.openTurn /\ u.openStep = t.openStep
        /\ u.nextTurn = t.nextTurn /\ u.nextStep = t.nextStep /\ u.pendingCalls = t.pendingCalls
    BY <2>1 DEF Traces
  <2>4. QED
    BY <1>6, <2>3 DEF ResultTypes
<1>7. CASE e.type = "tool/call"
  <2> DEFINE c == t.pendingCalls \union {e.call}
  <2>1. u = [t EXCEPT !.pendingCalls = c, !.last = e]
    BY <1>7 DEF T!Apply, T!None
  <2>2. c \in SUBSET Nat
    BY <1>1
  <2> HIDE DEF c
  <2>3. /\ u \in Traces /\ u.openTurn = t.openTurn /\ u.openStep = t.openStep
        /\ u.nextTurn = t.nextTurn /\ u.nextStep = t.nextStep /\ u.pendingCalls = c
    BY <2>1, <2>2 DEF Traces
  <2>4. QED
    BY <1>7, <2>3 DEF ResultTypes, c
<1>8. CASE e.type \in ResultTypes
  <2> DEFINE c == t.pendingCalls \ {e.call}
  <2>1. u = [t EXCEPT !.pendingCalls = c, !.last = e]
    BY <1>8 DEF T!Apply, T!None, ResultTypes
  <2>2. c \in SUBSET Nat
    BY <1>1
  <2> HIDE DEF c
  <2>3. /\ u \in Traces /\ u.openTurn = t.openTurn /\ u.openStep = t.openStep
        /\ u.nextTurn = t.nextTurn /\ u.nextStep = t.nextStep /\ u.pendingCalls = c
    BY <2>1, <2>2 DEF Traces
  <2>4. QED
    BY <1>8, <2>3 DEF ResultTypes, c
<1>9. QED
  BY <1>1, <1>2, <1>3, <1>4, <1>5, <1>6, <1>7, <1>8 DEF Types

\* The scan, one line for each type of event.
LEMMA ScanMoves ==
    ASSUME NEW s \in ScanStates, NEW e \in Entries, NEW u, u = Scan(s, e)
    PROVE  /\ e.type = "turn/start" => u.openTurn = e.turn /\ u.openStep = 0 /\ u.pending = <<>>
           /\ e.type = "turn/end" => u.openTurn = 0 /\ u.openStep = 0 /\ u.pending = <<>>
           /\ e.type = "step/start" => u.openTurn = s.openTurn /\ u.openStep = e.step /\ u.pending = s.pending
           /\ e.type = "step/end" => u.openTurn = s.openTurn /\ u.openStep = 0 /\ u.pending = <<>>
           /\ e.type \in {"assistant/message", "tool/call"} \union ResultTypes
                 => u.openTurn = s.openTurn /\ u.openStep = s.openStep
           /\ e.type = "assistant/message" => u.pending = s.pending \o Requests(e)
           /\ e.type = "tool/call" => u.pending = Started(s.pending, e.call)
           /\ e.type \in ResultTypes => u.pending = Deleted(s.pending, e.call)
           /\ u.pending \in Seq(Waiting) => u \in ScanStates
<1>1. /\ s.openTurn \in Nat /\ s.openStep \in Nat /\ s.pending \in Seq(Waiting)
      /\ e.turn \in Nat /\ e.step \in Nat /\ e.type \in Types /\ <<>> \in Seq(Waiting)
  BY EntryFields, EmptySeq DEF ScanStates
<1> DEFINE empty == <<>>
           zero == 0
<1>2. empty \in Seq(Waiting) /\ zero \in Nat
  BY <1>1
<1>3. /\ \A o : [NothingOpen EXCEPT !.openTurn = o] = [openTurn |-> o, openStep |-> zero, pending |-> empty]
      /\ NothingOpen = [openTurn |-> zero, openStep |-> zero, pending |-> empty]
  BY DEF NothingOpen, T!None
<1> HIDE DEF empty, zero
<1>4. ASSUME NEW a \in Nat, NEW b \in Nat, NEW q \in Seq(Waiting), NEW v, v = [openTurn |-> a, openStep |-> b, pending |-> q]
      PROVE  v.openTurn = a /\ v.openStep = b /\ v.pending = q /\ v \in ScanStates
  BY <1>4 DEF ScanStates
<1>5. CASE e.type = "turn/start"
  <2> DEFINE o == e.turn
  <2>1. u = [NothingOpen EXCEPT !.openTurn = o]
    BY <1>5 DEF Scan, T!None, Answers, ResultTypes
  <2> HIDE DEF o
  <2>2. u = [openTurn |-> o, openStep |-> zero, pending |-> empty]
    BY <1>3, <2>1
  <2>3. o \in Nat
    BY <1>1 DEF o
  <2>4. u.openTurn = o /\ u.openStep = zero /\ u.pending = empty /\ u \in ScanStates
    BY <1>2, <1>4, <2>2, <2>3
  <2>5. QED
    BY <1>5, <2>4 DEF ResultTypes, o, zero, empty
<1>6. CASE e.type = "turn/end"
  <2>1. u = NothingOpen
    BY <1>6 DEF Scan, T!None, Answers, ResultTypes
  <2>2. u.openTurn = zero /\ u.openStep = zero /\ u.pending = empty /\ u \in ScanStates
    BY <1>2, <1>3, <1>4, <2>1
  <2>3. QED
    BY <1>6, <2>2 DEF ResultTypes, zero, empty
<1>7. CASE e.type = "step/start"
  <2> DEFINE o == e.step
  <2>1. u = [s EXCEPT !.openStep = o] /\ o \in Nat
    BY <1>1, <1>7 DEF Scan, T!None, Answers, ResultTypes
  <2> HIDE DEF o
  <2>2. u.openTurn = s.openTurn /\ u.openStep = o /\ u.pending = s.pending /\ u \in ScanStates
    BY <2>1 DEF ScanStates
  <2>3. QED
    BY <1>7, <2>2 DEF ResultTypes, o
<1>8. CASE e.type = "step/end"
  <2>1. u = [s EXCEPT !.openStep = zero, !.pending = empty]
    BY <1>8 DEF Scan, T!None, Answers, ResultTypes, zero, empty
  <2>2. u.openTurn = s.openTurn /\ u.openStep = zero /\ u.pending = empty /\ u \in ScanStates
    BY <1>2, <2>1 DEF ScanStates
  <2>3. QED
    BY <1>8, <2>2 DEF ResultTypes, zero, empty
<1>9. ASSUME NEW q, u = [s EXCEPT !.pending = q]
      PROVE  /\ u.openTurn = s.openTurn /\ u.openStep = s.openStep /\ u.pending = q
             /\ q \in Seq(Waiting) => u \in ScanStates
  BY <1>9 DEF ScanStates
<1>10. CASE e.type = "assistant/message"
  <2>1. u = [s EXCEPT !.pending = s.pending \o Requests(e)]
    BY <1>10 DEF Scan, T!None, Answers, ResultTypes
  <2>2. QED
    BY <1>9, <1>10, <2>1 DEF ResultTypes
<1>11. CASE e.type = "tool/call"
  <2>1. u = [s EXCEPT !.pending = Started(s.pending, e.call)]
    BY <1>11 DEF Scan, T!None, Answers, ResultTypes
  <2>2. QED
    BY <1>9, <1>11, <2>1 DEF ResultTypes
<1>12. CASE e.type \in ResultTypes
  <2>1. u = [s EXCEPT !.pending = Deleted(s.pending, e.call)]
    BY <1>12 DEF Scan, Answers, ResultTypes
  <2>2. QED
    BY <1>9, <1>12, <2>1 DEF ResultTypes
<1>13. QED
  BY <1>1, <1>5, <1>6, <1>7, <1>8, <1>10, <1>11, <1>12 DEF Types

\* The step's own events.
StepTypes == {"assistant/message", "tool/call"} \union ResultTypes

\* What the companion demands of an event.
LEMMA ValidFacts ==
    ASSUME NEW t, NEW e \in Entries, T!Valid(t, e)
    PROVE  /\ e.type = "turn/start" => t.openTurn = 0 /\ e.turn = t.nextTurn
           /\ e.type = "turn/end" => t.openTurn = e.turn /\ t.openTurn # 0 /\ t.openStep = 0
           /\ e.type = "step/start" => t.openTurn = e.turn /\ t.openTurn # 0 /\ t.openStep = 0 /\ e.step = t.nextStep
           /\ e.type = "step/end" => Within(t, e)
           /\ e.type \in StepTypes => Within(t, e)
           /\ e.type = "tool/result" => e.call \in t.pendingCalls
<1>1. e.type \in Types
  BY EntryFields
<1>2. /\ e.type = "turn/start" => t.openTurn = 0 /\ e.turn = t.nextTurn
      /\ e.type = "turn/end" => t.openTurn = e.turn /\ t.openTurn # 0 /\ t.openStep = 0
      /\ e.type = "step/start" => t.openTurn = e.turn /\ t.openTurn # 0 /\ t.openStep = 0 /\ e.step = t.nextStep
      /\ e.type = "step/end" => T!InOpenStep(t, e)
  BY DEF T!Valid, T!None, T!StepEvents, T!TurnEvents
<1>3. e.type = "assistant/message" => T!InOpenStep(t, e)
  BY DEF T!Valid, T!StepEvents, T!TurnEvents
<1>4. e.type = "tool/call" => T!InOpenStep(t, e)
  BY DEF T!Valid, T!StepEvents, T!TurnEvents
<1>5. e.type = "tool/result" => T!InOpenStep(t, e) /\ e.call \in t.pendingCalls
  BY DEF T!Valid, T!StepEvents, T!TurnEvents
<1>6. e.type = "tool/not-started" => T!InOpenStep(t, e)
  BY DEF T!Valid, T!StepEvents, T!TurnEvents
<1>7. QED
  BY <1>1, <1>2, <1>3, <1>4, <1>5, <1>6 DEF Within, T!InOpenStep, T!None, StepTypes, ResultTypes

\* The shape survives an event that is valid where it is appended.
LEMMA ShapeStep ==
    ASSUME NEW t, NEW s, NEW e \in Entries, Shape(t, s), T!Valid(t, e),
           e.type = "assistant/message" => s.pending = <<>>
    PROVE  Shape(T!Apply(t, e), Scan(s, e))
<1> DEFINE t2 == T!Apply(t, e)
           s2 == Scan(s, e)
<1>1. t \in Traces /\ s \in ScanStates /\ s.pending \in Seq(Waiting) /\ Distinct(s.pending) /\ e.type \in Types
  BY EntryFields DEF Shape, ScanStates
<1>2. e.turn \in Nat /\ e.step \in Nat /\ t.nextTurn \in Nat /\ t.nextStep \in Nat /\ t.openTurn \in Nat /\ t.openStep \in Nat
  BY <1>1, EntryFields, TraceFields
<1>3. T!Apply(t, e) = t2 /\ Scan(s, e) = s2
  OBVIOUS
<1> HIDE DEF t2, s2
<1>4. CASE e.type = "turn/start"
  <2>1. /\ t2 \in Traces /\ t2.openTurn = e.turn /\ t2.openStep = t.openStep
        /\ t2.nextTurn = t.nextTurn /\ t2.nextStep = 1
    BY <1>1, <1>3, <1>4, ApplyMoves
  <2>2. s2.openTurn = e.turn /\ s2.openStep = 0 /\ s2.pending = <<>>
    BY <1>1, <1>3, <1>4, ScanMoves
  <2>3. s2 \in ScanStates
    BY <1>1, <1>3, <2>2, ScanMoves, EmptySeq
  <2>4. t.openTurn = 0 /\ e.turn = t.nextTurn
    BY <1>4, ValidFacts
  <2>5. QED
    BY <1>2, <1>3, <2>1, <2>2, <2>3, <2>4 DEF Shape, Distinct, ToSet
<1>5. CASE e.type = "turn/end"
  <2>1. /\ t2 \in Traces /\ t2.openTurn = 0 /\ t2.openStep = t.openStep
        /\ t2.nextTurn = t.nextTurn + 1 /\ t2.nextStep = t.nextStep
    BY <1>1, <1>3, <1>5, ApplyMoves
  <2>2. s2.openTurn = 0 /\ s2.openStep = 0 /\ s2.pending = <<>>
    BY <1>1, <1>3, <1>5, ScanMoves
  <2>3. s2 \in ScanStates
    BY <1>1, <1>3, <2>2, ScanMoves, EmptySeq
  <2>4. t.openStep = 0
    BY <1>5, ValidFacts
  <2>5. QED
    BY <1>2, <1>3, <2>1, <2>2, <2>3, <2>4 DEF Shape, Distinct, ToSet
<1>6. CASE e.type = "step/start"
  <2>1. /\ t2 \in Traces /\ t2.openTurn = t.openTurn /\ t2.openStep = e.step
        /\ t2.nextTurn = t.nextTurn /\ t2.nextStep = t.nextStep
    BY <1>1, <1>3, <1>6, ApplyMoves
  <2>2. s2.openTurn = s.openTurn /\ s2.openStep = e.step /\ s2.pending = s.pending
    BY <1>1, <1>3, <1>6, ScanMoves
  <2>3. s2 \in ScanStates
    BY <1>1, <1>3, <2>2, ScanMoves
  <2>4. t.openTurn # 0 /\ t.openStep = 0 /\ e.step = t.nextStep
    BY <1>6, ValidFacts
  <2>5. s.pending = <<>>
    BY <2>4 DEF Shape
  <2>6. QED
    BY <1>2, <1>3, <2>1, <2>2, <2>3, <2>4, <2>5 DEF Shape, Distinct, ToSet
<1>7. CASE e.type = "step/end"
  <2>1. /\ t2 \in Traces /\ t2.openTurn = t.openTurn /\ t2.openStep = 0
        /\ t2.nextTurn = t.nextTurn /\ t2.nextStep = t.nextStep + 1
    BY <1>1, <1>3, <1>7, ApplyMoves
  <2>2. s2.openTurn = s.openTurn /\ s2.openStep = 0 /\ s2.pending = <<>>
    BY <1>1, <1>3, <1>7, ScanMoves
  <2>3. s2 \in ScanStates
    BY <1>1, <1>3, <2>2, ScanMoves, EmptySeq
  <2>4. QED
    BY <1>2, <1>3, <2>1, <2>2, <2>3 DEF Shape, Distinct, ToSet
<1>8. CASE e.type \in StepTypes
  <2>1. /\ t2 \in Traces /\ t2.openTurn = t.openTurn /\ t2.openStep = t.openStep
        /\ t2.nextTurn = t.nextTurn /\ t2.nextStep = t.nextStep
    BY <1>1, <1>3, <1>8, ApplyMoves DEF StepTypes, ResultTypes
  <2>2. s2.openTurn = s.openTurn /\ s2.openStep = s.openStep
    BY <1>1, <1>3, <1>8, ScanMoves DEF StepTypes
  <2>3. t.openStep # 0 /\ e.step = t.openStep
    BY <1>8, ValidFacts DEF Within
  <2>4. ASSUME s2.pending \in Seq(Waiting), Distinct(s2.pending),
               \A p \in ToSet(s2.pending) : p.step = t.openStep /\ (p.started => p.call \in t2.pendingCalls)
        PROVE  Shape(t2, s2)
    <3>1. s2 \in ScanStates
      BY <1>1, <1>3, <2>4, ScanMoves
    <3>2. QED
      BY <2>1, <2>2, <2>3, <2>4, <3>1 DEF Shape
  <2>5. CASE e.type = "assistant/message"
    <3>1. s2.pending = <<>> \o Requests(e)
      <4>1. s2.pending = s.pending \o Requests(e)
        BY <1>1, <1>3, <2>5, ScanMoves
      <4>2. QED
        BY <2>5, <4>1, Zenon
    <3>2. /\ s2.pending \in Seq(Waiting) /\ Distinct(s2.pending)
          /\ \A p \in ToSet(s2.pending) : p.step = e.step /\ ~p.started
      BY <3>1, PendingRequests
    <3>3. QED
      BY <1>3, <2>3, <2>4, <3>2
  <2>6. CASE e.type = "tool/call"
    <3>1. s2.pending = Started(s.pending, e.call) /\ t2.pendingCalls = t.pendingCalls \union {e.call}
      BY <1>1, <1>3, <2>6, ScanMoves, ApplyMoves
    <3>2. /\ s2.pending \in Seq(Waiting) /\ Distinct(s2.pending)
          /\ \A p \in ToSet(s2.pending) : \E q \in ToSet(s.pending) :
                 p.call = q.call /\ p.step = q.step /\ (p.started <=> q.started \/ q.call = e.call)
      BY <1>1, <3>1, PendingStarted
    <3>3. \A q \in ToSet(s.pending) : q.step = t.openStep /\ (q.started => q.call \in t.pendingCalls)
      BY DEF Shape
    <3>4. QED
      BY <1>3, <2>4, <3>1, <3>2, <3>3
  <2>7. CASE e.type \in ResultTypes
    <3>1. s2.pending = Deleted(s.pending, e.call) /\ t2.pendingCalls = t.pendingCalls \ {e.call}
      BY <1>1, <1>3, <2>7, ScanMoves, ApplyMoves
    <3>2. /\ s2.pending \in Seq(Waiting) /\ Distinct(s2.pending)
          /\ ToSet(s2.pending) = {p \in ToSet(s.pending) : p.call # e.call}
      BY <1>1, <3>1, PendingDeleted
    <3>3. \A q \in ToSet(s.pending) : q.step = t.openStep /\ (q.started => q.call \in t.pendingCalls)
      BY DEF Shape
    <3>4. QED
      BY <1>3, <2>4, <3>1, <3>2, <3>3
  <2>8. QED
    BY <1>8, <2>5, <2>6, <2>7 DEF StepTypes
<1>9. QED
  BY <1>1, <1>4, <1>5, <1>6, <1>7, <1>8 DEF Types, StepTypes

\* Every event of the log stays of the open step or before it.
LEMMA ReachedStep ==
    ASSUME NEW t, NEW s, NEW e \in Entries, Shape(t, s), T!Valid(t, e), e.type = "turn/start" => e.step = 0
    PROVE  /\ \A x \in Entries : Reached(t, x) => Reached(T!Apply(t, e), x)
           /\ Reached(T!Apply(t, e), e)
<1> DEFINE t2 == T!Apply(t, e)
<1>1. /\ t \in Traces /\ t.nextStep > 0 /\ t.openTurn \in {0, t.nextTurn} /\ t.openStep \in {0, t.nextStep}
      /\ (t.openTurn = 0 => t.openStep = 0) /\ t.nextTurn > 0
  BY DEF Shape
<1>2. /\ e.turn \in Nat /\ e.step \in Nat /\ t.nextTurn \in Nat /\ t.nextStep \in Nat /\ t.openTurn \in Nat
      /\ t.openStep \in Nat /\ e.type \in Types
  BY <1>1, EntryFields, TraceFields
<1>3. \A x \in Entries : x.turn \in Nat /\ x.step \in Nat
  BY EntryFields
<1>4. T!Apply(t, e) = t2
  OBVIOUS
<1> HIDE DEF t2
<1>5. CASE e.type = "turn/start"
  <2>1. t2.openTurn = e.turn /\ t2.openStep = t.openStep /\ t2.nextTurn = t.nextTurn /\ t2.nextStep = 1
    BY <1>1, <1>4, <1>5, ApplyMoves
  <2>2. t.openTurn = 0 /\ e.turn = t.nextTurn /\ e.step = 0
    BY <1>5, ValidFacts
  <2>3. QED
    BY <1>1, <1>2, <1>3, <1>4, <2>1, <2>2 DEF Reached
<1>6. CASE e.type = "turn/end"
  <2>1. t2.openTurn = 0 /\ t2.nextTurn = t.nextTurn + 1
    BY <1>1, <1>4, <1>6, ApplyMoves
  <2>2. t.openTurn = e.turn /\ t.openTurn # 0
    BY <1>6, ValidFacts
  <2>3. QED
    BY <1>1, <1>2, <1>3, <1>4, <2>1, <2>2 DEF Reached
<1>7. CASE e.type = "step/start"
  <2>1. t2.openTurn = t.openTurn /\ t2.openStep = e.step /\ t2.nextTurn = t.nextTurn /\ t2.nextStep = t.nextStep
    BY <1>1, <1>4, <1>7, ApplyMoves
  <2>2. t.openTurn = e.turn /\ t.openTurn # 0 /\ t.openStep = 0 /\ e.step = t.nextStep
    BY <1>7, ValidFacts
  <2>3. QED
    BY <1>1, <1>2, <1>3, <1>4, <2>1, <2>2 DEF Reached
<1>8. CASE e.type = "step/end"
  <2>1. t2.openTurn = t.openTurn /\ t2.openStep = 0 /\ t2.nextTurn = t.nextTurn /\ t2.nextStep = t.nextStep + 1
    BY <1>1, <1>4, <1>8, ApplyMoves
  <2>2. e.turn = t.openTurn /\ e.step = t.openStep /\ t.openStep # 0
    BY <1>8, ValidFacts DEF Within
  <2>3. QED
    BY <1>1, <1>2, <1>3, <1>4, <2>1, <2>2 DEF Reached
<1>9. CASE e.type \in StepTypes
  <2>1. t2.openTurn = t.openTurn /\ t2.openStep = t.openStep /\ t2.nextTurn = t.nextTurn /\ t2.nextStep = t.nextStep
    BY <1>1, <1>4, <1>9, ApplyMoves DEF StepTypes, ResultTypes
  <2>2. e.turn = t.openTurn /\ e.step = t.openStep /\ t.openStep # 0
    BY <1>9, ValidFacts DEF Within
  <2>3. QED
    BY <1>1, <1>2, <1>3, <1>4, <2>1, <2>2 DEF Reached
<1>10. QED
  BY <1>2, <1>5, <1>6, <1>7, <1>8, <1>9 DEF Types, StepTypes

-----------------------------------------------------------------------------
(* A log stays sound when a fitting event is appended.                     *)

\* What the writers of the log add to the companion's demands.
Fits(ev, s, e) ==
    /\ e.type = "turn/start" => e.step = 0
    /\ e.type = "assistant/message" => ev # <<>> /\ ev[Len(ev)].type = "step/start"
    /\ e.type \in ResultTypes => Pending(s, e.call)

\* A log with one more event.
LEMMA AppendFacts ==
    ASSUME NEW ev \in Seq(Entries), NEW e \in Entries, NEW ev2, ev2 = Append(ev, e), NEW n, n = Len(ev)
    PROVE  /\ ev2 \in Seq(Entries) /\ n \in Nat /\ Len(ev2) = n + 1 /\ DOMAIN ev = 1..n /\ DOMAIN ev2 = 1..n + 1
           /\ ev2[n + 1] = e /\ \A i \in 1..n : ev2[i] = ev[i] /\ ev[i] \in Entries
<1>1. /\ ev2 \in Seq(Entries) /\ n \in Nat /\ Len(ev2) = n + 1
      /\ ev2[n + 1] = e /\ \A i \in 1..n : ev2[i] = ev[i]
  BY AppendProperties, LenProperties
<1>2. DOMAIN ev = 1..n /\ DOMAIN ev2 = 1..n + 1 /\ \A i \in 1..n : ev[i] \in Entries
  BY <1>1, LenProperties, ElementOfSeq
<1>3. QED
  BY <1>1, <1>2

\* The answers to a call, after another event.
LEMMA AnswerAppended ==
    ASSUME NEW ev \in Seq(Entries), NEW e \in Entries, NEW ev2, ev2 = Append(ev, e), NEW m, NEW c, IsAnswer(e, m, c)
    PROVE  AnswersIn(ev2, m, c) # {} /\ (AnswersIn(ev, m, c) = {} => Answered(ev2, m, c))
<1> DEFINE n == Len(ev)
<1>1. /\ n \in Nat /\ DOMAIN ev = 1..n /\ DOMAIN ev2 = 1..n + 1
      /\ ev2[n + 1] = e /\ \A i \in 1..n : ev2[i] = ev[i]
  BY AppendFacts
<1> HIDE DEF n
<1>2. n + 1 \in 1..n + 1 /\ \A i \in 1..n + 1 : i \in 1..n \/ i = n + 1
  BY <1>1
<1>3. n + 1 \in AnswersIn(ev2, m, c)
  BY <1>1, <1>2 DEF AnswersIn
<1>4. ASSUME AnswersIn(ev, m, c) = {} PROVE AnswersIn(ev2, m, c) = {n + 1}
  <2>1. \A i \in 1..n : ~IsAnswer(ev[i], m, c)
    BY <1>1, <1>4 DEF AnswersIn
  <2>2. \A i \in 1..n : ~IsAnswer(ev2[i], m, c)
    BY <1>1, <2>1
  <2>3. QED
    BY <1>1, <1>2, <1>3, <2>2 DEF AnswersIn
<1>5. QED
  BY <1>1, <1>2, <1>3, <1>4 DEF Answered

\* An event that is no answer to the call leaves its answers as they are.
LEMMA OtherAppended ==
    ASSUME NEW ev \in Seq(Entries), NEW e \in Entries, NEW ev2, ev2 = Append(ev, e), NEW m, NEW c, ~IsAnswer(e, m, c)
    PROVE  (AnswersIn(ev2, m, c) = {} <=> AnswersIn(ev, m, c) = {}) /\ (Answered(ev, m, c) => Answered(ev2, m, c))
<1> DEFINE n == Len(ev)
<1>1. /\ n \in Nat /\ DOMAIN ev = 1..n /\ DOMAIN ev2 = 1..n + 1
      /\ ev2[n + 1] = e /\ \A i \in 1..n : ev2[i] = ev[i]
  BY AppendFacts
<1> HIDE DEF n
<1>2. 1..n + 1 = 1..n \union {n + 1}
  BY <1>1
<1>3. \A i \in 1..n : IsAnswer(ev2[i], m, c) <=> IsAnswer(ev[i], m, c)
  BY <1>1
<1>4. AnswersIn(ev2, m, c) = AnswersIn(ev, m, c)
  BY <1>1, <1>2, <1>3 DEF AnswersIn
<1>5. QED
  BY <1>1, <1>2, <1>4 DEF Answered

\* A message opens its step: nothing is pending yet.
LEMMA MessageOpens ==
    ASSUME NEW ev \in Seq(Entries), NEW t, NEW s, SoundAt(ev, t, s), NEW e,
           e.type = "assistant/message", Fits(ev, s, e)
    PROVE  s.pending = <<>> /\ \A i \in DOMAIN ev : Within(t, ev[i]) => ev[i].type = "step/start"
<1>1. ev[Len(ev)].type = "step/start"
  BY DEF Fits
<1>2. \A i \in DOMAIN ev : Within(t, ev[i]) => i = Len(ev)
  BY <1>1 DEF SoundAt, OpenCalls
<1>3. \A i \in DOMAIN ev : Within(t, ev[i]) => ev[i].type = "step/start"
  BY <1>1, <1>2
<1>4. \A p \in ToSet(s.pending) : FALSE
  BY <1>3 DEF SoundAt, PendingRequested
<1>5. s.pending \in Seq(Waiting)
  BY DEF SoundAt, Shape, ScanStates
<1>6. s.pending # <<>> => 1 \in DOMAIN s.pending
  BY <1>5, EmptySeq, LenProperties
<1>7. s.pending # <<>> => s.pending[1] \in ToSet(s.pending)
  BY <1>6 DEF ToSet
<1>8. QED
  BY <1>3, <1>4, <1>7

\* What the open step's events are, after another one.
LEMMA OpenStepMoves ==
    ASSUME NEW t, NEW s, Shape(t, s), NEW e \in Entries, T!Valid(t, e)
    PROVE  /\ e.type \in {"turn/start", "turn/end", "step/end"} => T!Apply(t, e).openStep = 0
           /\ e.type = "step/start" =>
                 /\ Within(T!Apply(t, e), e)
                 /\ \A x \in Entries : Reached(t, x) => ~Within(T!Apply(t, e), x)
           /\ e.type \in StepTypes =>
                 /\ Within(t, e) /\ Within(T!Apply(t, e), e)
                 /\ \A x : Within(T!Apply(t, e), x) <=> Within(t, x)
                 /\ \A x : SameStep(e, x) \/ SameStep(x, e) => Within(t, x)
<1> DEFINE t2 == T!Apply(t, e)
<1>1. t \in Traces /\ t.nextStep > 0 /\ t.openTurn \in {0, t.nextTurn} /\ t.openStep \in {0, t.nextStep}
      /\ (t.openTurn = 0 => t.openStep = 0)
  BY DEF Shape
<1>2. /\ e.turn \in Nat /\ e.step \in Nat /\ t.nextTurn \in Nat /\ t.nextStep \in Nat /\ t.openTurn \in Nat
      /\ t.openStep \in Nat /\ \A x \in Entries : x.turn \in Nat /\ x.step \in Nat
  BY <1>1, EntryFields, TraceFields
<1>3. T!Apply(t, e) = t2
  OBVIOUS
<1> HIDE DEF t2
<1>4. CASE e.type = "turn/start"
  <2>1. t2.openStep = t.openStep /\ t.openTurn = 0
    BY <1>1, <1>3, <1>4, ApplyMoves, ValidFacts
  <2>2. QED
    BY <1>1, <1>3, <1>4, <2>1 DEF StepTypes, ResultTypes
<1>5. CASE e.type = "turn/end"
  <2>1. t2.openStep = t.openStep /\ t.openStep = 0
    BY <1>1, <1>3, <1>5, ApplyMoves, ValidFacts
  <2>2. QED
    BY <1>1, <1>3, <1>5, <2>1 DEF StepTypes, ResultTypes
<1>6. CASE e.type = "step/end"
  <2>1. t2.openStep = 0
    BY <1>1, <1>3, <1>6, ApplyMoves
  <2>2. QED
    BY <1>1, <1>3, <1>6, <2>1 DEF StepTypes, ResultTypes
<1>7. CASE e.type = "step/start"
  <2>1. t2.openTurn = t.openTurn /\ t2.openStep = e.step
    BY <1>1, <1>3, <1>7, ApplyMoves
  <2>2. t.openTurn = e.turn /\ t.openTurn # 0 /\ t.openStep = 0 /\ e.step = t.nextStep
    BY <1>7, ValidFacts
  <2>3. Within(t2, e)
    BY <1>1, <1>2, <2>1, <2>2 DEF Within
  <2>4. \A x \in Entries : Reached(t, x) => ~Within(t2, x)
    BY <1>1, <1>2, <2>1, <2>2 DEF Within, Reached
  <2>5. QED
    BY <1>3, <1>7, <2>3, <2>4 DEF StepTypes, ResultTypes
<1>8. CASE e.type \in StepTypes
  <2>1. t2.openTurn = t.openTurn /\ t2.openStep = t.openStep
    BY <1>1, <1>3, <1>8, ApplyMoves DEF StepTypes, ResultTypes
  <2>2. Within(t, e)
    BY <1>8, ValidFacts
  <2>3. QED
    BY <1>3, <1>8, <2>1, <2>2 DEF Within, SameStep, StepTypes, ResultTypes
<1>9. QED
  BY <1>4, <1>5, <1>6, <1>7, <1>8

\* What is known of the open step's calls outlives an event that fits.
LEMMA OpenCallsStep ==
    ASSUME NEW ev \in Seq(Entries), NEW t, NEW s, SoundAt(ev, t, s),
           NEW e \in Entries, T!Valid(t, e), Fits(ev, s, e),
           NEW ev2, ev2 = Append(ev, e), NEW t2, t2 = T!Apply(t, e), NEW s2, s2 = Scan(s, e)
    PROVE  OpenCalls(ev2, t2, s2) /\ PendingRequested(ev2, t2, s2)
<1> DEFINE n == Len(ev)
<1>1. /\ n \in Nat /\ Len(ev2) = n + 1 /\ DOMAIN ev = 1..n /\ DOMAIN ev2 = 1..n + 1
      /\ ev2[n + 1] = e /\ \A i \in 1..n : ev2[i] = ev[i] /\ ev[i] \in Entries
  BY AppendFacts
<1>2. Shape(t, s) /\ s \in ScanStates /\ t \in Traces /\ s.pending \in Seq(Waiting) /\ Distinct(s.pending) /\ e.type \in Types
  BY EntryFields DEF SoundAt, Shape, ScanStates
<1>3. \A i \in 1..n + 1 : i \in 1..n \/ i = n + 1
  BY <1>1
<1>4. CASE e.type \in {"turn/start", "turn/end", "step/end"}
  <2>1. t2.openStep = 0
    BY <1>2, <1>4, OpenStepMoves
  <2>2. s2.pending = <<>>
    <3>1. e.type \in {"turn/start", "turn/end", "step/end"} => s2.pending = <<>>
      BY <1>2, ScanMoves
    <3>2. QED
      BY <1>4, <3>1
  <2>3. \A p \in ToSet(s2.pending) : FALSE
    BY <2>2 DEF ToSet
  <2>4. QED
    BY <2>1, <2>3 DEF OpenCalls, PendingRequested, Within
<1>5. CASE e.type = "step/start"
  <2>1. \A i \in 1..n : ~Within(t2, ev2[i])
    BY <1>1, <1>2, <1>5, OpenStepMoves DEF SoundAt
  <2>2. s2.pending = <<>>
    <3>1. t.openStep = 0
      BY <1>5, ValidFacts
    <3>2. s.pending = <<>>
      BY <1>2, <3>1 DEF Shape
    <3>3. QED
      BY <1>2, <1>5, <3>2, ScanMoves
  <2>3. \A p \in ToSet(s2.pending) : FALSE
    BY <2>2 DEF ToSet
  <2>4. \A i \in DOMAIN ev2 : Within(t2, ev2[i]) => i = n + 1 /\ ev2[i].type = "step/start"
    BY <1>1, <1>3, <1>5, <2>1
  <2>5. QED
    BY <1>1, <2>3, <2>4 DEF OpenCalls, PendingRequested
<1>6. CASE e.type \in StepTypes
  <2>1. /\ Within(t, e) /\ Within(t2, e) /\ \A x : Within(t2, x) <=> Within(t, x)
        /\ \A x : SameStep(e, x) \/ SameStep(x, e) => Within(t, x)
    BY <1>2, <1>6, OpenStepMoves
  <2>2. e.type # "step/end" /\ e.type # "step/start"
    BY <1>6 DEF StepTypes, ResultTypes
  <2>3. SUFFICES
          /\ \A i \in 1..n : Within(t, ev[i]) =>
              /\ ev[i].type = "assistant/message" => \A c \in 1..ev[i].call :
                    IF Pending(s2, c) THEN AnswersIn(ev2, ev[i], c) = {} ELSE Answered(ev2, ev[i], c)
              /\ ev[i].type = "tool/call" =>
                    /\ \A p \in ToSet(s2.pending) : p.call = ev[i].call => p.started
                    /\ ev[i].call \in t2.pendingCalls \/ AnswersIn(ev2, ev[i], ev[i].call) # {}
          /\ e.type = "assistant/message" => \A c \in 1..e.call :
                    IF Pending(s2, c) THEN AnswersIn(ev2, e, c) = {} ELSE Answered(ev2, e, c)
          /\ e.type = "tool/call" =>
                    /\ \A p \in ToSet(s2.pending) : p.call = e.call => p.started
                    /\ e.call \in t2.pendingCalls \/ AnswersIn(ev2, e, e.call) # {}
          /\ \A p \in ToSet(s2.pending) :
                \/ \E i \in 1..n : Within(t, ev[i]) /\ ev[i].type = "assistant/message" /\ p.call \in 1..ev[i].call
                \/ e.type = "assistant/message" /\ p.call \in 1..e.call
    <3> DEFINE Good(x) == /\ x.type # "step/end"
                          /\ x.type = "assistant/message" => \A c \in 1..x.call :
                                IF Pending(s2, c) THEN AnswersIn(ev2, x, c) = {} ELSE Answered(ev2, x, c)
                          /\ x.type = "tool/call" =>
                                /\ \A p \in ToSet(s2.pending) : p.call = x.call => p.started
                                /\ x.call \in t2.pendingCalls \/ AnswersIn(ev2, x, x.call) # {}
    <3>1. \A i \in 1..n : Within(t, ev[i]) => ev[i].type # "step/end"
      BY <1>1 DEF SoundAt, OpenCalls
    <3>2. Good(e) /\ \A i \in 1..n : Within(t2, ev[i]) => Good(ev[i])
      BY <2>1, <2>2, <2>3, <3>1
    <3> HIDE DEF Good
    <3>3. \A i \in 1..n + 1 : Within(t2, ev2[i]) => Good(ev2[i])
      BY <1>1, <1>3, <3>2
    <3>4. OpenCalls(ev2, t2, s2)
      BY <1>1, <2>2, <3>3 DEF OpenCalls, Good
    <3>5. \A p \in ToSet(s2.pending) : \E i \in 1..n + 1 :
             Within(t2, ev2[i]) /\ ev2[i].type = "assistant/message" /\ p.call \in 1..ev2[i].call
      <4> TAKE p \in ToSet(s2.pending)
      <4>1. CASE \E i \in 1..n : Within(t, ev[i]) /\ ev[i].type = "assistant/message" /\ p.call \in 1..ev[i].call
        <5>1. PICK i \in 1..n : Within(t, ev[i]) /\ ev[i].type = "assistant/message" /\ p.call \in 1..ev[i].call
          BY <4>1
        <5>2. i \in 1..n + 1 /\ ev2[i] = ev[i] /\ Within(t2, ev2[i])
          BY <1>1, <2>1, <5>1
        <5>3. QED
          BY <5>1, <5>2
      <4>2. CASE e.type = "assistant/message" /\ p.call \in 1..e.call
        <5>1. n + 1 \in 1..n + 1
          BY <1>1
        <5>2. QED
          BY <1>1, <2>1, <4>2, <5>1
      <4>3. QED
        BY <2>3, <4>1, <4>2
    <3>6. QED
      BY <1>1, <3>4, <3>5 DEF PendingRequested
  <2>4. /\ \A m, c : IsAnswer(e, m, c) => (AnswersIn(ev, m, c) = {} => Answered(ev2, m, c))
        /\ \A m, c : ~IsAnswer(e, m, c) =>
                 (AnswersIn(ev2, m, c) = {} <=> AnswersIn(ev, m, c) = {}) /\ (Answered(ev, m, c) => Answered(ev2, m, c))
        /\ \A m, c : IsAnswer(e, m, c) => AnswersIn(ev2, m, c) # {}
    <3>1. ASSUME NEW m, NEW c, IsAnswer(e, m, c)
          PROVE  AnswersIn(ev2, m, c) # {} /\ (AnswersIn(ev, m, c) = {} => Answered(ev2, m, c))
      BY <3>1, AnswerAppended, ZenonT(60)
    <3>2. ASSUME NEW m, NEW c, ~IsAnswer(e, m, c)
          PROVE  (AnswersIn(ev2, m, c) = {} <=> AnswersIn(ev, m, c) = {}) /\ (Answered(ev, m, c) => Answered(ev2, m, c))
      <4>1. Answered(ev, m, c) => Answered(ev2, m, c)
        BY <3>2, OtherAppended, ZenonT(60)
      <4>2. (AnswersIn(ev2, m, c) = {} <=> AnswersIn(ev, m, c) = {})
        BY <3>2, OtherAppended, ZenonT(60)
      <4>3. QED
        BY <4>1, <4>2
    <3>3. QED
      BY <3>1, <3>2, Zenon
  <2> HIDE DEF n
  <2>5. \A i \in 1..n : Within(t, ev[i]) =>
              /\ ev[i].type = "assistant/message" => \A c \in 1..ev[i].call :
                    IF Pending(s, c) THEN AnswersIn(ev, ev[i], c) = {} ELSE Answered(ev, ev[i], c)
              /\ ev[i].type = "tool/call" =>
                    /\ \A p \in ToSet(s.pending) : p.call = ev[i].call => p.started
                    /\ ev[i].call \in t.pendingCalls \/ AnswersIn(ev, ev[i], ev[i].call) # {}
    BY <1>1 DEF SoundAt, OpenCalls
  <2>6. \A p \in ToSet(s.pending) :
           \E i \in 1..n : Within(t, ev[i]) /\ ev[i].type = "assistant/message" /\ p.call \in 1..ev[i].call
    BY <1>1 DEF SoundAt, PendingRequested
  <2>7. CASE e.type = "assistant/message"
    <3>1. s.pending = <<>> /\ \A i \in 1..n : Within(t, ev[i]) => ev[i].type = "step/start"
      BY <1>1, <2>7, MessageOpens
    <3>2. /\ \A p \in ToSet(s2.pending) : p.call \in 1..e.call
          /\ \A c \in 1..e.call : \E p \in ToSet(s2.pending) : p.call = c
      <4>1. s2.pending = s.pending \o Requests(e)
        BY <1>2, <2>7, ScanMoves
      <4>2. s2.pending = <<>> \o Requests(e)
        BY <3>1, <4>1, Zenon
      <4>3. QED
        BY <4>2, PendingRequests
    <3>3. \A c : AnswersIn(ev2, e, c) = {}
      <4>1. \A c : ~IsAnswer(e, e, c)
        BY <2>7 DEF IsAnswer, ResultTypes
      <4>2. \A c : AnswersIn(ev, e, c) = {}
        <5>1. ASSUME NEW c, NEW i \in 1..n, IsAnswer(ev[i], e, c) PROVE FALSE
          <6>1. Within(t, ev[i])
            BY <2>1, <5>1 DEF IsAnswer
          <6>2. QED
            BY <3>1, <5>1, <6>1 DEF IsAnswer, ResultTypes
        <5>2. QED
          BY <1>1, <5>1 DEF AnswersIn
      <4>3. QED
        BY <2>4, <4>1, <4>2
    <3>4. \A c \in 1..e.call : Pending(s2, c)
      BY <3>2 DEF Pending
    <3>5. QED
      BY <2>7, <3>1, <3>2, <3>3, <3>4
  <2>8. CASE e.type = "tool/call"
    <3>1. s2.pending = Started(s.pending, e.call) /\ t2.pendingCalls = t.pendingCalls \union {e.call}
      BY <1>2, <2>8, ScanMoves, ApplyMoves
    <3>2. /\ \A p \in ToSet(s2.pending) : \E q \in ToSet(s.pending) : p.call = q.call /\ (p.started <=> q.started \/ q.call = e.call)
          /\ \A q \in ToSet(s.pending) : \E p \in ToSet(s2.pending) : p.call = q.call
      BY <1>2, <3>1, PendingStarted
    <3>3. \A c : Pending(s2, c) <=> Pending(s, c)
      BY <3>2 DEF Pending
    <3>4. \A m, c : ~IsAnswer(e, m, c)
      BY <2>8 DEF IsAnswer, ResultTypes
    <3>5. \A i \in 1..n : Within(t, ev[i]) =>
              /\ ev[i].type = "assistant/message" => \A c \in 1..ev[i].call :
                    IF Pending(s2, c) THEN AnswersIn(ev2, ev[i], c) = {} ELSE Answered(ev2, ev[i], c)
      BY <2>4, <2>5, <3>3, <3>4
    <3>6. \A i \in 1..n : Within(t, ev[i]) /\ ev[i].type = "tool/call" =>
                    /\ \A p \in ToSet(s2.pending) : p.call = ev[i].call => p.started
                    /\ ev[i].call \in t2.pendingCalls \/ AnswersIn(ev2, ev[i], ev[i].call) # {}
      <4> SUFFICES ASSUME NEW i \in 1..n, Within(t, ev[i]), ev[i].type = "tool/call"
                   PROVE  /\ \A p \in ToSet(s2.pending) : p.call = ev[i].call => p.started
                          /\ ev[i].call \in t2.pendingCalls \/ AnswersIn(ev2, ev[i], ev[i].call) # {}
        OBVIOUS
      <4>1. \A q \in ToSet(s.pending) : q.call = ev[i].call => q.started
        BY <2>5
      <4>2. ev[i].call \in t.pendingCalls \/ AnswersIn(ev, ev[i], ev[i].call) # {}
        BY <2>5
      <4>3. \A p \in ToSet(s2.pending) : p.call = ev[i].call => p.started
        BY <3>2, <4>1
      <4>4. QED
        BY <2>4, <3>1, <3>4, <4>2, <4>3
    <3>7. /\ \A p \in ToSet(s2.pending) : p.call = e.call => p.started
          /\ e.call \in t2.pendingCalls
      BY <3>1, <3>2
    <3>8. \A p \in ToSet(s2.pending) :
             \E i \in 1..n : Within(t, ev[i]) /\ ev[i].type = "assistant/message" /\ p.call \in 1..ev[i].call
      BY <2>6, <3>2
    <3>9. QED
      BY <2>8, <3>5, <3>6, <3>7, <3>8
  <2>9. CASE e.type \in ResultTypes
    <3>1. s2.pending = Deleted(s.pending, e.call) /\ t2.pendingCalls = t.pendingCalls \ {e.call}
      BY <1>2, <2>9, ScanMoves, ApplyMoves
    <3>2. ToSet(s2.pending) = {p \in ToSet(s.pending) : p.call # e.call}
      BY <1>2, <3>1, PendingDeleted
    <3>3. /\ \A c : c # e.call => (Pending(s2, c) <=> Pending(s, c))
          /\ ~Pending(s2, e.call) /\ Pending(s, e.call)
      BY <2>9, <3>2 DEF Pending, Fits
    <3>4. \A m, c : IsAnswer(e, m, c) <=> SameStep(e, m) /\ e.call = c
      BY <2>9 DEF IsAnswer
    <3>5. e.type # "assistant/message" /\ e.type # "tool/call"
      BY <2>9 DEF ResultTypes
    <3>6. ASSUME NEW i \in 1..n, Within(t, ev[i]) PROVE SameStep(e, ev[i])
      BY <2>1, <3>6 DEF Within, SameStep
    <3>7. ASSUME NEW i \in 1..n, Within(t, ev[i]), ev[i].type = "assistant/message", NEW c \in 1..ev[i].call
          PROVE  IF Pending(s2, c) THEN AnswersIn(ev2, ev[i], c) = {} ELSE Answered(ev2, ev[i], c)
      <4>1. IF Pending(s, c) THEN AnswersIn(ev, ev[i], c) = {} ELSE Answered(ev, ev[i], c)
        BY <2>5, <3>7
      <4>2. CASE c = e.call
        <5>1. IsAnswer(e, ev[i], c) /\ AnswersIn(ev, ev[i], c) = {} /\ ~Pending(s2, c)
          BY <3>3, <3>4, <3>6, <3>7, <4>1, <4>2
        <5>2. QED
          BY <2>4, <5>1
      <4>3. CASE c # e.call
        BY <2>4, <3>3, <3>4, <4>1, <4>3
      <4>4. QED
        BY <4>2, <4>3
    <3>8. ASSUME NEW i \in 1..n, Within(t, ev[i]), ev[i].type = "tool/call"
          PROVE  /\ \A p \in ToSet(s2.pending) : p.call = ev[i].call => p.started
                 /\ ev[i].call \in t2.pendingCalls \/ AnswersIn(ev2, ev[i], ev[i].call) # {}
      <4>1. /\ \A p \in ToSet(s.pending) : p.call = ev[i].call => p.started
            /\ ev[i].call \in t.pendingCalls \/ AnswersIn(ev, ev[i], ev[i].call) # {}
        BY <2>5, <3>8
      <4>2. ev[i].call = e.call => IsAnswer(e, ev[i], ev[i].call)
        BY <3>4, <3>6, <3>8
      <4>3. ev[i].call = e.call => AnswersIn(ev2, ev[i], ev[i].call) # {}
        BY <2>4, <4>2
      <4>4. ev[i].call \in t2.pendingCalls \/ AnswersIn(ev2, ev[i], ev[i].call) # {}
        <5>1. AnswersIn(ev, ev[i], ev[i].call) # {} => AnswersIn(ev2, ev[i], ev[i].call) # {}
          BY <2>4, Zenon
        <5>2. QED
          BY <3>1, <4>1, <4>3, <5>1
      <4>5. QED
        BY <3>2, <4>1, <4>4
    <3>9. QED
      BY <2>6, <3>2, <3>5, <3>7, <3>8
  <2>10. QED
    BY <1>6, <2>7, <2>8, <2>9 DEF StepTypes
<1>7. QED
  BY <1>2, <1>4, <1>5, <1>6 DEF Types, StepTypes

\* Prefixes of a log.
LEMMA PrefixFacts ==
    ASSUME NEW S, NEW s \in Seq(S), NEW k \in 0..Len(s)
    PROVE  /\ SubSeq(s, 1, k) \in Seq(S) /\ Len(SubSeq(s, 1, k)) = k /\ k \in Nat /\ DOMAIN SubSeq(s, 1, k) = 1..k
           /\ \A i \in 1..k : SubSeq(s, 1, k)[i] = s[i]
<1> DEFINE a == SubSeq(s, 1, k)
<1>1. Len(s) \in Nat /\ k \in Int /\ k <= Len(s) /\ 0 <= k /\ \A i \in 1..k : s[i] \in S
  BY LenProperties, ElementOfSeq
<1>2. 1 \in Int
  OBVIOUS
<1>3. /\ a \in Seq(S) /\ Len(a) = (IF 1 <= k THEN k - 1 + 1 ELSE 0)
      /\ \A i \in 1..k - 1 + 1 : a[i] = s[1 + i - 1]
  BY <1>1, <1>2, SubSeqProperties
<1> HIDE DEF a
<1>4. k - 1 + 1 = k /\ \A i \in 1..k : 1 + i - 1 = i
  BY <1>1
<1>5. Len(a) = k
  BY <1>1, <1>3, <1>4
<1>6. \A i \in 1..k : a[i] = s[i]
  BY <1>1, <1>3, <1>4
<1>7. DOMAIN a = 1..k
  BY <1>3, <1>5, LenProperties
<1>8. QED
  BY <1>1, <1>3, <1>5, <1>6, <1>7 DEF a

\* A prefix is determined by its length and its elements.
LEMMA PrefixUnique ==
    ASSUME NEW S, NEW s \in Seq(S), NEW k \in 0..Len(s), NEW a \in Seq(S), Len(a) = k, \A i \in 1..k : a[i] = s[i]
    PROVE  SubSeq(s, 1, k) = a
<1> DEFINE b == SubSeq(s, 1, k)
<1>1. b \in Seq(S) /\ Len(b) = k /\ \A i \in 1..k : b[i] = s[i]
  BY PrefixFacts
<1> HIDE DEF b
<1>2. b = a
  BY <1>1, SeqEqual
<1>3. QED
  BY <1>2 DEF b

\* A prefix of a prefix is a prefix.
LEMMA PrefixPrefix ==
    ASSUME NEW S, NEW s \in Seq(S), NEW k \in 0..Len(s), NEW n \in 0..k
    PROVE  SubSeq(SubSeq(s, 1, k), 1, n) = SubSeq(s, 1, n)
<1> DEFINE a == SubSeq(s, 1, k)
           b == SubSeq(s, 1, n)
<1>1. a \in Seq(S) /\ Len(a) = k /\ \A i \in 1..k : a[i] = s[i]
  BY PrefixFacts
<1>2. Len(s) \in Nat /\ n \in 0..Len(s)
  BY LenProperties
<1>3. b \in Seq(S) /\ Len(b) = n /\ \A i \in 1..n : b[i] = s[i]
  BY <1>2, PrefixFacts
<1> HIDE DEF a, b
<1>4. n \in 0..Len(a) /\ \A i \in 1..n : b[i] = a[i]
  BY <1>1, <1>2, <1>3
<1>5. SubSeq(a, 1, n) = b
  BY <1>1, <1>3, <1>4, PrefixUnique
<1>6. QED
  BY <1>5 DEF a, b

\* The prefixes of a log with one more event.
LEMMA PrefixAppend ==
    ASSUME NEW S, NEW s \in Seq(S), NEW e \in S, NEW a, a = Append(s, e)
    PROVE  /\ SubSeq(s, 1, Len(s)) = s /\ SubSeq(a, 1, Len(s)) = s /\ SubSeq(a, 1, Len(s) + 1) = a
           /\ \A k \in 0..Len(s) : SubSeq(a, 1, k) = SubSeq(s, 1, k)
<1> DEFINE n == Len(s)
<1>1. n \in Nat /\ a \in Seq(S) /\ Len(a) = n + 1 /\ \A i \in 1..n : a[i] = s[i]
  BY AppendProperties, LenProperties
<1>2. n = Len(s)
  OBVIOUS
<1> HIDE DEF n
<1>3. n \in 0..Len(s) /\ n \in 0..Len(a) /\ n + 1 \in 0..Len(a)
  BY <1>1, <1>2
<1>4. SubSeq(s, 1, n) = s
  BY <1>2, <1>3, PrefixUnique
<1>5. SubSeq(a, 1, n) = s
  BY <1>1, <1>2, <1>3, PrefixUnique
<1>6. SubSeq(a, 1, n + 1) = a
  BY <1>1, <1>3, PrefixUnique
<1>7. ASSUME NEW k \in 0..n PROVE SubSeq(a, 1, k) = SubSeq(s, 1, k)
  <2> DEFINE b == SubSeq(s, 1, k)
  <2>1. b \in Seq(S) /\ Len(b) = k /\ \A i \in 1..k : b[i] = s[i]
    BY <1>2, PrefixFacts
  <2> HIDE DEF b
  <2>2. k \in 0..Len(a) /\ \A i \in 1..k : b[i] = a[i]
    BY <1>1, <2>1
  <2>3. SubSeq(a, 1, k) = b
    BY <1>1, <2>1, <2>2, PrefixUnique
  <2>4. QED
    BY <2>3 DEF b
<1>8. QED
  BY <1>2, <1>4, <1>5, <1>6, <1>7

\* A step that ends settled has all its calls answered, and keeps them so.
LEMMA ClosedCallsStep ==
    ASSUME NEW ev \in Seq(Entries), NEW t, NEW s, s = Scanned(ev), SoundAt(ev, t, s),
           NEW e \in Entries, T!Valid(t, e), Fits(ev, s, e),
           NEW ev2, ev2 = Append(ev, e)
    PROVE  ClosedCalls(ev2)
<1> DEFINE n == Len(ev)
<1>1. /\ n \in Nat /\ DOMAIN ev = 1..n /\ DOMAIN ev2 = 1..n + 1
      /\ ev2[n + 1] = e /\ \A i \in 1..n : ev2[i] = ev[i] /\ ev[i] \in Entries
  BY AppendFacts
<1>2. SubSeq(ev2, 1, n) = ev /\ \A k \in 0..n : SubSeq(ev2, 1, k) = SubSeq(ev, 1, k)
  BY PrefixAppend
<1> HIDE DEF n
<1>3. Shape(t, s) /\ e.type \in Types
  BY EntryFields DEF SoundAt
<1>4. \A i \in 1..n + 1 : i \in 1..n \/ i = n + 1
  BY <1>1
<1>5. \A j \in 1..n : EndsSettled(ev2, j) <=> EndsSettled(ev, j)
  <2>1. \A j \in 1..n : SubSeq(ev2, 1, j - 1) = SubSeq(ev, 1, j - 1) /\ ev2[j] = ev[j]
    BY <1>1, <1>2
  <2>2. QED
    BY <2>1 DEF EndsSettled
<1>6. EndsSettled(ev2, n + 1) => e.type = "step/end" /\ s.pending = <<>>
  <2>1. (n + 1) - 1 = n
    BY <1>1
  <2>2. QED
    BY <1>1, <1>2, <2>1 DEF EndsSettled
<1>7. \A j \in 1..n : EndsSettled(ev, j) => ~Within(t, ev[j])
  BY <1>1 DEF SoundAt, OpenCalls, EndsSettled
<1>8. SUFFICES ASSUME NEW i \in 1..n + 1, NEW j \in 1..n + 1, ev2[i].type = "assistant/message",
                      EndsSettled(ev2, j), SameStep(ev2[i], ev2[j]), NEW c \in 1..ev2[i].call
               PROVE  Answered(ev2, ev2[i], c)
  BY <1>1 DEF ClosedCalls
<1>9. e.type \in StepTypes \union {"step/end"} => Within(t, e)
  BY ValidFacts DEF StepTypes
<1>10. \A x : SameStep(x, e) \/ SameStep(e, x) => (Within(t, e) <=> Within(t, x))
  BY DEF SameStep, Within
<1>11. CASE i \in 1..n /\ j \in 1..n
  <2>1. ev2[i] = ev[i] /\ ev2[j] = ev[j] /\ EndsSettled(ev, j)
    BY <1>1, <1>5, <1>8, <1>11
  <2>2. Answered(ev, ev[i], c)
    BY <1>1, <1>8, <1>11, <2>1 DEF SoundAt, ClosedCalls
  <2>3. ~IsAnswer(e, ev[i], c)
    <3>1. SUFFICES ASSUME IsAnswer(e, ev[i], c) PROVE FALSE
      OBVIOUS
    <3>2. Within(t, ev[i])
      BY <1>9, <1>10, <3>1 DEF IsAnswer, StepTypes
    <3>3. Within(t, ev[j])
      BY <1>8, <2>1, <3>2 DEF SameStep, Within
    <3>4. QED
      BY <1>7, <1>11, <2>1, <3>3
  <2>4. Answered(ev2, ev[i], c)
    BY <2>2, <2>3, OtherAppended, Zenon
  <2>5. QED
    BY <2>1, <2>4
<1>12. CASE i \in 1..n /\ j = n + 1
  <2>1. ev2[i] = ev[i] /\ ev2[j] = e /\ e.type = "step/end" /\ s.pending = <<>>
    BY <1>1, <1>6, <1>8, <1>12
  <2>2. Within(t, ev[i])
    BY <1>8, <1>9, <1>10, <2>1
  <2>3. ~Pending(s, c)
    BY <2>1 DEF Pending, ToSet
  <2>4. Answered(ev, ev[i], c)
    BY <1>1, <1>8, <1>12, <2>1, <2>2, <2>3 DEF SoundAt, OpenCalls
  <2>5. ~IsAnswer(e, ev[i], c)
    BY <2>1 DEF IsAnswer, ResultTypes
  <2>6. Answered(ev2, ev[i], c)
    BY <2>4, <2>5, OtherAppended, Zenon
  <2>7. QED
    BY <2>1, <2>6
<1>13. CASE i = n + 1 /\ j \in 1..n
  <2>1. ev2[i] = e /\ ev2[j] = ev[j] /\ EndsSettled(ev, j) /\ e.type = "assistant/message"
    BY <1>1, <1>5, <1>8, <1>13
  <2>2. Within(t, ev[j])
    BY <1>8, <1>9, <1>10, <2>1 DEF StepTypes
  <2>3. QED
    BY <1>7, <1>13, <2>1, <2>2
<1>14. CASE i = n + 1 /\ j = n + 1
  BY <1>1, <1>6, <1>8, <1>14
<1>15. QED
  BY <1>4, <1>11, <1>12, <1>13, <1>14

\* A message's step is open or has ended, whatever is appended.
LEMMA MessagesEndStep ==
    ASSUME NEW ev \in Seq(Entries), NEW t, NEW s, SoundAt(ev, t, s),
           NEW e \in Entries, T!Valid(t, e),
           NEW ev2, ev2 = Append(ev, e), NEW t2, t2 = T!Apply(t, e)
    PROVE  MessagesEnd(ev2, t2)
<1> DEFINE n == Len(ev)
<1>1. /\ n \in Nat /\ DOMAIN ev = 1..n /\ DOMAIN ev2 = 1..n + 1
      /\ ev2[n + 1] = e /\ \A i \in 1..n : ev2[i] = ev[i] /\ ev[i] \in Entries
  BY AppendFacts
<1> HIDE DEF n
<1>2. Shape(t, s) /\ e.type \in Types
  BY EntryFields DEF SoundAt
<1>3. n + 1 \in 1..n + 1 /\ \A i \in 1..n + 1 : i \in 1..n \/ i = n + 1
  BY <1>1
<1>4. SUFFICES ASSUME NEW i \in 1..n + 1, ev2[i].type = "assistant/message"
               PROVE  Within(t2, ev2[i]) \/ \E j \in 1..n + 1 : ev2[j].type = "step/end" /\ SameStep(ev2[i], ev2[j])
  BY <1>1 DEF MessagesEnd
<1>5. CASE i = n + 1
  <2>1. e.type \in StepTypes
    BY <1>1, <1>4, <1>5 DEF StepTypes
  <2>2. Within(t2, e)
    BY <1>2, <2>1, OpenStepMoves
  <2>3. QED
    BY <1>1, <1>5, <2>2
<1>6. CASE i \in 1..n /\ ~Within(t, ev[i])
  <2>1. PICK j \in 1..n : ev[j].type = "step/end" /\ SameStep(ev[i], ev[j])
    BY <1>1, <1>4, <1>6 DEF SoundAt, MessagesEnd
  <2>2. j \in 1..n + 1 /\ ev2[j] = ev[j] /\ ev2[i] = ev[i]
    BY <1>1, <1>6
  <2>3. QED
    BY <2>1, <2>2
<1>7. CASE i \in 1..n /\ Within(t, ev[i])
  <2>1. t.openStep # 0 /\ t.openTurn # 0 /\ ev2[i] = ev[i]
    BY <1>1, <1>2, <1>7 DEF Within, Shape
  <2>2. e.type \notin {"turn/start", "turn/end", "step/start"}
    BY <2>1, ValidFacts
  <2>3. CASE e.type = "step/end"
    <3>1. SameStep(ev[i], e)
      BY <1>7, <2>3, ValidFacts DEF Within, SameStep
    <3>2. QED
      BY <1>1, <1>3, <2>1, <2>3, <3>1
  <2>4. CASE e.type \in StepTypes
    <3>1. Within(t2, ev[i])
      BY <1>2, <1>7, <2>4, OpenStepMoves
    <3>2. QED
      BY <2>1, <3>1
  <2>5. QED
    BY <1>2, <2>2, <2>3, <2>4 DEF Types, StepTypes
<1>8. QED
  BY <1>3, <1>5, <1>6, <1>7

\* A sound log with a fitting event the companion accepts is sound.
LEMMA SoundAppend ==
    ASSUME NEW ev \in Seq(Entries), Sound(ev),
           NEW e \in Entries, T!Valid(Cursor(ev), e), Fits(ev, Scanned(ev), e)
    PROVE  Sound(Append(ev, e))
<1> DEFINE t == Cursor(ev)
           s == Scanned(ev)
           ev2 == Append(ev, e)
           t2 == T!Apply(t, e)
           s2 == Scan(s, e)
<1>1. SoundAt(ev, t, s) /\ s = Scanned(ev) /\ T!Valid(t, e) /\ Fits(ev, s, e)
  BY DEF Sound
<1>2. Cursor(ev2) = t2 /\ Scanned(ev2) = s2
  BY CursorAppend, ScannedAppend
<1>3. ev2 = Append(ev, e) /\ t2 = T!Apply(t, e) /\ s2 = Scan(s, e)
  OBVIOUS
<1> HIDE DEF t, s, ev2, t2, s2
<1>4. Shape(t2, s2)
  <2>1. Shape(t, s)
    BY <1>1 DEF SoundAt
  <2>2. e.type = "assistant/message" => s.pending = <<>>
    BY <1>1, MessageOpens
  <2>3. QED
    BY <1>1, <1>3, <2>1, <2>2, ShapeStep
<1>5. \A i \in DOMAIN ev2 : Reached(t2, ev2[i])
  <2>1. /\ Len(ev) \in Nat /\ DOMAIN ev = 1..Len(ev) /\ DOMAIN ev2 = 1..Len(ev) + 1
        /\ ev2[Len(ev) + 1] = e /\ \A i \in 1..Len(ev) : ev2[i] = ev[i] /\ ev[i] \in Entries
    BY <1>3, AppendFacts
  <2>2. (\A x \in Entries : Reached(t, x) => Reached(t2, x)) /\ Reached(t2, e)
    BY <1>1, <1>3, ReachedStep DEF SoundAt, Fits
  <2>3. \A i \in 1..Len(ev) : Reached(t2, ev2[i])
    BY <1>1, <2>1, <2>2 DEF SoundAt
  <2>4. \A i \in 1..Len(ev) + 1 : i \in 1..Len(ev) \/ i = Len(ev) + 1
    BY <2>1
  <2>5. QED
    BY <2>1, <2>2, <2>3, <2>4
<1>6. OpenCalls(ev2, t2, s2) /\ PendingRequested(ev2, t2, s2)
  BY <1>1, <1>3, OpenCallsStep, Zenon
<1>7. ClosedCalls(ev2)
  BY <1>1, <1>3, ClosedCallsStep, Zenon
<1>8. MessagesEnd(ev2, t2)
  BY <1>1, <1>3, MessagesEndStep, Zenon
<1>9. QED
  BY <1>2, <1>4, <1>5, <1>6, <1>7, <1>8 DEF Sound, SoundAt, ev2

-----------------------------------------------------------------------------
(* The closers that repair computes.                                       *)

\* An event and a call's event.
LEMMA EventFields ==
    ASSUME NEW y \in Types, NEW a \in Nat, NEW b \in Nat, NEW c \in Nat, NEW e,
           e = T!CallEvent(y, a, b, c)
    PROVE  e \in Entries /\ e.type = y /\ e.turn = a /\ e.step = b /\ e.call = c
<1> DEFINE zero == 0
           r == [type |-> y, turn |-> a, step |-> b, call |-> zero]
<1>1. zero \in Nat /\ r \in Entries /\ e = [r EXCEPT !.call = c] /\ r.type = y /\ r.turn = a /\ r.step = b
  BY DEF T!CallEvent, T!Event, T!None, Entries
<1> HIDE DEF r
<1>2. QED
  BY <1>1 DEF Entries

\* The fields of an event that is about no call.
LEMMA PlainEventFields ==
    ASSUME NEW y \in Types, NEW a \in Nat, NEW b \in Nat, NEW e, e = T!Event(y, a, b)
    PROVE  e \in Entries /\ e.type = y /\ e.turn = a /\ e.step = b /\ e.call = 0
<1> DEFINE zero == 0
<1>1. e = [type |-> y, turn |-> a, step |-> b, call |-> zero] /\ zero \in Nat
  BY DEF T!Event, T!None
<1>2. e \in Entries /\ e.type = y /\ e.turn = a /\ e.step = b /\ e.call = zero
  BY <1>1 DEF Entries
<1>3. QED
  BY <1>2

\* What the companion accepts.
LEMMA Accepted ==
    ASSUME NEW t, NEW e
    PROVE  /\ e.type = "turn/start" /\ t.openTurn = 0 /\ e.turn = t.nextTurn => T!Valid(t, e)
           /\ e.type = "turn/end" /\ t.openTurn = e.turn /\ t.openTurn # 0 /\ t.openStep = 0 => T!Valid(t, e)
           /\ e.type = "step/start" /\ t.openTurn = e.turn /\ t.openTurn # 0 /\ t.openStep = 0
                 /\ e.step = t.nextStep => T!Valid(t, e)
           /\ e.type = "step/end" /\ Within(t, e) => T!Valid(t, e)
           /\ e.type \in StepTypes /\ Within(t, e) /\ (e.type = "tool/result" => e.call \in t.pendingCalls)
                 => T!Valid(t, e)
<1>1. /\ e.type = "turn/start" /\ t.openTurn = 0 /\ e.turn = t.nextTurn => T!Valid(t, e)
      /\ e.type = "turn/end" /\ t.openTurn = e.turn /\ t.openTurn # 0 /\ t.openStep = 0 => T!Valid(t, e)
      /\ e.type = "step/start" /\ t.openTurn = e.turn /\ t.openTurn # 0 /\ t.openStep = 0
            /\ e.step = t.nextStep => T!Valid(t, e)
  BY DEF T!Valid, T!None, T!StepEvents, T!TurnEvents
<1>2. e.type = "step/end" /\ T!InOpenStep(t, e) => T!Valid(t, e)
  BY DEF T!Valid, T!StepEvents, T!TurnEvents
<1>3. e.type = "assistant/message" /\ T!InOpenStep(t, e) => T!Valid(t, e)
  BY DEF T!Valid, T!StepEvents, T!TurnEvents
<1>4. e.type = "tool/call" /\ T!InOpenStep(t, e) => T!Valid(t, e)
  BY DEF T!Valid, T!StepEvents, T!TurnEvents
<1>5. e.type = "tool/result" /\ T!InOpenStep(t, e) /\ e.call \in t.pendingCalls => T!Valid(t, e)
  BY DEF T!Valid, T!StepEvents, T!TurnEvents
<1>6. e.type = "tool/not-started" /\ T!InOpenStep(t, e) => T!Valid(t, e)
  BY DEF T!Valid, T!StepEvents, T!TurnEvents
<1>7. Within(t, e) <=> T!InOpenStep(t, e)
  BY DEF Within, T!InOpenStep, T!None
<1>8. QED
  BY <1>1, <1>2, <1>3, <1>4, <1>5, <1>6, <1>7 DEF StepTypes, ResultTypes

\* The answers of the closers, and the closers, of a scan.
AnswerTo(s, p) == T!CallEvent(IF p.started THEN "tool/result" ELSE "tool/not-started", s.openTurn, p.step, p.call)
AnswersOf(s) == [i \in DOMAIN s.pending |-> AnswerTo(s, s.pending[i])]
ClosersOf(s) == IF s.openTurn = 0 THEN <<>> ELSE AnswersOf(s) \o StepCloser(s) \o TurnCloser(s)

\* The closers are a function of the scan alone.
LEMMA ClosersAre == ASSUME NEW ev PROVE Closers(ev) = ClosersOf(Scanned(ev))
  BY DEF Closers, ClosersOf, AnswersOf, AnswerTo, T!None

\* One answer for each pending call, in its order.
LEMMA AnswersAre ==
    ASSUME NEW s \in ScanStates
    PROVE  /\ AnswersOf(s) \in Seq(Entries) /\ Len(AnswersOf(s)) = Len(s.pending)
           /\ \A i \in 1..Len(s.pending) : AnswersOf(s)[i] = AnswerTo(s, s.pending[i])
           /\ s.pending = <<>> => AnswersOf(s) = <<>>
<1>1. s.openTurn \in Nat /\ s.pending \in Seq(Waiting)
  BY DEF ScanStates
<1>2. Len(s.pending) \in Nat /\ DOMAIN s.pending = 1..Len(s.pending) /\ \A i \in 1..Len(s.pending) : s.pending[i] \in Waiting
  BY <1>1, LenProperties, ElementOfSeq
<1>3. ASSUME NEW p \in Waiting PROVE AnswerTo(s, p) \in Entries
  <2>1. p.step \in Nat /\ p.call \in Nat
    BY DEF Waiting
  <2> DEFINE y == IF p.started THEN "tool/result" ELSE "tool/not-started"
  <2>2. y \in Types /\ AnswerTo(s, p) = T!CallEvent(y, s.openTurn, p.step, p.call)
    BY DEF Types, ResultTypes, AnswerTo
  <2> HIDE DEF y
  <2>3. QED
    BY <1>1, <2>1, <2>2, EventFields
<1> DEFINE a == AnswersOf(s)
<1>4. a = [i \in 1..Len(s.pending) |-> a[i]] /\ \A i \in 1..Len(s.pending) : a[i] = AnswerTo(s, s.pending[i])
  BY <1>2 DEF AnswersOf
<1>5. s.pending = <<>> => a = <<>>
  BY DEF AnswersOf
<1> HIDE DEF a
<1>6. \A i \in 1..Len(s.pending) : a[i] \in Entries
  BY <1>2, <1>3, <1>4
<1>7. [i \in 1..Len(s.pending) |-> a[i]] \in Seq(Entries)
  BY <1>2, <1>6
<1>8. a \in Seq(Entries)
  BY <1>4, <1>7
<1>9. Len(a) = Len(s.pending)
  BY <1>2, <1>4, <1>8, LenProperties
<1>10. QED
  BY <1>4, <1>5, <1>8, <1>9 DEF a

\* The head and the tail of a concatenation.
LEMMA ConcatHeadTail ==
    ASSUME NEW S, NEW a \in Seq(S), NEW b \in Seq(S), a # <<>>, NEW c, c = a \o b
    PROVE  /\ c \in Seq(S) /\ c # <<>> /\ Head(c) = a[1] /\ Tail(c) = Tail(a) \o b
<1>1. Len(a) \in Nat /\ Len(b) \in Nat /\ Len(a) > 0
  BY LenProperties, EmptySeq
<1>2. c \in Seq(S) /\ Len(c) = Len(a) + Len(b) /\ \A i \in 1..Len(a) + Len(b) : c[i] = IF i <= Len(a) THEN a[i] ELSE b[i - Len(a)]
  BY ConcatProperties
<1>3. c # <<>>
  BY <1>1, <1>2, EmptySeq
<1>4. Head(c) = a[1]
  BY <1>1, <1>2, <1>3
<1> DEFINE d == Tail(a)
           f == Tail(c)
           g == d \o b
<1>5. d \in Seq(S) /\ Len(d) = Len(a) - 1 /\ \A i \in 1..Len(d) : d[i] = a[i + 1]
  BY HeadTailProperties
<1>6. f \in Seq(S) /\ Len(f) = Len(c) - 1 /\ \A i \in 1..Len(f) : f[i] = c[i + 1]
  BY <1>2, <1>3, HeadTailProperties
<1> HIDE DEF d, f
<1>7. g \in Seq(S) /\ Len(g) = Len(d) + Len(b) /\ \A i \in 1..Len(d) + Len(b) : g[i] = IF i <= Len(d) THEN d[i] ELSE b[i - Len(d)]
  BY <1>5, ConcatProperties
<1> HIDE DEF g
<1>8. Len(f) = Len(g)
  BY <1>1, <1>2, <1>5, <1>6, <1>7
<1>9. ASSUME NEW i \in 1..Len(f) PROVE f[i] = g[i]
  <2>1. f[i] = c[i + 1] /\ i + 1 \in 1..Len(a) + Len(b)
    BY <1>1, <1>2, <1>6
  <2>2. CASE i <= Len(d)
    <3>1. i \in 1..Len(d) /\ i + 1 <= Len(a) /\ i \in 1..Len(d) + Len(b)
      BY <1>1, <1>5, <2>2
    <3>2. QED
      BY <1>2, <1>5, <1>7, <2>1, <3>1
  <2>3. CASE ~(i <= Len(d))
    <3>1. ~(i + 1 <= Len(a)) /\ i \in 1..Len(d) + Len(b) /\ (i + 1) - Len(a) = i - Len(d)
      BY <1>1, <1>2, <1>5, <1>6, <2>3
    <3>2. QED
      BY <1>2, <1>7, <2>1, <2>3, <3>1
  <2>4. QED
    BY <2>2, <2>3
<1>10. f = g
  BY <1>6, <1>7, <1>8, <1>9, SeqEqual
<1>11. QED
  BY <1>2, <1>3, <1>4, <1>10 DEF d, f, g

\* Moving the head of one sequence to the end of another keeps their concatenation.
LEMMA AppendHeadTail ==
    ASSUME NEW S, NEW s \in Seq(S), NEW c \in Seq(S), c # <<>>
    PROVE  Append(s, Head(c)) \o Tail(c) = s \o c
<1>1. Head(c) \in S /\ Tail(c) \in Seq(S) /\ Len(Tail(c)) = Len(c) - 1 /\ \A i \in 1..Len(Tail(c)) : Tail(c)[i] = c[i + 1]
  BY HeadTailProperties
<1>2. Len(s) \in Nat /\ Len(c) \in Nat /\ Len(c) > 0 /\ Head(c) = c[1]
  BY LenProperties, EmptySeq
<1> DEFINE a == Append(s, Head(c))
           d == Tail(c)
           f == a \o d
           g == s \o c
<1>3. a \in Seq(S) /\ Len(a) = Len(s) + 1 /\ a[Len(s) + 1] = Head(c) /\ \A i \in 1..Len(s) : a[i] = s[i]
  BY <1>1, AppendProperties
<1>4. d \in Seq(S) /\ Len(d) = Len(c) - 1 /\ \A i \in 1..Len(d) : d[i] = c[i + 1]
  BY <1>1
<1>5. g \in Seq(S) /\ Len(g) = Len(s) + Len(c) /\ \A i \in 1..Len(s) + Len(c) : g[i] = IF i <= Len(s) THEN s[i] ELSE c[i - Len(s)]
  BY ConcatProperties
<1> HIDE DEF a, d, g
<1>6. f \in Seq(S) /\ Len(f) = Len(a) + Len(d) /\ \A i \in 1..Len(a) + Len(d) : f[i] = IF i <= Len(a) THEN a[i] ELSE d[i - Len(a)]
  BY <1>3, <1>4, ConcatProperties
<1> HIDE DEF f
<1>7. Len(f) = Len(g)
  BY <1>2, <1>3, <1>4, <1>5, <1>6
<1>8. ASSUME NEW i \in 1..Len(f) PROVE f[i] = g[i]
  <2>1. i \in 1..Len(a) + Len(d) /\ i \in 1..Len(s) + Len(c)
    BY <1>2, <1>3, <1>4, <1>5, <1>6
  <2>2. CASE i <= Len(s)
    <3>1. i \in 1..Len(s) /\ i <= Len(a)
      BY <1>2, <1>3, <2>1, <2>2
    <3>2. QED
      BY <1>3, <1>5, <1>6, <2>1, <2>2, <3>1
  <2>3. CASE i = Len(s) + 1
    <3>1. i <= Len(a) /\ ~(i <= Len(s)) /\ i - Len(s) = 1
      BY <1>2, <1>3, <2>3
    <3>2. QED
      BY <1>2, <1>3, <1>5, <1>6, <2>1, <2>3, <3>1
  <2>4. CASE i > Len(s) + 1
    <3>1. ~(i <= Len(a)) /\ ~(i <= Len(s)) /\ i - Len(a) \in 1..Len(d) /\ (i - Len(a)) + 1 = i - Len(s)
      BY <1>2, <1>3, <1>4, <2>1, <2>4
    <3>2. QED
      BY <1>4, <1>5, <1>6, <2>1, <3>1
  <2>5. QED
    BY <1>2, <2>1, <2>2, <2>3, <2>4
<1>9. f = g
  BY <1>5, <1>6, <1>7, <1>8, SeqEqual
<1>10. QED
  BY <1>9 DEF a, d, f, g

\* A pair, element by element.
LEMMA PairIsConcat ==
    ASSUME NEW S, NEW a \in S, NEW b \in S
    PROVE  <<a>> \o <<b>> = <<a, b>>
<1> DEFINE x == <<a>> \o <<b>>
           y == <<a, b>>
           u == <<a>>
           v == <<b>>
<1>1. u \in Seq(S) /\ v \in Seq(S) /\ Len(u) = 1 /\ Len(v) = 1 /\ u[1] = a /\ v[1] = b
  OBVIOUS
<1>2. y \in Seq(S) /\ Len(y) = 2 /\ y[1] = a /\ y[2] = b
  OBVIOUS
<1>3. x = u \o v
  OBVIOUS
<1> HIDE DEF u, v, x, y
<1>4. x \in Seq(S) /\ Len(x) = 2 /\ x[1] = a /\ x[2] = b
  BY <1>1, <1>3, ConcatProperties
<1>5. x = y
  <2>1. \A i \in 1..2 : x[i] = y[i]
    BY <1>2, <1>4
  <2>2. QED
    BY <1>2, <1>4, <2>1, SeqEqual
<1>6. QED
  BY <1>5 DEF x, y

\* The closers of a scan with an open turn, by what is open in it.
LEMMA ClosersForm ==
    ASSUME NEW s \in ScanStates, s.openTurn # 0, NEW se, se = T!Event("step/end", s.openTurn, s.openStep),
           NEW te, te = T!Event("turn/end", s.openTurn, 0)
    PROVE  /\ se \in Entries /\ te \in Entries
           /\ <<te>> \in Seq(Entries) /\ <<se>> \in Seq(Entries) /\ <<se, te>> \in Seq(Entries)
           /\ ClosersOf(s) \in Seq(Entries) /\ ClosersOf(s) # <<>>
           /\ s.openStep # 0 => ClosersOf(s) = AnswersOf(s) \o <<se, te>>
           /\ s.openStep # 0 /\ s.pending = <<>> => ClosersOf(s) = <<se, te>>
           /\ s.openStep = 0 /\ s.pending = <<>> => ClosersOf(s) = <<te>>
<1>1. s.openTurn \in Nat /\ s.openStep \in Nat /\ 0 \in Nat /\ "step/end" \in Types /\ "turn/end" \in Types
  BY DEF ScanStates, Types
<1>2. se \in Entries /\ te \in Entries
  BY <1>1, PlainEventFields
<1>3. <<te>> \in Seq(Entries) /\ <<se>> \in Seq(Entries) /\ <<se, te>> \in Seq(Entries) /\ <<>> \in Seq(Entries)
  BY <1>2
<1> DEFINE a == AnswersOf(s)
           sc == StepCloser(s)
           tc == TurnCloser(s)
<1>4. ClosersOf(s) = (a \o sc) \o tc
  BY DEF ClosersOf
<1>5. tc = <<te>> /\ (s.openStep # 0 => sc = <<se>>) /\ (s.openStep = 0 => sc = <<>>)
  BY DEF StepCloser, TurnCloser, T!None
<1>6. a \in Seq(Entries) /\ (s.pending = <<>> => a = <<>>)
  BY AnswersAre
<1> HIDE DEF a, sc, tc
<1>7. sc \in Seq(Entries) /\ tc \in Seq(Entries) /\ a \o sc \in Seq(Entries)
  BY <1>3, <1>5, <1>6, ConcatProperties
<1>8. ClosersOf(s) \in Seq(Entries)
  BY <1>4, <1>7, ConcatProperties
<1>9. ClosersOf(s) # <<>>
  <2>1. tc # <<>>
    BY <1>5
  <2>2. (a \o sc) \o tc = <<>> => tc = <<>>
    BY <1>7, ConcatEqualIffEmpty
  <2>3. QED
    BY <1>4, <2>1, <2>2
<1>10. ClosersOf(s) = a \o (sc \o tc)
  BY <1>4, <1>6, <1>7, ConcatAssociative
<1>11. s.openStep # 0 => sc \o tc = <<se, te>>
  <2>1. <<se>> \o <<te>> = <<se, te>>
    BY <1>2, PairIsConcat
  <2>2. QED
    BY <1>5, <2>1, Zenon
<1>12. s.openStep = 0 => sc \o tc = <<te>>
  BY <1>5
<1>13. s.pending = <<>> => ClosersOf(s) = sc \o tc
  <2>1. sc \o tc \in Seq(Entries)
    BY <1>7, ConcatProperties
  <2>2. <<>> \o (sc \o tc) = sc \o tc
    BY <2>1, ConcatEmptySeq
  <2>3. QED
    BY <1>6, <1>10, <2>2, Zenon
<1>14. s.openStep # 0 => ClosersOf(s) = a \o <<se, te>>
  BY <1>10, <1>11, Zenon
<1>15. s.openStep # 0 /\ s.pending = <<>> => ClosersOf(s) = <<se, te>>
  BY <1>11, <1>13, Zenon
<1>16. s.openStep = 0 /\ s.pending = <<>> => ClosersOf(s) = <<te>>
  BY <1>12, <1>13, Zenon
<1>17. QED
  BY <1>2, <1>3, <1>8, <1>9, <1>14, <1>15, <1>16 DEF a

\* Storing the first closer leaves the rest to be computed.
CloserFacts(ev, t, s, e) ==
    /\ e \in Entries /\ T!Valid(t, e) /\ Fits(ev, s, e)
    /\ e.type \in ResultTypes \union {"step/end", "turn/end"}
    /\ e.type = "step/end" => s.pending = <<>>
    /\ e.type = "tool/not-started" => Within(t, e) /\ \E p \in ToSet(s.pending) : p.call = e.call /\ ~p.started

\* While a call is pending, the next closer answers it.
LEMMA AnswerStep ==
    ASSUME NEW ev, NEW t, NEW s, Shape(t, s), s.pending # <<>>, NEW e, e = Head(ClosersOf(s))
    PROVE  CloserFacts(ev, t, s, e) /\ ClosersOf(Scan(s, e)) = Tail(ClosersOf(s))
<1> DEFINE q == s.pending
           p == q[1]
           a == AnswersOf(s)
           n == Len(q)
           s2 == Scan(s, e)
<1>1. s \in ScanStates /\ t \in Traces /\ q \in Seq(Waiting) /\ Distinct(q)
  BY DEF Shape, ScanStates
<1>2. n \in Nat /\ n > 0 /\ DOMAIN q = 1..n /\ 1 \in 1..n /\ \A i \in 1..n : q[i] \in Waiting
  BY <1>1, LenProperties, EmptySeq, ElementOfSeq
<1>3. p \in ToSet(q) /\ p \in Waiting /\ p.call \in Nat /\ p.step \in Nat
  BY <1>2 DEF ToSet, Waiting
<1>4. t.openStep # 0 /\ s.openStep = t.openStep /\ s.openTurn = t.openTurn /\ t.openTurn # 0 /\ s.openTurn \in Nat
  BY <1>1 DEF Shape, ScanStates
<1>5. p.step = t.openStep /\ (p.started => p.call \in t.pendingCalls)
  BY <1>3 DEF Shape
<1> DEFINE se == T!Event("step/end", s.openTurn, s.openStep)
           te == T!Event("turn/end", s.openTurn, 0)
           b == <<se, te>>
<1>6. b \in Seq(Entries) /\ ClosersOf(s) = a \o b
  BY <1>1, <1>4, ClosersForm
<1>7. a \in Seq(Entries) /\ Len(a) = n /\ \A i \in 1..n : a[i] = AnswerTo(s, q[i])
  BY <1>1, AnswersAre
<1>8. ClosersOf(s) # <<>> /\ Head(ClosersOf(s)) = a[1] /\ Tail(ClosersOf(s)) = Tail(a) \o b
  <2> HIDE DEF a, b, n
  <2>1. a # <<>>
    BY <1>2, <1>7, EmptySeq
  <2>2. ASSUME NEW c, c = a \o b PROVE c # <<>> /\ Head(c) = a[1] /\ Tail(c) = Tail(a) \o b
    BY <1>6, <1>7, <2>1, <2>2, ConcatHeadTail
  <2>3. QED
    BY <1>6, <2>2, Zenon
<1>9. e = AnswerTo(s, p)
  BY <1>2, <1>7, <1>8
<1>10. e \in Entries /\ e.turn = s.openTurn /\ e.step = p.step /\ e.call = p.call
       /\ e.type = (IF p.started THEN "tool/result" ELSE "tool/not-started")
  <2> DEFINE y == IF p.started THEN "tool/result" ELSE "tool/not-started"
  <2>1. y \in Types /\ e = T!CallEvent(y, s.openTurn, p.step, p.call)
    BY <1>9 DEF AnswerTo, Types, ResultTypes
  <2> HIDE DEF y, p
  <2>2. e \in Entries /\ e.type = y /\ e.turn = s.openTurn /\ e.step = p.step /\ e.call = p.call
    BY <1>3, <1>4, <2>1, EventFields
  <2>3. QED
    BY <2>2 DEF y
<1> HIDE DEF p
<1>11. e.type \in ResultTypes
  BY <1>10 DEF ResultTypes
<1>12. CloserFacts(ev, t, s, e)
  <2>1. Within(t, e)
    BY <1>4, <1>5, <1>10 DEF Within
  <2>2. T!Valid(t, e)
    <3>1. e.type \in StepTypes
      BY <1>11 DEF StepTypes
    <3>2. e.type = "tool/result" => e.call \in t.pendingCalls
      BY <1>5, <1>10
    <3>3. QED
      BY <2>1, <3>1, <3>2, Accepted
  <2>3. Fits(ev, s, e)
    BY <1>3, <1>10, <1>11 DEF Fits, Pending, ResultTypes, p
  <2>4. e.type = "tool/not-started" => \E r \in ToSet(s.pending) : r.call = e.call /\ ~r.started
    BY <1>3, <1>10 DEF q
  <2>5. e.type # "step/end"
    BY <1>11 DEF ResultTypes
  <2>6. QED
    BY <1>10, <1>11, <2>1, <2>2, <2>3, <2>4, <2>5 DEF CloserFacts
<1>13. s2.openTurn = s.openTurn /\ s2.openStep = s.openStep /\ s2.pending = Tail(q) /\ s2 \in ScanStates
  <2>1. s2.openTurn = s.openTurn /\ s2.openStep = s.openStep /\ s2.pending = Deleted(q, e.call)
        /\ (s2.pending \in Seq(Waiting) => s2 \in ScanStates)
    BY <1>1, <1>10, <1>11, ScanMoves
  <2>2. Deleted(q, e.call) = Tail(q)
    BY <1>1, <1>10, PendingDeleted DEF p
  <2>3. Tail(q) \in Seq(Waiting)
    BY <1>1, HeadTailProperties
  <2>4. QED
    BY <2>1, <2>2, <2>3
<1>14. Len(Tail(q)) = n - 1 /\ \A i \in 1..n - 1 : Tail(q)[i] = q[i + 1]
  BY <1>1, HeadTailProperties
<1> HIDE DEF s2
<1>15. AnswersOf(s2) = Tail(a)
  <2> DEFINE a2 == AnswersOf(s2)
             d == Tail(a)
  <2>1. a2 \in Seq(Entries) /\ Len(a2) = n - 1 /\ \A i \in 1..n - 1 : a2[i] = AnswerTo(s2, Tail(q)[i])
    <3>1. a2 \in Seq(Entries) /\ Len(a2) = Len(s2.pending) /\ \A i \in 1..Len(s2.pending) : a2[i] = AnswerTo(s2, s2.pending[i])
      BY <1>13, AnswersAre
    <3>2. QED
      BY <1>13, <1>14, <3>1
  <2>2. d \in Seq(Entries) /\ Len(d) = n - 1 /\ \A i \in 1..n - 1 : d[i] = a[i + 1]
    <3> HIDE DEF a
    <3>1. a # <<>>
      BY <1>2, <1>7, EmptySeq
    <3>2. d \in Seq(Entries) /\ Len(d) = Len(a) - 1 /\ \A i \in 1..Len(d) : d[i] = a[i + 1]
      BY <1>7, <3>1, HeadTailProperties
    <3>3. QED
      BY <1>7, <3>2
  <2>3. \A r : AnswerTo(s2, r) = AnswerTo(s, r)
    BY <1>13 DEF AnswerTo
  <2> HIDE DEF a2, d, a
  <2>4. \A i \in 1..n - 1 : a2[i] = d[i]
    <3> TAKE i \in 1..n - 1
    <3>1. i + 1 \in 1..n
      BY <1>2
    <3>2. QED
      BY <1>7, <1>14, <2>1, <2>2, <2>3, <3>1
  <2>5. a2 = d
    BY <1>2, <2>1, <2>2, <2>4, SeqEqual
  <2>6. QED
    BY <2>5 DEF a2, d
<1>16. ClosersOf(s2) = AnswersOf(s2) \o b
  <2>1. b = <<T!Event("step/end", s2.openTurn, s2.openStep), T!Event("turn/end", s2.openTurn, 0)>>
    BY <1>13
  <2>2. s2.openTurn # 0 /\ s2.openStep # 0
    BY <1>4, <1>13
  <2>3. QED
    BY <1>13, <2>1, <2>2, ClosersForm
<1>17. QED
  BY <1>8, <1>12, <1>15, <1>16, Zenon DEF s2

\* Then the next closer ends the step.
LEMMA EndStepCloser ==
    ASSUME NEW ev, NEW t, NEW s, Shape(t, s), s.pending = <<>>, s.openStep # 0, NEW e, e = Head(ClosersOf(s))
    PROVE  CloserFacts(ev, t, s, e) /\ ClosersOf(Scan(s, e)) = Tail(ClosersOf(s))
<1> DEFINE se == T!Event("step/end", s.openTurn, s.openStep)
           te == T!Event("turn/end", s.openTurn, 0)
           s2 == Scan(s, e)
<1>1. s \in ScanStates /\ t \in Traces /\ s.openStep = t.openStep /\ s.openTurn = t.openTurn /\ s.openTurn # 0
  BY DEF Shape
<1>2. s.openTurn \in Nat /\ s.openStep \in Nat /\ "step/end" \in Types
  BY <1>1 DEF ScanStates, Types
<1>3. se \in Entries /\ te \in Entries /\ ClosersOf(s) = <<se, te>>
  BY <1>1, ClosersForm
<1>4. e = se
  BY <1>3
<1>5. Tail(ClosersOf(s)) = <<te>>
  <2> DEFINE c == <<se, te>>
             d == Tail(c)
             u == <<te>>
  <2>1. c \in Seq(Entries) /\ c # <<>> /\ Len(c) = 2 /\ c[2] = te /\ u \in Seq(Entries) /\ Len(u) = 1 /\ u[1] = te
    BY <1>3
  <2> HIDE DEF c, u
  <2>2. d \in Seq(Entries) /\ Len(d) = Len(c) - 1 /\ \A i \in 1..Len(d) : d[i] = c[i + 1]
    BY <2>1, HeadTailProperties
  <2> HIDE DEF d
  <2>3. Len(d) = 1 /\ \A i \in 1..1 : d[i] = u[i]
    BY <2>1, <2>2
  <2>4. d = u
    BY <2>1, <2>2, <2>3, SeqEqual
  <2>5. QED
    BY <1>3, <2>4 DEF c, d, u
<1>6. e.type = "step/end" /\ e.turn = s.openTurn /\ e.step = s.openStep
  <2> HIDE DEF te
  <2>1. e = T!Event("step/end", s.openTurn, s.openStep)
    BY <1>4
  <2>2. QED
    BY <1>2, <2>1, PlainEventFields
<1>7. CloserFacts(ev, t, s, e)
  <2>1. Within(t, e)
    BY <1>1, <1>6 DEF Within
  <2>2. T!Valid(t, e)
    BY <1>6, <2>1, Accepted
  <2>3. Fits(ev, s, e)
    BY <1>6 DEF Fits, ResultTypes
  <2> HIDE DEF se, te
  <2>4. e \in Entries
    BY <1>3, <1>4
  <2>5. QED
    BY <1>6, <2>1, <2>2, <2>3, <2>4 DEF CloserFacts
<1>8. s2.openTurn = s.openTurn /\ s2.openStep = 0 /\ s2.pending = <<>> /\ s2 \in ScanStates
  <2> HIDE DEF se, te
  <2>1. e \in Entries /\ <<>> \in Seq(Waiting)
    BY <1>3, <1>4, EmptySeq
  <2>2. s2.openTurn = s.openTurn /\ s2.openStep = 0 /\ s2.pending = <<>>
    BY <1>1, <1>6, <2>1, ScanMoves
  <2>3. s2.pending \in Seq(Waiting) => s2 \in ScanStates
    BY <1>1, <1>6, <2>1, ScanMoves
  <2>4. QED
    <3>1. s2.pending \in Seq(Waiting)
      BY <2>1, <2>2, Zenon
    <3>2. QED
      BY <2>2, <2>3, <3>1, Zenon
<1> HIDE DEF s2
<1>9. ClosersOf(s2) = <<te>>
  <2>1. s2.openTurn # 0 /\ te = T!Event("turn/end", s2.openTurn, 0)
    BY <1>1, <1>8
  <2>2. QED
    BY <1>8, <2>1, ClosersForm
<1>10. QED
  BY <1>5, <1>7, <1>9, Zenon DEF s2

\* The last one ends the turn.
LEMMA EndTurnCloser ==
    ASSUME NEW ev, NEW t, NEW s, Shape(t, s), s.openStep = 0, s.openTurn # 0, NEW e, e = Head(ClosersOf(s))
    PROVE  CloserFacts(ev, t, s, e) /\ ClosersOf(Scan(s, e)) = Tail(ClosersOf(s))
<1> DEFINE te == T!Event("turn/end", s.openTurn, 0)
           s2 == Scan(s, e)
<1>1. s \in ScanStates /\ t \in Traces /\ s.openStep = t.openStep /\ s.openTurn = t.openTurn /\ s.pending = <<>>
  BY DEF Shape
<1>2. s.openTurn \in Nat /\ 0 \in Nat /\ "turn/end" \in Types
  BY <1>1 DEF ScanStates, Types
<1>3. te \in Entries /\ ClosersOf(s) = <<te>>
  BY <1>1, ClosersForm
<1>4. e = te
  BY <1>3
<1>5. Tail(ClosersOf(s)) = <<>>
  <2> HIDE DEF te
  <2>1. <<te>> \in Seq(Entries) /\ <<te>> # <<>> /\ Len(<<te>>) = 1
    BY <1>3
  <2>2. Tail(<<te>>) \in Seq(Entries) /\ Len(Tail(<<te>>)) = 0
    BY <2>1, HeadTailProperties
  <2>3. Tail(<<te>>) = <<>>
    BY <2>2, EmptySeq
  <2>4. QED
    BY <1>3, <2>3, Zenon
<1>6. e.type = "turn/end" /\ e.turn = s.openTurn /\ e \in Entries
  <2>1. e = T!Event("turn/end", s.openTurn, 0)
    BY <1>4
  <2> HIDE DEF te
  <2>2. QED
    BY <1>2, <2>1, PlainEventFields
<1>7. CloserFacts(ev, t, s, e)
  <2>1. T!Valid(t, e)
    BY <1>1, <1>6, Accepted
  <2>2. Fits(ev, s, e)
    BY <1>6 DEF Fits, ResultTypes
  <2>3. QED
    BY <1>6, <2>1, <2>2 DEF CloserFacts
<1>8. s2.openTurn = 0
  BY <1>1, <1>6, ScanMoves
<1>9. ClosersOf(s2) = <<>>
  BY <1>8 DEF ClosersOf
<1>10. QED
  BY <1>5, <1>7, <1>9, Zenon DEF s2

\* Repair appends one closer at a time: each is accepted, and the closers of
\* the log it leaves are the remaining ones.
LEMMA CloserStep ==
    ASSUME NEW ev \in Seq(Entries), Sound(ev), Closers(ev) # <<>>, NEW e, e = Head(Closers(ev))
    PROVE  CloserFacts(ev, Cursor(ev), Scanned(ev), e) /\ Closers(Append(ev, e)) = Tail(Closers(ev))
<1> DEFINE s == Scanned(ev)
           t == Cursor(ev)
<1>1. Shape(t, s)
  BY DEF Sound, SoundAt
<1>2. Closers(ev) = ClosersOf(s)
  BY ClosersAre
<1>3. s.openTurn # 0 /\ e = Head(ClosersOf(s))
  BY <1>2 DEF ClosersOf
<1>4. Scanned(ev) = s /\ Cursor(ev) = t
  OBVIOUS
<1> HIDE DEF s, t
<1>5. CloserFacts(ev, t, s, e) /\ ClosersOf(Scan(s, e)) = Tail(ClosersOf(s))
  <2>1. CASE s.openStep = 0
    BY <1>1, <1>3, <2>1, EndTurnCloser, Zenon
  <2>2. CASE s.openStep # 0 /\ s.pending = <<>>
    BY <1>1, <1>3, <2>2, EndStepCloser, Zenon
  <2>3. CASE s.pending # <<>>
    BY <1>1, <1>3, <2>3, AnswerStep, Zenon
  <2>4. QED
    BY <2>1, <2>2, <2>3
<1>6. e \in Entries
  BY <1>5 DEF CloserFacts
<1>7. Scanned(Append(ev, e)) = Scan(s, e)
  BY <1>4, <1>6, ScannedAppend, Zenon
<1>8. Closers(Append(ev, e)) = ClosersOf(Scan(s, e))
  BY <1>7, ClosersAre, Zenon
<1>9. QED
  BY <1>2, <1>4, <1>5, <1>8, Zenon

\* The closers are events, and there are none when no turn is open.
LEMMA ClosersType ==
    ASSUME NEW ev, Sound(ev)
    PROVE  Closers(ev) \in Seq(Entries) /\ (Closers(ev) = <<>> <=> Scanned(ev).openTurn = 0)
<1> DEFINE s == Scanned(ev)
<1>1. s \in ScanStates /\ Closers(ev) = ClosersOf(s)
  BY ClosersAre DEF Sound, SoundAt, Shape
<1> HIDE DEF s
<1>2. CASE s.openTurn = 0
  <2>1. ClosersOf(s) = <<>> /\ <<>> \in Seq(Entries)
    BY <1>2, EmptySeq DEF ClosersOf
  <2>2. QED
    BY <1>1, <1>2, <2>1, Zenon DEF s
<1>3. CASE s.openTurn # 0
  <2>1. ClosersOf(s) \in Seq(Entries) /\ ClosersOf(s) # <<>>
    BY <1>1, <1>3, ClosersForm
  <2>2. QED
    BY <1>1, <1>3, <2>1, Zenon DEF s
<1>4. QED
  BY <1>2, <1>3

-----------------------------------------------------------------------------
(* The invariant over the steps of the module.                             *)

\* What a good log gives its readers.
LEMMA GoodSound ==
    ASSUME NEW ev, GoodLog(ev)
    PROVE  /\ ev \in Seq(Entries) /\ Len(ev) \in Nat /\ DOMAIN ev = 1..Len(ev) /\ Sound(ev)
           /\ \A i \in DOMAIN ev : ev[i] \in Entries
           /\ Shape(Cursor(ev), Scanned(ev)) /\ Cursor(ev) \in Traces
<1>1. ev \in Seq(Entries) /\ Len(ev) \in Nat /\ DOMAIN ev = 1..Len(ev)
  BY LenProperties DEF GoodLog
<1>2. \A i \in DOMAIN ev : ev[i] \in Entries
  BY <1>1, ElementOfSeq
<1>3. SubSeq(ev, 1, Len(ev)) = ev
  BY <1>1, SubSeqFull
<1>4. Len(ev) \in 0..Len(ev)
  BY <1>1
<1>5. Sound(ev)
  BY <1>3, <1>4, Zenon DEF GoodLog
<1>6. Shape(Cursor(ev), Scanned(ev)) /\ Cursor(ev) \in Traces
  BY <1>5 DEF Sound, SoundAt, Shape
<1>7. QED
  BY <1>1, <1>2, <1>5, <1>6

\* A good log stays good with an event that the companion accepts and that fits.
LEMMA GoodAppend ==
    ASSUME NEW ev, GoodLog(ev), NEW e \in Entries, T!Valid(Cursor(ev), e), Fits(ev, Scanned(ev), e),
           NEW ev2, ev2 = Append(ev, e)
    PROVE  GoodLog(ev2)
<1>1. ev \in Seq(Entries) /\ Len(ev) \in Nat /\ Sound(ev)
  BY GoodSound
<1>2. Sound(ev2)
  BY <1>1, SoundAppend, Zenon
<1>3. ev2 \in Seq(Entries) /\ Len(ev2) = Len(ev) + 1
  BY <1>1, AppendProperties
<1>4. /\ SubSeq(ev2, 1, Len(ev) + 1) = ev2
      /\ \A k \in 0..Len(ev) : SubSeq(ev2, 1, k) = SubSeq(ev, 1, k)
  BY <1>1, PrefixAppend
<1>5. \A n \in 0..Len(ev2) : n \in 0..Len(ev) \/ n = Len(ev) + 1
  BY <1>1, <1>3
<1>6. \A n \in 0..Len(ev) : Sound(SubSeq(ev2, 1, n))
  <2> TAKE n \in 0..Len(ev)
  <2>1. Sound(SubSeq(ev, 1, n))
    BY DEF GoodLog
  <2>2. SubSeq(ev2, 1, n) = SubSeq(ev, 1, n)
    BY <1>4
  <2>3. QED
    BY <2>1, <2>2, Zenon
<1>7. Sound(SubSeq(ev2, 1, Len(ev) + 1))
  BY <1>2, <1>4, Zenon
<1>8. \A n \in 0..Len(ev2) : Sound(SubSeq(ev2, 1, n))
  BY <1>5, <1>6, <1>7, Zenon
<1>9. QED
  BY <1>3, <1>8, Zenon DEF GoodLog

\* What a crash leaves of a good log is good.
LEMMA GoodPrefix ==
    ASSUME NEW ev, GoodLog(ev), NEW k \in 0..Len(ev)
    PROVE  GoodLog(SubSeq(ev, 1, k))
<1> DEFINE ev2 == SubSeq(ev, 1, k)
<1>1. ev \in Seq(Entries) /\ Len(ev) \in Nat
  BY GoodSound
<1>2. ev2 \in Seq(Entries) /\ Len(ev2) = k
  BY <1>1, PrefixFacts
<1>3. ASSUME NEW n \in 0..k PROVE Sound(SubSeq(ev2, 1, n))
  <2>1. n \in 0..Len(ev)
    BY <1>1
  <2>2. SubSeq(ev2, 1, n) = SubSeq(ev, 1, n)
    BY <1>1, PrefixPrefix
  <2>3. Sound(SubSeq(ev, 1, n))
    BY <2>1 DEF GoodLog
  <2>4. QED
    BY <2>2, <2>3, Zenon
<1> HIDE DEF ev2
<1>4. GoodLog(ev2)
  BY <1>2, <1>3, Zenon DEF GoodLog
<1>5. QED
  BY <1>4 DEF ev2

\* Where a step has ended with nothing pending, it stays so.
LEMMA SettledAppend ==
    ASSUME NEW ev \in Seq(Entries), NEW e \in Entries, NEW ev2, ev2 = Append(ev, e)
    PROVE  /\ \A j \in DOMAIN ev : EndsSettled(ev, j) => EndsSettled(ev2, j)
           /\ e.type = "step/end" /\ Scanned(ev).pending = <<>> => EndsSettled(ev2, Len(ev) + 1)
<1> DEFINE n == Len(ev)
<1>1. n \in Nat /\ DOMAIN ev = 1..n /\ ev2[n + 1] = e /\ \A i \in 1..n : ev2[i] = ev[i]
  BY AppendFacts
<1>2. SubSeq(ev2, 1, n) = ev /\ \A k \in 0..n : SubSeq(ev2, 1, k) = SubSeq(ev, 1, k)
  BY PrefixAppend
<1>3. n = Len(ev)
  OBVIOUS
<1> HIDE DEF n
<1>4. \A j \in 1..n : SubSeq(ev2, 1, j - 1) = SubSeq(ev, 1, j - 1) /\ ev2[j] = ev[j]
  BY <1>1, <1>2
<1>5. \A j \in DOMAIN ev : EndsSettled(ev, j) => EndsSettled(ev2, j)
  BY <1>1, <1>4 DEF EndsSettled
<1>6. SubSeq(ev2, 1, (n + 1) - 1) = ev
  <2>1. (n + 1) - 1 = n
    BY <1>1
  <2>2. QED
    BY <1>2, <2>1
<1>7. e.type = "step/end" /\ Scanned(ev).pending = <<>> => EndsSettled(ev2, n + 1)
  BY <1>1, <1>6 DEF EndsSettled
<1>8. QED
  BY <1>3, <1>5, <1>7

\* A step that ended settled did so in every log that kept its end.
LEMMA SettledPrefix ==
    ASSUME NEW ev \in Seq(Entries), NEW k \in 0..Len(ev), NEW ev2, ev2 = SubSeq(ev, 1, k),
           NEW j \in 1..k, EndsSettled(ev, j)
    PROVE  EndsSettled(ev2, j)
<1>1. ev2[j] = ev[j] /\ k \in Nat
  BY PrefixFacts
<1>2. j - 1 \in 0..k
  BY <1>1
<1>3. SubSeq(ev2, 1, j - 1) = SubSeq(ev, 1, j - 1)
  BY <1>2, PrefixPrefix
<1>4. QED
  BY <1>1, <1>3 DEF EndsSettled

\* Both appends: the loop's and repair's.
LEMMA AppendStep ==
    ASSUME RepairInv, mode # "down", NEW e \in Entries, log' = Append(log, e), trace' = T!Apply(trace, e),
           T!Valid(trace, e), Fits(log, Scanned(log), e), ran' = ran, durable' \in Nat, durable' >= durable,
           abandoned \subseteq abandoned',
           e.type = "step/end" /\ <<e.turn, e.step>> \notin abandoned' => Scanned(log).pending = <<>>,
           e.type = "tool/not-started" => <<e.turn, e.step, e.call>> \notin ran
    PROVE  /\ LogInv' /\ trace' = Cursor(log') /\ Len(log') = Len(log) + 1
           /\ SettledInv' /\ RanInv' /\ NotStartedNeverRan'
<1> DEFINE n == Len(log)
<1>1. /\ log \in Seq(Entries) /\ n \in Nat /\ DOMAIN log = 1..n /\ Sound(log) /\ trace = Cursor(log) /\ durable \in 0..n
      /\ GoodLog(log) /\ GoodLog(log')
  <2>1. GoodLog(log) /\ trace = Cursor(log) /\ durable \in 0..n
    BY DEF RepairInv, LogInv, StateInv
  <2>2. T!Valid(Cursor(log), e)
    BY <2>1
  <2>3. GoodLog(log')
    BY <2>1, <2>2, GoodAppend, Zenon
  <2>4. QED
    BY <2>1, <2>3, GoodSound
<1>2. /\ n + 1 \in DOMAIN log' /\ Len(log') = n + 1 /\ DOMAIN log' = 1..n + 1 /\ log'[n + 1] = e
      /\ \A i \in 1..n : log'[i] = log[i] /\ log[i] \in Entries
  BY <1>1, AppendFacts
<1>3. trace' = Cursor(log')
  BY <1>1, CursorAppend, Zenon
<1>4. /\ \A j \in DOMAIN log : EndsSettled(log, j) => EndsSettled(log', j)
      /\ e.type = "step/end" /\ Scanned(log).pending = <<>> => EndsSettled(log', n + 1)
  BY <1>1, SettledAppend
<1> HIDE DEF n
<1>5. \A i \in 1..n + 1 : i \in 1..n \/ i = n + 1
  BY <1>1
<1>6. SettledInv'
  <2>1. ASSUME NEW j \in 1..n, log'[j].type = "step/end", <<log'[j].turn, log'[j].step>> \notin abandoned'
        PROVE  EndsSettled(log', j)
    <3>1. log[j].type = "step/end" /\ <<log[j].turn, log[j].step>> \notin abandoned
      BY <1>2, <2>1
    <3>2. EndsSettled(log, j)
      BY <1>1, <3>1 DEF RepairInv, SettledInv
    <3>3. QED
      BY <1>1, <1>4, <3>2
  <2>2. ASSUME e.type = "step/end", <<e.turn, e.step>> \notin abandoned' PROVE EndsSettled(log', n + 1)
    BY <1>4, <2>2
  <2>3. \A j \in 1..n + 1 : log'[j].type = "step/end" /\ <<log'[j].turn, log'[j].step>> \notin abandoned'
            => EndsSettled(log', j)
    BY <1>2, <1>5, <2>1, <2>2
  <2>4. QED
    BY <1>2, <2>3 DEF SettledInv
<1>7. RanInv'
  <2>1. \A i \in 1..durable : i \in 1..n /\ i \in 1..durable' /\ log'[i] = log[i]
    BY <1>1, <1>2
  <2>2. ASSUME NEW r \in ran
        PROVE  \E i \in 1..durable' : log'[i].type = "tool/call" /\ r = <<log'[i].turn, log'[i].step, log'[i].call>>
    <3>1. PICK i \in 1..durable : log[i].type = "tool/call" /\ r = <<log[i].turn, log[i].step, log[i].call>>
      BY DEF RepairInv, RanInv
    <3>2. i \in 1..durable' /\ log'[i] = log[i]
      BY <2>1
    <3>3. log'[i].type = "tool/call" /\ r = <<log'[i].turn, log'[i].step, log'[i].call>>
      BY <3>1, <3>2, Zenon
    <3>4. QED
      BY <3>2, <3>3
  <2>3. QED
    BY <2>2, Zenon DEF RanInv
<1>8. NotStartedNeverRan'
  <2>1. \A i \in 1..n : log'[i].type = "tool/not-started" => <<log'[i].turn, log'[i].step, log'[i].call>> \notin ran
    BY <1>1, <1>2 DEF RepairInv, NotStartedNeverRan
  <2>2. QED
    BY <1>2, <1>5, <2>1 DEF NotStartedNeverRan
<1>9. QED
  BY <1>1, <1>2, <1>3, <1>6, <1>7, <1>8 DEF LogInv, n

\* The companion accepts what a step appends.
Accepts == Len(log') > Len(log) => T!Valid(trace, log'[Len(log')])

\* The live loop's appends.
LEMMA LiveStep ==
    ASSUME RepairInv, NEW e \in Entries, InMemory(e), T!Valid(trace, e), Fits(log, Scanned(log), e),
           abandoned \subseteq abandoned',
           e.type = "step/end" /\ <<e.turn, e.step>> \notin abandoned' => Scanned(log).pending = <<>>,
           e.type # "tool/not-started"
    PROVE  RepairInv' /\ Accepts
<1>1. /\ mode = "live" /\ mode' = "live" /\ log' = Append(log, e) /\ trace' = T!Apply(trace, e) /\ ran' = ran
      /\ durable' = durable /\ loaded' = loaded /\ tail' = tail /\ closers' = closers
  BY DEF InMemory, diskVars
<1>2. /\ log \in Seq(Entries) /\ Len(log) \in Nat /\ trace = Cursor(log) /\ durable \in 0..Len(log) /\ closers = <<>>
      /\ Sound(log)
  BY <1>1, GoodSound DEF RepairInv, LogInv, StateInv
<1>3. durable' \in Nat /\ durable' >= durable
  BY <1>1, <1>2
<1>4. /\ LogInv' /\ trace' = Cursor(log') /\ Len(log') = Len(log) + 1
      /\ SettledInv' /\ RanInv' /\ NotStartedNeverRan'
  BY <1>1, <1>3, AppendStep
<1>5. StateInv'
  <2>1. durable' \in 0..Len(log')
    BY <1>1, <1>2, <1>4
  <2>2. QED
    BY <1>1, <1>2, <1>4, <2>1 DEF StateInv
<1>6. OwnStepInv'
  <2> DEFINE n == Len(log)
  <2>1. /\ DOMAIN log = 1..n /\ DOMAIN log' = 1..n + 1 /\ log'[n + 1] = e
        /\ \A i \in 1..n : log'[i] = log[i] /\ log[i] \in Entries
    BY <1>1, <1>2, AppendFacts
  <2>2. \A i \in 1..n + 1 : i \in 1..n \/ i = n + 1
    BY <1>2
  <2>3. Shape(trace, Scanned(log)) /\ \A i \in 1..n : Reached(trace, log[i])
    BY <1>2, <2>1 DEF Sound, SoundAt
  <2> HIDE DEF n
  <2>4. \A i \in 1..n : Within(trace', log[i]) => Within(trace, log[i])
    <3>1. CASE e.type \in {"turn/start", "turn/end", "step/end"}
      <4>1. trace'.openStep = 0
        BY <1>1, <2>3, <3>1, OpenStepMoves
      <4>2. QED
        BY <4>1 DEF Within
    <3>2. CASE e.type = "step/start"
      BY <1>1, <2>1, <2>3, <3>2, OpenStepMoves
    <3>3. CASE e.type \in StepTypes
      BY <1>1, <2>3, <3>3, OpenStepMoves
    <3>4. QED
      BY <3>1, <3>2, <3>3, EntryFields DEF Types, StepTypes
  <2>5. \A i \in 1..n : Within(trace', log'[i]) => log'[i].type # "tool/not-started"
    BY <1>1, <2>1, <2>4 DEF RepairInv, OwnStepInv
  <2>6. QED
    BY <2>1, <2>2, <2>5 DEF OwnStepInv
<1>7. Accepts
  <2>1. Len(log') = Len(log) + 1 /\ log'[Len(log) + 1] = e
    BY <1>1, <1>2, AppendFacts
  <2>2. QED
    BY <2>1 DEF Accepts
<1>8. TailInv' /\ RepairsAlike'
  BY <1>1, <1>2, <1>4 DEF RepairInv, TailInv, RepairsAlike
<1>9. QED
  BY <1>4, <1>5, <1>6, <1>7, <1>8 DEF RepairInv

\* The calls of the open step, as the loop reads them off the log.
LEMMA CallsAre ==
    ASSUME RepairInv, NEW c
    PROVE  /\ c \in Recorded => \E i \in DOMAIN log : Within(trace, log[i]) /\ log[i].type = "tool/call" /\ log[i].call = c
           /\ c \in Requested <=> \E i \in DOMAIN log :
                 Within(trace, log[i]) /\ log[i].type = "assistant/message" /\ c \in 1..log[i].call
           /\ c \in Calls("tool/result") <=> \E i \in DOMAIN log :
                 Within(trace, log[i]) /\ log[i].type = "tool/result" /\ log[i].call = c
<1>1. \A i : i \in InStep <=> i \in DOMAIN log /\ Within(trace, log[i])
  BY DEF InStep, Within, T!None, turn, step
<1>2. \A y : c \in Calls(y) <=> \E i \in DOMAIN log : Within(trace, log[i]) /\ log[i].type = y /\ log[i].call = c
  BY <1>1 DEF Calls
<1>3. c \in Requested <=> \E i \in DOMAIN log :
                 Within(trace, log[i]) /\ log[i].type = "assistant/message" /\ c \in 1..log[i].call
  BY <1>1 DEF Requested, Calls
<1>4. QED
  BY <1>2, <1>3 DEF Recorded

\* An unanswered call of the live loop is pending, and the other way round.
LEMMA UnansweredArePending ==
    ASSUME RepairInv, mode = "live"
    PROVE  /\ \A c \in Unanswered : Pending(Scanned(log), c)
           /\ Unanswered = {} => Scanned(log).pending = <<>>
           /\ \A c \in Recorded \intersect Unanswered : c \in trace.pendingCalls
<1> DEFINE s == Scanned(log)
<1>1. OpenCalls(log, trace, s) /\ PendingRequested(log, trace, s) /\ s.pending \in Seq(Waiting)
  <2>1. Sound(log) /\ trace = Cursor(log)
    BY GoodSound DEF RepairInv, LogInv, StateInv
  <2>2. QED
    BY <2>1 DEF Sound, SoundAt, Shape, ScanStates
<1> HIDE DEF s
<1>2. ASSUME NEW c, c \notin Calls("tool/result"), NEW i \in DOMAIN log, Within(trace, log[i])
      PROVE  AnswersIn(log, log[i], c) = {}
  <2>1. SUFFICES ASSUME NEW k \in DOMAIN log, IsAnswer(log[k], log[i], c) PROVE FALSE
    BY DEF AnswersIn
  <2>2. Within(trace, log[k]) /\ log[k].type \in ResultTypes /\ log[k].call = c
    BY <1>2, <2>1 DEF IsAnswer, SameStep, Within
  <2>3. log[k].type # "tool/not-started"
    BY <2>2 DEF RepairInv, OwnStepInv
  <2>4. log[k].type # "tool/result"
    BY <1>2, <2>2, CallsAre
  <2>5. QED
    BY <2>2, <2>3, <2>4 DEF ResultTypes
<1>3. ASSUME NEW c \in Unanswered PROVE Pending(s, c)
  <2>1. c \in Requested /\ c \notin Calls("tool/result")
    BY <1>3 DEF Unanswered
  <2>2. PICK i \in DOMAIN log : Within(trace, log[i]) /\ log[i].type = "assistant/message" /\ c \in 1..log[i].call
    BY <2>1, CallsAre
  <2>3. AnswersIn(log, log[i], c) = {}
    BY <1>2, <2>1, <2>2
  <2>4. ~Answered(log, log[i], c)
    BY <2>3 DEF Answered
  <2>5. QED
    BY <1>1, <2>2, <2>4 DEF OpenCalls
<1>4. ASSUME Unanswered = {} PROVE s.pending = <<>>
  <2>1. SUFFICES ASSUME NEW p \in ToSet(s.pending) PROVE FALSE
    <3>1. s.pending # <<>> => 1 \in DOMAIN s.pending
      BY <1>1, EmptySeq, LenProperties
    <3>2. s.pending # <<>> => s.pending[1] \in ToSet(s.pending)
      BY <3>1 DEF ToSet
    <3>3. QED
      BY <2>1, <3>2
  <2>2. PICK i \in DOMAIN log : Within(trace, log[i]) /\ log[i].type = "assistant/message" /\ p.call \in 1..log[i].call
    BY <1>1 DEF PendingRequested
  <2>3. p.call \in Requested
    BY <2>2, CallsAre
  <2>4. p.call \in Calls("tool/result")
    BY <1>4, <2>3 DEF Unanswered
  <2>5. PICK k \in DOMAIN log : Within(trace, log[k]) /\ log[k].type = "tool/result" /\ log[k].call = p.call
    BY <2>4, CallsAre
  <2>6. k \in AnswersIn(log, log[i], p.call)
    BY <2>2, <2>5 DEF AnswersIn, IsAnswer, SameStep, Within, ResultTypes
  <2>7. Pending(s, p.call)
    BY DEF Pending
  <2>8. AnswersIn(log, log[i], p.call) = {}
    BY <1>1, <2>2, <2>7 DEF OpenCalls
  <2>9. QED
    BY <2>6, <2>8
<1>5. ASSUME NEW c \in Recorded \intersect Unanswered PROVE c \in trace.pendingCalls
  <2>1. c \in Recorded /\ c \notin Calls("tool/result")
    BY <1>5 DEF Unanswered
  <2>2. PICK i \in DOMAIN log : Within(trace, log[i]) /\ log[i].type = "tool/call" /\ log[i].call = c
    BY <2>1, CallsAre
  <2>3. AnswersIn(log, log[i], c) = {}
    BY <1>2, <2>1, <2>2
  <2>4. QED
    BY <1>1, <2>2, <2>3 DEF OpenCalls
<1>6. QED
  BY <1>3, <1>4, <1>5 DEF s

-----------------------------------------------------------------------------
(* One lemma for each action.                                              *)

\* The cursor and the scan of the process's log.
LEMMA LiveFacts ==
    ASSUME RepairInv, mode # "down"
    PROVE  /\ log \in Seq(Entries) /\ Len(log) \in Nat /\ DOMAIN log = 1..Len(log) /\ Sound(log) /\ trace = Cursor(log)
           /\ trace \in Traces /\ Shape(trace, Scanned(log)) /\ durable \in 0..Len(log)
           /\ trace.openTurn \in Nat /\ trace.openStep \in Nat /\ trace.nextTurn \in Nat /\ trace.nextStep \in Nat
           /\ \A i \in DOMAIN log : log[i] \in Entries
<1>1. GoodLog(log) /\ trace = Cursor(log) /\ durable \in 0..Len(log)
  BY DEF RepairInv, LogInv, StateInv
<1>2. log \in Seq(Entries) /\ Len(log) \in Nat /\ DOMAIN log = 1..Len(log) /\ Sound(log)
      /\ trace \in Traces /\ Shape(trace, Scanned(log)) /\ \A i \in DOMAIN log : log[i] \in Entries
  BY <1>1, GoodSound
<1>3. QED
  BY <1>1, <1>2, TraceFields

\* The live loop's events, one lemma for each.
LEMMA StartTurnKeeps == ASSUME RepairInv, StartTurn PROVE RepairInv' /\ Accepts
<1> DEFINE e == T!Event("turn/start", trace.nextTurn, 0)
<1>1. InMemory(e) /\ trace.openTurn = 0 /\ abandoned' = abandoned /\ mode = "live"
  BY DEF StartTurn, InMemory, T!None, turn
<1>2. e \in Entries /\ e.type = "turn/start" /\ e.turn = trace.nextTurn /\ e.step = 0
  <2>1. "turn/start" \in Types /\ trace.nextTurn \in Nat /\ 0 \in Nat
    BY <1>1, LiveFacts DEF Types
  <2>2. QED
    BY <2>1, PlainEventFields
<1> HIDE DEF e
<1>3. T!Valid(trace, e) /\ Fits(log, Scanned(log), e)
  BY <1>1, <1>2, Accepted DEF Fits, ResultTypes
<1>4. QED
  BY <1>1, <1>2, <1>3, LiveStep

LEMMA StartStepKeeps == ASSUME RepairInv, StartStep PROVE RepairInv' /\ Accepts
<1> DEFINE e == T!Event("step/start", trace.openTurn, trace.nextStep)
<1>1. InMemory(e) /\ trace.openTurn # 0 /\ trace.openStep = 0 /\ abandoned' = abandoned /\ mode = "live"
  BY DEF StartStep, InMemory, T!None, turn, step
<1>2. e \in Entries /\ e.type = "step/start" /\ e.turn = trace.openTurn /\ e.step = trace.nextStep
  <2>1. "step/start" \in Types /\ trace.nextStep \in Nat /\ trace.openTurn \in Nat
    BY <1>1, LiveFacts DEF Types
  <2>2. QED
    BY <2>1, PlainEventFields
<1> HIDE DEF e
<1>3. T!Valid(trace, e) /\ Fits(log, Scanned(log), e)
  BY <1>1, <1>2, Accepted DEF Fits, ResultTypes
<1>4. QED
  BY <1>1, <1>2, <1>3, LiveStep

LEMMA EndTurnKeeps == ASSUME RepairInv, EndTurn PROVE RepairInv' /\ Accepts
<1> DEFINE e == T!Event("turn/end", trace.openTurn, 0)
<1>1. InMemory(e) /\ trace.openTurn # 0 /\ trace.openStep = 0 /\ abandoned' = abandoned /\ mode = "live"
  BY DEF EndTurn, InMemory, T!None, turn, step
<1>2. e \in Entries /\ e.type = "turn/end" /\ e.turn = trace.openTurn
  <2>1. "turn/end" \in Types /\ 0 \in Nat /\ trace.openTurn \in Nat
    BY <1>1, LiveFacts DEF Types
  <2>2. QED
    BY <2>1, PlainEventFields
<1> HIDE DEF e
<1>3. T!Valid(trace, e) /\ Fits(log, Scanned(log), e)
  BY <1>1, <1>2, Accepted DEF Fits, ResultTypes
<1>4. QED
  BY <1>1, <1>2, <1>3, LiveStep

LEMMA ModelAnswersKeeps == ASSUME RepairInv, NEW n \in 0..MaxCalls, ModelAnswers(n) PROVE RepairInv' /\ Accepts
<1> DEFINE e == T!CallEvent("assistant/message", trace.openTurn, trace.openStep, n)
<1>1. InMemory(e) /\ trace.openStep # 0 /\ log[Len(log)].type = "step/start" /\ abandoned' = abandoned /\ mode = "live"
  BY DEF ModelAnswers, InMemory, T!None, turn, step, T!CallEvent
<1>2. e \in Entries /\ e.type = "assistant/message" /\ e.turn = trace.openTurn /\ e.step = trace.openStep
  <2>1. "assistant/message" \in Types /\ trace.openTurn \in Nat /\ trace.openStep \in Nat /\ n \in Nat
    BY <1>1, LiveFacts DEF Types
  <2>2. QED
    BY <2>1, EventFields
<1> HIDE DEF e
<1>3. log # <<>>
  <2>1. Cursor(<<>>) = T!FreshTrace
    <3>1. <<>> \in Seq(Nat)
      BY EmptySeq
    <3>2. QED
      BY <3>1, CursorAppend
  <2>2. T!FreshTrace.openStep = 0
    BY DEF T!FreshTrace, T!None
  <2>3. trace = Cursor(log)
    BY <1>1, LiveFacts
  <2>4. QED
    BY <1>1, <2>1, <2>2, <2>3, Zenon
<1>4. T!Valid(trace, e)
  <2>1. Within(trace, e) /\ e.type \in StepTypes
    BY <1>1, <1>2 DEF Within, StepTypes
  <2>2. QED
    BY <1>2, <2>1, Accepted
<1>5. Fits(log, Scanned(log), e)
  BY <1>1, <1>2, <1>3 DEF Fits, ResultTypes
<1>6. QED
  BY <1>1, <1>2, <1>4, <1>5, LiveStep

\* A recorded or requested call has the open step around it.
LEMMA OpenStepNumbered == \A c : c \in Recorded \/ c \in Requested => trace.openStep # 0
  BY DEF Recorded, Requested, Calls, InStep, T!None, step

LEMMA RecordCallKeeps == ASSUME RepairInv, NEW c \in 1..MaxCalls, RecordCall(c) PROVE RepairInv' /\ Accepts
<1> DEFINE e == T!CallEvent("tool/call", trace.openTurn, trace.openStep, c)
<1>1. InMemory(e) /\ trace.openStep # 0 /\ abandoned' = abandoned /\ mode = "live"
  BY OpenStepNumbered DEF RecordCall, InMemory, turn, step
<1>2. e \in Entries /\ e.type = "tool/call" /\ e.turn = trace.openTurn /\ e.step = trace.openStep
  <2>1. "tool/call" \in Types /\ trace.openTurn \in Nat /\ trace.openStep \in Nat /\ c \in Nat
    BY <1>1, LiveFacts DEF Types
  <2>2. QED
    BY <2>1, EventFields
<1> HIDE DEF e
<1>3. T!Valid(trace, e)
  <2>1. Within(trace, e) /\ e.type \in StepTypes
    BY <1>1, <1>2 DEF Within, StepTypes
  <2>2. QED
    BY <1>2, <2>1, Accepted
<1>4. Fits(log, Scanned(log), e)
  BY <1>2 DEF Fits, ResultTypes
<1>5. QED
  BY <1>1, <1>2, <1>3, <1>4, LiveStep

LEMMA CommitResultKeeps == ASSUME RepairInv, NEW c \in 1..MaxCalls, CommitResult(c) PROVE RepairInv' /\ Accepts
<1> DEFINE e == T!CallEvent("tool/result", trace.openTurn, trace.openStep, c)
<1>1. InMemory(e) /\ trace.openStep # 0 /\ abandoned' = abandoned /\ mode = "live" /\ c \in Recorded \intersect Unanswered
  BY OpenStepNumbered DEF CommitResult, InMemory, turn, step
<1>2. e \in Entries /\ e.type = "tool/result" /\ e.turn = trace.openTurn /\ e.step = trace.openStep /\ e.call = c
  <2>1. "tool/result" \in Types /\ trace.openTurn \in Nat /\ trace.openStep \in Nat /\ c \in Nat
    BY <1>1, LiveFacts DEF Types, ResultTypes
  <2>2. QED
    BY <2>1, EventFields
<1> HIDE DEF e
<1>3. c \in trace.pendingCalls /\ Pending(Scanned(log), c)
  BY <1>1, UnansweredArePending
<1>4. T!Valid(trace, e)
  <2>1. Within(trace, e) /\ e.type \in StepTypes
    BY <1>1, <1>2 DEF Within, StepTypes, ResultTypes
  <2>2. QED
    BY <1>2, <1>3, <2>1, Accepted
<1>5. Fits(log, Scanned(log), e)
  BY <1>2, <1>3 DEF Fits
<1>6. QED
  BY <1>1, <1>2, <1>4, <1>5, LiveStep

\* A step ends settled, or is recorded as abandoned.
LEMMA EndStepKeeps == ASSUME RepairInv, EndStep PROVE RepairInv' /\ Accepts
<1> DEFINE e == T!Event("step/end", trace.openTurn, trace.openStep)
<1>1. InMemory(e) /\ trace.openStep # 0 /\ mode = "live"
      /\ abandoned' = IF Unanswered = {} THEN abandoned ELSE abandoned \union {<<trace.openTurn, trace.openStep>>}
  BY DEF EndStep, InMemory, T!None, turn, step
<1>2. e \in Entries /\ e.type = "step/end" /\ e.turn = trace.openTurn /\ e.step = trace.openStep
  <2>1. "step/end" \in Types /\ trace.openTurn \in Nat /\ trace.openStep \in Nat
    BY <1>1, LiveFacts DEF Types
  <2>2. QED
    BY <2>1, PlainEventFields
<1> HIDE DEF e
<1>3. T!Valid(trace, e)
  <2>1. Within(trace, e)
    BY <1>1, <1>2 DEF Within
  <2>2. QED
    BY <1>2, <2>1, Accepted
<1>4. Fits(log, Scanned(log), e)
  BY <1>2 DEF Fits, ResultTypes
<1>5. <<e.turn, e.step>> \notin abandoned' => Scanned(log).pending = <<>>
  BY <1>1, <1>2, UnansweredArePending
<1>6. abandoned \subseteq abandoned'
  BY <1>1
<1>7. QED
  BY <1>1, <1>2, <1>3, <1>4, <1>5, <1>6, LiveStep

\* A body runs behind its recorded call, and the call is stored.
LEMMA RunBodyKeeps == ASSUME RepairInv, NEW c \in 1..MaxCalls, RunBody(c) PROVE RepairInv'
<1> DEFINE r == <<trace.openTurn, trace.openStep, c>>
<1>1. /\ mode = "live" /\ ran' = ran \union {r} /\ Checkpointed(c)
      /\ UNCHANGED <<mode, log, trace, durable, loaded, tail, closers, abandoned>>
  BY DEF RunBody, turn, step, diskVars
<1>2. PICK i \in DOMAIN log : /\ trace.openStep # 0 /\ i <= durable
                              /\ log[i] = T!CallEvent("tool/call", trace.openTurn, trace.openStep, c)
  BY <1>1 DEF Checkpointed, InStep, turn, step, T!None
<1>3. log[i].type = "tool/call" /\ log[i].turn = trace.openTurn /\ log[i].step = trace.openStep /\ log[i].call = c
  <2>1. "tool/call" \in Types /\ trace.openTurn \in Nat /\ trace.openStep \in Nat /\ c \in Nat
    BY <1>1, LiveFacts DEF Types
  <2>2. QED
    BY <1>2, <2>1, EventFields
<1>4. i \in 1..durable
  BY <1>1, <1>2, LiveFacts
<1>5. RanInv'
  <2>1. r = <<log[i].turn, log[i].step, log[i].call>>
    BY <1>3
  <2> HIDE DEF r
  <2>2. QED
    BY <1>1, <1>3, <1>4, <2>1 DEF RepairInv, RanInv
<1>6. NotStartedNeverRan'
  <2>1. ASSUME NEW k \in DOMAIN log, log[k].type = "tool/not-started", <<log[k].turn, log[k].step, log[k].call>> = r
        PROVE  FALSE
    <3>1. Within(trace, log[k])
      BY <1>2, <2>1 DEF Within
    <3>2. QED
      BY <1>1, <2>1, <3>1 DEF RepairInv, OwnStepInv
  <2> HIDE DEF r
  <2>2. QED
    BY <1>1, <2>1 DEF RepairInv, NotStartedNeverRan
<1>7. LogInv' /\ StateInv' /\ TailInv' /\ RepairsAlike' /\ SettledInv' /\ OwnStepInv'
  BY <1>1 DEF RepairInv, LogInv, StateInv, TailInv, RepairsAlike, SettledInv, OwnStepInv
<1>8. QED
  BY <1>5, <1>6, <1>7 DEF RepairInv

\* A larger prefix is stored: a batch of the live loop.
LEMMA PersistKeeps == ASSUME RepairInv, Persist PROVE RepairInv'
<1>1. /\ mode = "live" /\ tail = "whole" /\ durable' \in durable + 1..Len(log)
      /\ UNCHANGED <<mode, log, trace, loaded, tail, closers, ran, abandoned>>
  BY DEF Persist
<1>2. durable' \in 0..Len(log) /\ \A i \in 1..durable : i \in 1..durable'
  BY <1>1, LiveFacts
<1>3. RanInv'
  BY <1>1, <1>2 DEF RepairInv, RanInv
<1>4. StateInv' /\ TailInv' /\ RepairsAlike'
  BY <1>1, <1>2 DEF RepairInv, StateInv, TailInv, RepairsAlike
<1>5. LogInv' /\ SettledInv' /\ OwnStepInv' /\ NotStartedNeverRan'
  BY <1>1 DEF RepairInv, LogInv, SettledInv, OwnStepInv, NotStartedNeverRan
<1>6. QED
  BY <1>3, <1>4, <1>5 DEF RepairInv

\* The torn frame goes: the recovered events are in memory alone.
LEMMA TruncateTailKeeps == ASSUME RepairInv, TruncateTail PROVE RepairInv'
<1>1. /\ HasBatch /\ tail = "torn" /\ tail' = "cut"
      /\ UNCHANGED <<mode, log, trace, durable, loaded, closers, ran, abandoned>>
  BY DEF TruncateTail
<1>2. mode # "down"
  BY <1>1 DEF HasBatch, RepairInv, StateInv
<1>3. StateInv' /\ TailInv' /\ RepairsAlike'
  BY <1>1, <1>2 DEF RepairInv, StateInv, TailInv, RepairsAlike
<1>4. LogInv' /\ SettledInv' /\ OwnStepInv' /\ RanInv' /\ NotStartedNeverRan'
  BY <1>1 DEF RepairInv, LogInv, SettledInv, OwnStepInv, RanInv, NotStartedNeverRan
<1>5. QED
  BY <1>3, <1>4 DEF RepairInv

\* The recovered events are stored again.
LEMMA RewriteTailKeeps == ASSUME RepairInv, RewriteTail PROVE RepairInv'
<1>1. /\ mode # "down" /\ tail = "cut" /\ tail' = "whole" /\ durable' = loaded
      /\ UNCHANGED <<mode, log, trace, loaded, closers, ran, abandoned>>
  BY DEF RewriteTail
<1>2. /\ loaded \in 0..Len(log) /\ durable <= loaded /\ durable \in 0..Len(log) /\ Len(log) \in Nat
      /\ log \in Seq(Entries) /\ (mode = "repairing" => loaded = Len(log) /\ closers = Closers(log))
  BY <1>1, LiveFacts DEF RepairInv, StateInv, TailInv
<1>3. RanInv'
  <2>1. \A i \in 1..durable : i \in 1..durable'
    BY <1>1, <1>2
  <2>2. QED
    BY <1>1, <2>1 DEF RepairInv, RanInv
<1>4. StateInv' /\ TailInv'
  BY <1>1, <1>2 DEF RepairInv, StateInv, TailInv
<1>5. RepairsAlike'
  <2>1. SUFFICES ASSUME mode = "repairing", NEW k \in durable'..Len(log)
                 PROVE  SubSeq(log, 1, k) \o Closers(SubSeq(log, 1, k)) = log \o closers
    BY <1>1 DEF RepairsAlike
  <2>2. k = Len(log) /\ SubSeq(log, 1, Len(log)) = log
    BY <1>1, <1>2, <2>1, SubSeqFull
  <2>3. QED
    BY <1>2, <2>1, <2>2, Zenon
<1>6. LogInv' /\ SettledInv' /\ OwnStepInv' /\ NotStartedNeverRan'
  BY <1>1 DEF RepairInv, LogInv, SettledInv, OwnStepInv, NotStartedNeverRan
<1>7. QED
  BY <1>3, <1>4, <1>5, <1>6 DEF RepairInv

\* What a reader finds includes all that is durable.
LEMMA ReadableBounds ==
    ASSUME RepairInv, mode # "down", NEW kept \in Readable
    PROVE  kept \in durable..Len(log) /\ kept \in 0..Len(log) /\ (tail = "torn" => kept = loaded)
<1>1. /\ durable \in 0..Len(log) /\ Len(log) \in Nat /\ loaded \in 0..Len(log)
      /\ tail \in {"whole", "torn", "cut"} /\ (tail # "whole" => durable <= loaded)
  BY LiveFacts DEF RepairInv, TailInv
<1>2. \/ tail = "torn" /\ kept = loaded
      \/ tail = "cut" /\ kept \in durable..loaded
      \/ tail = "whole" /\ kept \in durable..Len(log)
  BY <1>1 DEF Readable
<1>3. QED
  BY <1>1, <1>2

\* A crash keeps the stored prefix: what ran is still recorded in it.
LEMMA CrashKeeps == ASSUME RepairInv, NEW kept \in Readable, CrashAt(kept) PROVE RepairInv'
<1>1. /\ mode # "down" /\ mode' = "down" /\ log' = SubSeq(log, 1, kept) /\ closers' = <<>>
      /\ durable' = durable /\ ran' = ran /\ loaded' = kept /\ tail' = (IF kept = durable THEN "whole" ELSE "torn")
      /\ abandoned' = {a \in abandoned : \E i \in 1..kept :
                          log[i].type = "step/end" /\ <<log[i].turn, log[i].step>> = a}
  BY DEF CrashAt
<1>2. GoodLog(log) /\ kept \in 0..Len(log) /\ log \in Seq(Entries) /\ Len(log) \in Nat /\ DOMAIN log = 1..Len(log)
      /\ durable \in 0..kept /\ kept \in Nat
  BY <1>1, ReadableBounds, LiveFacts DEF RepairInv, LogInv
<1>3. GoodLog(log') /\ Len(log') = kept /\ DOMAIN log' = 1..kept /\ \A i \in 1..kept : log'[i] = log[i]
  <2>1. GoodLog(SubSeq(log, 1, kept))
    BY <1>2, GoodPrefix, Zenon
  <2>2. /\ Len(SubSeq(log, 1, kept)) = kept /\ DOMAIN SubSeq(log, 1, kept) = 1..kept
        /\ \A i \in 1..kept : SubSeq(log, 1, kept)[i] = log[i]
    BY <1>2, PrefixFacts
  <2>3. QED
    BY <1>1, <2>1, <2>2, Zenon
<1>4. StateInv' /\ TailInv' /\ RepairsAlike'
  BY <1>1, <1>2, <1>3 DEF StateInv, TailInv, RepairsAlike
<1>5. SettledInv'
  <2>1. ASSUME NEW j \in 1..kept, log'[j].type = "step/end", <<log'[j].turn, log'[j].step>> \notin abandoned'
        PROVE  EndsSettled(log', j)
    <3>1. log[j].type = "step/end" /\ <<log[j].turn, log[j].step>> \notin abandoned'
      BY <1>3, <2>1
    <3>2. <<log[j].turn, log[j].step>> \notin abandoned /\ j \in DOMAIN log
      BY <1>1, <1>2, <3>1
    <3>3. EndsSettled(log, j)
      BY <3>1, <3>2 DEF RepairInv, SettledInv
    <3>4. QED
      BY <1>1, <1>2, <3>3, SettledPrefix
  <2>2. QED
    BY <1>3, <2>1 DEF SettledInv
<1>6. RanInv'
  <2>1. ASSUME NEW r \in ran
        PROVE  \E i \in 1..durable : log'[i].type = "tool/call" /\ r = <<log'[i].turn, log'[i].step, log'[i].call>>
    <3>1. PICK i \in 1..durable : log[i].type = "tool/call" /\ r = <<log[i].turn, log[i].step, log[i].call>>
      BY DEF RepairInv, RanInv
    <3>2. i \in 1..kept
      BY <1>2
    <3>3. log'[i] = log[i]
      BY <1>3, <3>2
    <3>4. QED
      BY <3>1, <3>3, Zenon
  <2>2. QED
    BY <1>1, <2>1, Zenon DEF RanInv
<1>7. NotStartedNeverRan'
  <2>1. \A i \in 1..kept : i \in DOMAIN log
    BY <1>2
  <2>2. ASSUME NEW i \in 1..kept, log'[i].type = "tool/not-started"
        PROVE  <<log'[i].turn, log'[i].step, log'[i].call>> \notin ran
    <3>1. log'[i] = log[i]
      BY <1>3
    <3>2. log[i].type = "tool/not-started"
      BY <2>2, <3>1, Zenon
    <3>3. <<log[i].turn, log[i].step, log[i].call>> \notin ran
      BY <2>1, <3>2 DEF RepairInv, NotStartedNeverRan
    <3>4. QED
      BY <3>1, <3>3, Zenon
  <2>3. QED
    BY <1>1, <1>3, <2>2, Zenon DEF NotStartedNeverRan
<1>8. OwnStepInv' /\ LogInv'
  BY <1>1, <1>3 DEF OwnStepInv, LogInv
<1>9. QED
  BY <1>4, <1>5, <1>6, <1>7, <1>8 DEF RepairInv

\* A resume scans what is stored.
LEMMA ResumeKeeps == ASSUME RepairInv, Resume PROVE RepairInv'
<1>1. /\ mode = "down" /\ mode' = "repairing" /\ closers' = Closers(log) /\ trace' = Cursor(log)
      /\ UNCHANGED <<log, durable, loaded, tail, ran, abandoned>>
  BY DEF Resume, diskVars
<1>2. StateInv' /\ TailInv'
  BY <1>1 DEF RepairInv, StateInv, TailInv
<1>3. RepairsAlike'
  <2>1. SUFFICES ASSUME tail = "whole", NEW k \in durable..Len(log)
                 PROVE  SubSeq(log, 1, k) \o Closers(SubSeq(log, 1, k)) = log \o closers'
    BY <1>1 DEF RepairsAlike
  <2>2. durable = Len(log) /\ log \in Seq(Entries) /\ Len(log) \in Nat
    BY <1>1, <2>1, GoodSound DEF RepairInv, TailInv, LogInv
  <2>3. k = Len(log) /\ SubSeq(log, 1, Len(log)) = log
    BY <2>1, <2>2, SubSeqFull
  <2>4. QED
    BY <1>1, <2>3, Zenon
<1>4. LogInv' /\ SettledInv' /\ OwnStepInv' /\ RanInv' /\ NotStartedNeverRan'
  BY <1>1 DEF RepairInv, LogInv, SettledInv, OwnStepInv, RanInv, NotStartedNeverRan
<1>5. QED
  BY <1>2, <1>3, <1>4 DEF RepairInv

\* The closers left are those of the log with the closer in it.
LEMMA StoreCloserKeeps == ASSUME RepairInv, StoreCloser PROVE RepairInv' /\ Accepts
<1> DEFINE e == Head(closers)
<1>1. /\ mode = "repairing" /\ closers # <<>> /\ tail = "whole" /\ log' = Append(log, e)
      /\ durable' = (IF Tail(closers) = <<>> THEN Len(log') ELSE durable)
      /\ trace' = T!Apply(trace, e) /\ closers' = Tail(closers) /\ UNCHANGED <<mode, loaded, tail, ran, abandoned>>
  BY DEF StoreCloser
<1>2. closers = Closers(log) /\ durable \in 0..Len(log)
  BY <1>1 DEF RepairInv, StateInv
<1>3. log \in Seq(Entries) /\ Len(log) \in Nat /\ Sound(log) /\ trace = Cursor(log)
  BY <1>1, LiveFacts
<1>4. e = Head(Closers(log))
  BY <1>2
<1> HIDE DEF e
<1>5. CloserFacts(log, trace, Scanned(log), e) /\ Closers(log') = closers'
  <2>1. Closers(log) # <<>>
    BY <1>1, <1>2
  <2>2. CloserFacts(log, Cursor(log), Scanned(log), e) /\ Closers(Append(log, e)) = Tail(Closers(log))
    BY <1>3, <1>4, <2>1, CloserStep, Zenon
  <2>3. CloserFacts(log, trace, Scanned(log), e)
    BY <1>3, <2>2, Zenon
  <2>4. Closers(log') = closers'
    BY <1>1, <1>2, <2>2, Zenon
  <2>5. QED
    BY <2>3, <2>4
<1>6. e.type = "tool/not-started" => <<e.turn, e.step, e.call>> \notin ran
  <2>1. SUFFICES ASSUME e.type = "tool/not-started", <<e.turn, e.step, e.call>> \in ran PROVE FALSE
    OBVIOUS
  <2>2. PICK p \in ToSet(Scanned(log).pending) : p.call = e.call /\ ~p.started
    BY <1>5, <2>1 DEF CloserFacts
  <2>3. PICK i \in 1..durable : log[i].type = "tool/call" /\ <<e.turn, e.step, e.call>> = <<log[i].turn, log[i].step, log[i].call>>
    BY <2>1 DEF RepairInv, RanInv
  <2>4. i \in DOMAIN log
    BY <1>1, <1>2, <2>3, LiveFacts
  <2>5. Within(trace, log[i]) /\ log[i].call = e.call
    BY <1>5, <2>1, <2>3 DEF CloserFacts, Within
  <2>6. p.started
    BY <1>3, <2>2, <2>3, <2>4, <2>5 DEF Sound, SoundAt, OpenCalls
  <2>7. QED
    BY <2>2, <2>6
<1>7. /\ LogInv' /\ trace' = Cursor(log') /\ Len(log') = Len(log) + 1
      /\ SettledInv' /\ RanInv' /\ NotStartedNeverRan'
  <2>1. /\ e \in Entries /\ T!Valid(trace, e) /\ Fits(log, Scanned(log), e)
        /\ (e.type = "step/end" => Scanned(log).pending = <<>>)
    BY <1>5 DEF CloserFacts
  <2>2. Len(log') = Len(log) + 1
    BY <1>1, <1>3, <2>1, AppendFacts
  <2>3. mode # "down" /\ ran' = ran /\ durable' \in Nat /\ durable' >= durable /\ abandoned \subseteq abandoned'
    BY <1>1, <1>2, <1>3, <2>2
  <2>4. QED
    BY <1>1, <1>6, <2>1, <2>3, AppendStep
<1>8. StateInv' /\ TailInv'
  <2>1. durable' \in 0..Len(log')
    BY <1>1, <1>2, <1>3, <1>7
  <2>2. QED
    BY <1>1, <1>3, <1>5, <1>7, <2>1 DEF RepairInv, StateInv, TailInv
<1>9. OwnStepInv'
  BY <1>1 DEF OwnStepInv
<1>10. Accepts
  <2>1. e \in Entries /\ T!Valid(trace, e)
    BY <1>5 DEF CloserFacts
  <2>2. Len(log') = Len(log) + 1 /\ log'[Len(log) + 1] = e
    BY <1>1, <1>3, <2>1, AppendFacts
  <2>3. QED
    BY <2>1, <2>2 DEF Accepts
<1>11. RepairsAlike'
  <2>1. SUFFICES ASSUME NEW k \in durable'..Len(log')
                 PROVE  SubSeq(log', 1, k) \o Closers(SubSeq(log', 1, k)) = log' \o closers'
    BY DEF RepairsAlike
  <2>2. log' \in Seq(Entries) /\ Len(log') \in Nat /\ Len(log') = Len(log) + 1
    BY <1>7, GoodSound DEF LogInv
  <2>3. CASE k = Len(log')
    <3>1. SubSeq(log', 1, k) = log'
      BY <2>2, <2>3, SubSeqFull
    <3>2. QED
      BY <1>5, <3>1, Zenon
  <2>4. CASE k # Len(log')
    <3>1. k \in durable..Len(log) /\ k \in 0..Len(log)
      BY <1>1, <1>2, <1>3, <2>1, <2>2, <2>4
    <3>2. SubSeq(log', 1, k) = SubSeq(log, 1, k)
      <4>1. e \in Entries
        BY <1>5 DEF CloserFacts
      <4>2. QED
        BY <1>1, <1>3, <3>1, <4>1, PrefixAppend
    <3>3. SubSeq(log, 1, k) \o Closers(SubSeq(log, 1, k)) = log \o closers
      BY <1>1, <3>1 DEF RepairInv, RepairsAlike
    <3>4. log' \o closers' = log \o closers
      <4>1. closers \in Seq(Entries)
        BY <1>2, <1>3, ClosersType
      <4>2. Append(log, Head(closers)) \o Tail(closers) = log \o closers
        BY <1>1, <1>3, <4>1, AppendHeadTail
      <4>3. QED
        BY <1>1, <1>2, <1>4, <4>2, Zenon
    <3>5. QED
      BY <3>2, <3>3, <3>4, Zenon
  <2>5. QED
    BY <2>3, <2>4
<1>12. QED
  BY <1>7, <1>8, <1>9, <1>10, <1>11 DEF RepairInv

\* Nothing is open when repair has no closer left.
LEMMA NothingLeft ==
    ASSUME RepairInv, mode = "repairing", closers = <<>>
    PROVE  trace.openTurn = 0 /\ trace.openStep = 0
<1>1. Shape(trace, Scanned(log)) /\ Sound(log) /\ Closers(log) = <<>>
  BY LiveFacts DEF RepairInv, StateInv
<1>2. Scanned(log).openTurn = 0
  BY <1>1, ClosersType
<1>3. QED
  BY <1>1, <1>2 DEF Shape

\* Published with no closer left, the log has nothing open.
LEMMA PublishKeeps == ASSUME RepairInv, Publish PROVE RepairInv'
<1>1. /\ mode = "repairing" /\ closers = <<>> /\ mode' = "live"
      /\ UNCHANGED <<log, trace, durable, loaded, tail, closers, ran, abandoned>>
  BY DEF Publish, diskVars
<1>2. trace.openStep = 0
  BY <1>1, NothingLeft
<1>3. OwnStepInv'
  BY <1>1, <1>2 DEF OwnStepInv, Within
<1>4. StateInv' /\ TailInv' /\ RepairsAlike'
  BY <1>1 DEF RepairInv, StateInv, TailInv, RepairsAlike
<1>5. LogInv' /\ SettledInv' /\ RanInv' /\ NotStartedNeverRan'
  BY <1>1 DEF RepairInv, LogInv, SettledInv, RanInv, NotStartedNeverRan
<1>6. QED
  BY <1>3, <1>4, <1>5 DEF RepairInv

-----------------------------------------------------------------------------
(* The theorems.                                                           *)

\* The empty log is sound.
LEMMA FreshSound == Sound(<<>>)
<1> DEFINE t == T!FreshTrace
           s == NothingOpen
           zero == 0
           one == 1
           none == {}
           empty == <<>>
           last == T!Event("none", 0, 0)
<1>1. Cursor(<<>>) = t /\ Scanned(<<>>) = s
  <2>1. <<>> \in Seq(Nat)
    BY EmptySeq
  <2>2. QED
    BY <2>1, CursorAppend, ScannedAppend
<1>2. /\ zero \in Nat /\ one \in Nat /\ none \in SUBSET Nat /\ empty \in Seq(Waiting)
  BY EmptySeq
<1>3. t = [openTurn |-> zero, openStep |-> zero, nextTurn |-> one, nextStep |-> one, pendingCalls |-> none, last |-> last]
  BY DEF T!FreshTrace, T!None
<1>4. s = [openTurn |-> zero, openStep |-> zero, pending |-> empty]
  BY DEF NothingOpen, T!None
<1> HIDE DEF zero, one, none, empty, last
<1>5. t.openTurn = zero /\ t.openStep = zero /\ t.nextTurn = one /\ t.nextStep = one /\ t.last = last
  BY <1>3
<1>6. t \in Traces
  <2> DEFINE lasts == Entries \union {t.last}
  <2>1. last \in lasts
    BY <1>5
  <2> HIDE DEF lasts
  <2>2. t \in [openTurn : Nat, openStep : Nat, nextTurn : Nat, nextStep : Nat, pendingCalls : SUBSET Nat, last : lasts]
    <3> HIDE DEF t
    <3>1. QED
      BY <1>2, <1>3, <2>1
  <2>3. QED
    BY <2>2 DEF Traces, lasts
<1>7. s \in ScanStates /\ s.openTurn = zero /\ s.openStep = zero /\ s.pending = empty
  BY <1>2, <1>4 DEF ScanStates
<1> HIDE DEF t, s
<1>8. ToSet(s.pending) = {} /\ Distinct(s.pending)
  BY <1>7 DEF ToSet, Distinct, empty
<1>9. Shape(t, s)
  BY <1>5, <1>6, <1>7, <1>8 DEF Shape, zero, one, empty
<1>10. \A i \in DOMAIN <<>> : FALSE
  OBVIOUS
<1>11. SoundAt(<<>>, t, s)
  BY <1>8, <1>9, <1>10 DEF SoundAt, OpenCalls, PendingRequested, ClosedCalls, MessagesEnd
<1>12. QED
  BY <1>1, <1>11, Zenon DEF Sound

\* The invariant holds at first.
LEMMA InitGood == ASSUME Init PROVE RepairInv
<1>1. /\ mode = "live" /\ log = <<>> /\ trace = T!FreshTrace /\ durable = 0 /\ closers = <<>> /\ ran = {}
      /\ abandoned = {} /\ loaded = 0 /\ tail = "whole"
  BY DEF Init
<1>2. GoodLog(<<>>)
  <2>1. <<>> \in Seq(Entries) /\ Len(<<>>) = 0
    BY EmptySeq
  <2>2. SubSeq(<<>>, 1, Len(<<>>)) = <<>>
    BY <2>1, SubSeqFull
  <2>3. ASSUME NEW n \in 0..Len(<<>>) PROVE Sound(SubSeq(<<>>, 1, n))
    <3>1. n = Len(<<>>)
      BY <2>1
    <3>2. QED
      BY <2>2, <3>1, FreshSound, Zenon
  <2>4. QED
    BY <2>1, <2>3, Zenon DEF GoodLog
<1>3. DOMAIN log = {} /\ Len(log) = 0
  BY <1>1
<1>4. trace = Cursor(log)
  <2>1. <<>> \in Seq(Nat)
    BY EmptySeq
  <2>2. Cursor(<<>>) = T!FreshTrace
    BY <2>1, CursorAppend
  <2>3. QED
    BY <1>1, <2>2, Zenon
<1>5. LogInv
  BY <1>1, <1>2, Zenon DEF LogInv
<1>6. StateInv /\ TailInv /\ RepairsAlike
  BY <1>1, <1>3, <1>4 DEF StateInv, TailInv, RepairsAlike
<1>7. SettledInv /\ OwnStepInv /\ RanInv /\ NotStartedNeverRan
  BY <1>1, <1>3 DEF SettledInv, OwnStepInv, RanInv, NotStartedNeverRan
<1>8. QED
  BY <1>5, <1>6, <1>7 DEF RepairInv

\* Every step keeps it, and appends only what the companion accepts.
LEMMA NextKeeps == ASSUME RepairInv, Next PROVE RepairInv' /\ Accepts
<1>1. CASE StartTurn
  BY <1>1, StartTurnKeeps
<1>2. CASE StartStep
  BY <1>2, StartStepKeeps
<1>3. CASE EndStep
  BY <1>3, EndStepKeeps
<1>4. CASE EndTurn
  BY <1>4, EndTurnKeeps
<1>5. ASSUME NEW n \in 0..MaxCalls, ModelAnswers(n) PROVE RepairInv' /\ Accepts
  BY <1>5, ModelAnswersKeeps
<1>6. ASSUME NEW c \in 1..MaxCalls, RecordCall(c) PROVE RepairInv' /\ Accepts
  BY <1>6, RecordCallKeeps
<1>7. ASSUME NEW c \in 1..MaxCalls, CommitResult(c) PROVE RepairInv' /\ Accepts
  BY <1>7, CommitResultKeeps
<1>8. CASE StoreCloser
  BY <1>8, StoreCloserKeeps
<1>9. Len(log) \in Nat /\ log \in Seq(Entries)
  BY GoodSound DEF RepairInv, LogInv
<1>10. log' = log => Accepts
  BY <1>9 DEF Accepts
<1>11. ASSUME NEW c \in 1..MaxCalls, RunBody(c) PROVE RepairInv' /\ Accepts
  <2>1. log' = log
    BY <1>11 DEF RunBody
  <2>2. QED
    BY <1>10, <1>11, <2>1, RunBodyKeeps
<1>12. CASE Persist
  <2>1. log' = log
    BY <1>12 DEF Persist
  <2>2. QED
    BY <1>10, <1>12, <2>1, PersistKeeps
<1>13. CASE Crash
  <2>1. PICK kept \in Readable : CrashAt(kept)
    BY <1>13 DEF Crash
  <2>2. log' = SubSeq(log, 1, kept) /\ kept \in 0..Len(log)
    BY <2>1, ReadableBounds DEF CrashAt
  <2>3. Len(SubSeq(log, 1, kept)) = kept
    BY <1>9, <2>2, PrefixFacts
  <2>4. Len(log') = kept
    BY <2>2, <2>3, Zenon
  <2>5. Accepts
    BY <1>9, <2>2, <2>4 DEF Accepts
  <2>6. QED
    BY <2>1, <2>5, CrashKeeps
<1>14. CASE Resume
  <2>1. log' = log
    BY <1>14 DEF Resume
  <2>2. QED
    BY <1>10, <1>14, <2>1, ResumeKeeps
<1>15. CASE Publish
  <2>1. log' = log
    BY <1>15 DEF Publish
  <2>2. QED
    BY <1>10, <1>15, <2>1, PublishKeeps
<1>16. CASE TruncateTail
  <2>1. log' = log
    BY <1>16 DEF TruncateTail
  <2>2. QED
    BY <1>10, <1>16, <2>1, TruncateTailKeeps
<1>17. CASE RewriteTail
  <2>1. log' = log
    BY <1>17 DEF RewriteTail
  <2>2. QED
    BY <1>10, <1>17, <2>1, RewriteTailKeeps
<1>18. QED
  BY <1>1, <1>2, <1>3, <1>4, <1>5, <1>6, <1>7, <1>8, <1>11, <1>12, <1>13, <1>14, <1>15, <1>16, <1>17 DEF Next

\* So does a step that changes nothing.
LEMMA StutterKeeps == ASSUME RepairInv, UNCHANGED vars PROVE RepairInv'
<1>1. /\ mode' = mode /\ log' = log /\ trace' = trace /\ durable' = durable /\ closers' = closers /\ ran' = ran
      /\ abandoned' = abandoned /\ loaded' = loaded /\ tail' = tail
  BY DEF vars, diskVars
<1>2. QED
  BY <1>1 DEF RepairInv, LogInv, StateInv, TailInv, RepairsAlike, SettledInv, OwnStepInv, RanInv, NotStartedNeverRan

\* At every state of the process and of the disk, in and between crashes: each
\* prefix of the log is a protocol-respecting history whose scan knows which
\* calls are open, and no prefix that a crash can leave has lost a running call.
THEOREM RepairInvariant == Spec => []RepairInv
<1>1. Init => RepairInv
  BY InitGood
<1>2. RepairInv /\ [Next]_vars => RepairInv'
  BY NextKeeps, StutterKeeps
<1>3. QED
  BY <1>1, <1>2, PTL DEF Spec

\* A call that repair reports as never started has not run, wherever the crash
\* cut the log (repair.ts writes the advice to retry it).
THEOREM NotStartedHasNotRun == Spec => []NotStartedNeverRan
<1>1. RepairInv => NotStartedNeverRan
  BY DEF RepairInv
<1>2. QED
  BY <1>1, RepairInvariant, PTL

\* Once a step is over, each call its message requested has exactly one answer,
\* unless the live loop itself gave the step up.
THEOREM CallsAreAnsweredOnce == Spec => []RepairedCallsAnswered
<1>1. ASSUME RepairInv PROVE RepairedCallsAnswered
  <2>1. SUFFICES ASSUME mode = "live", NEW i \in DOMAIN log, log[i].type = "assistant/message",
                        <<log[i].turn, log[i].step>> \notin abandoned \union {<<turn, step>>}, NEW c \in 1..log[i].call
                 PROVE  Cardinality(AnswersTo(log[i], c)) = 1
    BY DEF RepairedCallsAnswered
  <2>2. Sound(log) /\ trace = Cursor(log)
    BY <1>1, <2>1, LiveFacts
  <2>3. ~Within(trace, log[i])
    BY <2>1 DEF Within, turn, step
  <2>4. PICK j \in DOMAIN log : log[j].type = "step/end" /\ SameStep(log[i], log[j])
    BY <2>1, <2>2, <2>3 DEF Sound, SoundAt, MessagesEnd
  <2>5. <<log[j].turn, log[j].step>> \notin abandoned
    BY <2>1, <2>4 DEF SameStep
  <2>6. EndsSettled(log, j)
    BY <1>1, <2>4, <2>5 DEF RepairInv, SettledInv
  <2>7. Answered(log, log[i], c)
    BY <2>1, <2>2, <2>4, <2>6 DEF Sound, SoundAt, ClosedCalls
  <2>8. AnswersTo(log[i], c) = AnswersIn(log, log[i], c)
    BY DEF AnswersTo, AnswersIn, IsAnswer, SameStep
  <2>9. PICK k : AnswersTo(log[i], c) = {k}
    BY <2>7, <2>8 DEF Answered
  <2>10. QED
    BY <2>9, FS_Singleton
<1>2. QED
  BY <1>1, RepairInvariant, PTL

\* The companion accepts every event where it is appended, repair's included,
\* and a resumed agent starts with no turn and no step open.
THEOREM ResumedLogsAreBalanced == Spec => ResumesBalanced
<1>1. ASSUME RepairInv, [Next]_vars
      PROVE  [/\ Len(log') > Len(log) => T!Valid(trace, log'[Len(log')])
              /\ mode = "repairing" /\ mode' = "live" => T!Balanced(trace)]_vars
  <2>1. SUFFICES ASSUME Next
                 PROVE  /\ Len(log') > Len(log) => T!Valid(trace, log'[Len(log')])
                        /\ mode = "repairing" /\ mode' = "live" => T!Balanced(trace)
    BY <1>1
  <2>2. Accepts
    BY <1>1, <2>1, NextKeeps
  <2>3. ASSUME mode = "repairing", mode' = "live" PROVE T!Balanced(trace)
    <3>1. Publish
      BY <2>1, <2>3 DEF Next, StartTurn, StartStep, EndStep, EndTurn, Persist, ModelAnswers, RecordCall, CommitResult,
                        RunBody, Crash, CrashAt, Resume, StoreCloser, InMemory, TruncateTail, RewriteTail
    <3>2. closers = <<>>
      BY <3>1 DEF Publish
    <3>3. QED
      BY <1>1, <2>3, <3>2, NothingLeft DEF T!Balanced, T!None
  <2>4. QED
    BY <2>2, <2>3 DEF Accepts
<1>2. QED
  BY <1>1, RepairInvariant, PTL DEF Spec, ResumesBalanced

\* Whatever crashes interrupt it, repair ends in the one log that the first
\* crash has determined, but for a crash between truncation and rewriting of the
\* tail (persistContiguous) that takes recovered events away.
THEOREM RepairEndsAsItBegan == Spec => RepairIsDeterministic
<1>1. ASSUME RepairInv, [Next]_vars
      PROVE  [mode # "live" /\ RepairedLog' # RepairedLog => tail = "cut" /\ mode' = "down" /\ Len(log') < loaded]_vars
  <2>1. SUFFICES ASSUME Next, mode # "live", ~(tail = "cut" /\ mode' = "down" /\ Len(log') < loaded)
                 PROVE  RepairedLog' = RepairedLog
    BY <1>1
  <2>2. /\ log \in Seq(Entries) /\ Len(log) \in Nat /\ Sound(log)
        /\ closers = (IF mode = "repairing" THEN Closers(log) ELSE <<>>)
    BY <1>1, <2>1, GoodSound DEF RepairInv, LogInv, StateInv
  <2>3. RepairedLog = log \o Closers(log)
    BY <2>2 DEF RepairedLog
  <2>4. CASE Crash
    <3>1. PICK kept \in Readable : CrashAt(kept)
      BY <2>4 DEF Crash
    <3>2. mode # "down" /\ log' = SubSeq(log, 1, kept) /\ mode' = "down"
      BY <3>1 DEF CrashAt
    <3>3. kept \in durable..Len(log) /\ kept \in 0..Len(log) /\ (tail = "torn" => kept = loaded)
      BY <1>1, <3>2, ReadableBounds
    <3>4. RepairedLog' = log' \o Closers(log')
      BY <3>2 DEF RepairedLog
    <3>5. Len(log') = kept
      <4>1. Len(SubSeq(log, 1, kept)) = kept
        BY <2>2, <3>3, PrefixFacts
      <4>2. QED
        BY <3>2, <4>1, Zenon
    <3>6. mode = "repairing"
      BY <1>1, <2>1, <3>2 DEF RepairInv, StateInv
    <3>7. CASE tail = "whole"
      <4>1. SubSeq(log, 1, kept) \o Closers(SubSeq(log, 1, kept)) = log \o closers
        BY <1>1, <3>3, <3>6, <3>7 DEF RepairInv, RepairsAlike
      <4>2. QED
        BY <2>2, <2>3, <3>2, <3>4, <3>6, <4>1, Zenon
    <3>8. CASE tail # "whole"
      <4>1. tail \in {"torn", "cut"} /\ loaded = Len(log)
        BY <1>1, <2>1, <3>8 DEF RepairInv, TailInv
      <4>2. kept = Len(log)
        BY <2>1, <2>2, <3>2, <3>3, <3>5, <4>1
      <4>3. SubSeq(log, 1, Len(log)) = log
        BY <2>2, SubSeqFull
      <4>4. log' = log
        BY <3>2, <4>2, <4>3, Zenon
      <4>5. QED
        BY <2>3, <3>4, <4>4, Zenon
    <3>9. QED
      BY <3>7, <3>8
  <2>5. CASE Resume
    <3>1. log' = log /\ closers' = Closers(log) /\ mode' = "repairing"
      BY <2>5 DEF Resume
    <3>2. RepairedLog' = log' \o closers'
      BY <3>1 DEF RepairedLog
    <3>3. QED
      BY <2>3, <3>1, <3>2, Zenon
  <2>6. CASE Publish
    <3>1. log' = log /\ mode' = "live"
      BY <2>6 DEF Publish
    <3>2. RepairedLog' = log' \o Closers(log')
      BY <3>1 DEF RepairedLog
    <3>3. QED
      BY <2>3, <3>1, <3>2, Zenon
  <2>7. CASE StoreCloser
    <3>1. /\ log' = Append(log, Head(closers)) /\ closers' = Tail(closers) /\ mode' = "repairing" /\ mode = "repairing"
          /\ closers # <<>>
      BY <2>7 DEF StoreCloser
    <3>2. RepairedLog' = log' \o closers'
      BY <3>1 DEF RepairedLog
    <3>3. closers = Closers(log) /\ closers \in Seq(Entries)
      BY <2>2, <3>1, ClosersType
    <3>4. Append(log, Head(closers)) \o Tail(closers) = log \o closers
      BY <2>2, <3>1, <3>3, AppendHeadTail
    <3>5. RepairedLog' = Append(log, Head(closers)) \o Tail(closers)
      BY <3>1, <3>2, Zenon
    <3>6. QED
      BY <2>3, <3>3, <3>4, <3>5, Zenon
  <2>8. CASE TruncateTail \/ RewriteTail
    <3>1. log' = log /\ closers' = closers /\ mode' = mode
      BY <2>8 DEF TruncateTail, RewriteTail
    <3>2. RepairedLog' = log \o (IF mode = "repairing" THEN closers ELSE Closers(log))
      BY <3>1 DEF RepairedLog
    <3>3. QED
      BY <3>2 DEF RepairedLog
  <2>9. QED
    BY <2>1, <2>4, <2>5, <2>6, <2>7, <2>8
       DEF Next, StartTurn, StartStep, EndStep, EndTurn, Persist, ModelAnswers, RecordCall, CommitResult,
           RunBody, InMemory
<1>2. QED
  BY <1>1, RepairInvariant, PTL DEF Spec, RepairIsDeterministic

\* seedSession validates what it loads event by event: whatever a crash has left
\* of the log, and repair has added, the companion can be seeded from it again.
SeedsFromLog == \A n \in DOMAIN log : T!Valid(Cursor(SubSeq(log, 1, n - 1)), log[n])
THEOREM StoredLogsAreAccepted == Spec => []SeedsFromLog
<1>1. Init => SeedsFromLog
  BY DEF Init, SeedsFromLog
<1>2. ASSUME RepairInv, SeedsFromLog, [Next]_vars PROVE SeedsFromLog'
  <2>1. log \in Seq(Entries) /\ Len(log) \in Nat /\ DOMAIN log = 1..Len(log)
    BY <1>2, GoodSound DEF RepairInv, LogInv
  <2>2. CASE log' = log
    BY <1>2, <2>2 DEF SeedsFromLog
  <2>3. CASE Crash
    <3>1. PICK kept \in 0..Len(log) : log' = SubSeq(log, 1, kept)
      BY <1>2, <2>3, ReadableBounds DEF Crash, CrashAt
    <3>2. /\ DOMAIN SubSeq(log, 1, kept) = 1..kept
          /\ \A n \in 1..kept : SubSeq(log, 1, kept)[n] = log[n]
      BY <2>1, <3>1, PrefixFacts
    <3>3. ASSUME NEW n \in 1..kept
          PROVE  T!Valid(Cursor(SubSeq(SubSeq(log, 1, kept), 1, n - 1)), SubSeq(log, 1, kept)[n])
      <4>1. n - 1 \in 0..kept /\ n \in DOMAIN log
        BY <2>1, <3>1
      <4>2. SubSeq(SubSeq(log, 1, kept), 1, n - 1) = SubSeq(log, 1, n - 1)
        BY <2>1, <3>1, <4>1, PrefixPrefix
      <4>3. T!Valid(Cursor(SubSeq(log, 1, n - 1)), log[n])
        BY <1>2, <4>1 DEF SeedsFromLog
      <4>4. QED
        BY <3>2, <4>2, <4>3, Zenon
    <3>4. QED
      BY <3>1, <3>2, <3>3, Zenon DEF SeedsFromLog
  <2>4. ASSUME Next, NEW e, mode # "down", log' = Append(log, e) PROVE SeedsFromLog'
    <3>1. log' \in Seq(Entries) /\ DOMAIN log' = 1..Len(log') /\ Accepts
      BY <1>2, <2>4, NextKeeps, GoodSound DEF RepairInv, LogInv
    <3>2. Len(log') = Len(log) + 1 /\ log'[Len(log) + 1] = e
      BY <2>1, <2>4
    <3>3. e \in Entries
      BY <2>1, <3>1, <3>2, ElementOfSeq
    <3>4. T!Valid(Cursor(log), e)
      <4>1. trace = Cursor(log)
        BY <1>2, <2>4 DEF RepairInv, StateInv
      <4>2. Len(log') > Len(log) /\ log'[Len(log')] = e
        BY <2>1, <3>2
      <4>3. T!Valid(trace, e)
        BY <3>1, <4>2, Zenon DEF Accepts
      <4>4. QED
        BY <4>1, <4>3, Zenon
    <3>5. /\ SubSeq(log', 1, Len(log)) = log
          /\ \A k \in 0..Len(log) : SubSeq(log', 1, k) = SubSeq(log, 1, k)
      BY <2>1, <2>4, <3>3, PrefixAppend
    <3>6. \A n \in 1..Len(log) : log'[n] = log[n]
      BY <2>1, <2>4
    <3>7. ASSUME NEW n \in DOMAIN log' PROVE T!Valid(Cursor(SubSeq(log', 1, n - 1)), log'[n])
      <4>1. CASE n = Len(log) + 1
        <5>1. n - 1 = Len(log)
          BY <2>1, <4>1
        <5>2. QED
          BY <3>2, <3>4, <3>5, <4>1, <5>1, Zenon
      <4>2. CASE n # Len(log) + 1
        <5>1. n \in 1..Len(log) /\ n - 1 \in 0..Len(log)
          BY <2>1, <3>1, <3>2, <4>2
        <5>2. T!Valid(Cursor(SubSeq(log, 1, n - 1)), log[n])
          BY <1>2, <2>1, <5>1 DEF SeedsFromLog
        <5>3. QED
          BY <3>5, <3>6, <5>1, <5>2, Zenon
      <4>3. QED
        BY <4>1, <4>2
    <3>8. QED
      BY <3>7 DEF SeedsFromLog
  <2>5. QED
    BY <1>2, <2>2, <2>3, <2>4
       DEF Next, StartTurn, StartStep, EndStep, EndTurn, ModelAnswers, RecordCall, CommitResult, InMemory,
           RunBody, Persist, TruncateTail, RewriteTail, Resume, StoreCloser, Publish, vars
<1>3. QED
  BY <1>1, <1>2, RepairInvariant, PTL DEF Spec

=============================================================================
