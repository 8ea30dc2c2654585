----------------------- MODULE CommandEngineRefinement -----------------------
(***************************************************************************)
(* Proofs that the engine implements the log it promises its clients, and  *)
(* that its projections, its model and its feed are that log.              *)
(***************************************************************************)
EXTENDS CommandEngineProofs

\* The log stays within its bound, also when the plan being committed is added.
Room == Len(log) <= MaxLog /\ (pc = "commit" => Len(log) + Len(plan) <= MaxLog)
\* Neither the model nor a projector is ahead of the log.
Behind == mem.snap <= Len(log) /\ \A p \in Projectors : Cursor(p) <= Len(log)
\* Who waits is not answered yet, and waits once.
Waits ==
  /\ cur # 0 => replies[cur] = NoReply
  /\ \A i \in DOMAIN queue : queue[i] # cur /\ replies[queue[i]] = NoReply
  /\ \A i, j \in DOMAIN queue : queue[i] = queue[j] => i = j
\* An answer on its way agrees with what its command came to.
Agrees(c, a) ==
  LET o == receipts[c.id]
  IN /\ a.kind \in {"ok", "rejectedBefore", "conflict", "invariant", "error"}
     /\ a.kind = "ok" => o = [status |-> "accepted", agg |-> c.agg, seq |-> a.seq]
     /\ a.kind = "rejectedBefore" => o.status = "rejected" /\ o.agg = c.agg
     /\ a.kind = "conflict" => o # NoReceipt /\ o.agg # c.agg
     /\ a.kind = "invariant" => o.status # "accepted"
Answering == {"failed", "publish", "record", "answer"}
ReplyIsTrue == pc \in Answering => Agrees(Command, reply)
\* A receipt is of a command some client sent.
Sent(id, agg) == \E m \in DOMAIN dispatches : dispatches[m].id = id /\ dispatches[m].agg = agg
Dispatched == \A id \in Ids : receipts[id] # NoReceipt => Sent(id, receipts[id].agg)

RInv == Room /\ Behind /\ Waits /\ ReplyIsTrue /\ Dispatched /\ ConflictIsReuse

USE DEF durable, process, worker, clients, feed, budgets
----------------------------------------------------------------------------
(* Which steps change what.                                                 *)

Commits == CommitSucceeds \/ CommitUnreported
Dispatches == \E c \in Commands : Dispatch(c)

LEMMA OnlyCommits ==
  ASSUME [Next]_vars
  PROVE  Commits \/ UNCHANGED log
  BY DEF Next, Upgrade, StartProcess, Boot, BootstrapEvent, BootstrapNext, LoadModel, Crash, Dispatch,
         Worker, Take, Lookup, LookupHit, LookupMiss, LookupFails, Decide, DecideEvents, DecideRejects,
         Commit, CommitRollsBack, Reconcile, ReconcileFails, Publish, PublishNext, PublishDone,
         RecordRejection, Answer, Commits, vars
LEMMA OnlyOutcomes ==
  ASSUME [Next]_vars
  PROVE  Commits \/ RecordRejection \/ UNCHANGED receipts
  BY DEF Next, Upgrade, StartProcess, Boot, BootstrapEvent, BootstrapNext, LoadModel, Crash, Dispatch,
         Worker, Take, Lookup, LookupHit, LookupMiss, LookupFails, Decide, DecideEvents, DecideRejects,
         Commit, CommitRollsBack, Reconcile, ReconcileFails, Publish, PublishNext, PublishDone,
         Answer, Commits, vars
LEMMA OnlyFolds ==
  ASSUME [Next]_vars
  PROVE  Commits \/ BootstrapEvent \/ LoadModel \/ Crash \/ Reconcile \/ UNCHANGED <<log, applied, mem>>
  BY DEF Next, Upgrade, StartProcess, Boot, BootstrapNext, Dispatch,
         Worker, Take, Lookup, LookupHit, LookupMiss, LookupFails, Decide, DecideEvents, DecideRejects,
         Commit, CommitRollsBack, ReconcileFails, Publish, PublishNext, PublishDone,
         RecordRejection, Answer, Commits, vars
LEMMA OnlyPlans ==
  ASSUME [Next]_vars, pc' = "commit"
  PROVE  DecideEvents \/ UNCHANGED <<pc, log, plan>>
  BY DEF Next, Upgrade, StartProcess, Boot, BootstrapEvent, BootstrapNext, LoadModel, Crash, Dispatch,
         Worker, Take, Lookup, LookupHit, LookupMiss, LookupFails, Decide, DecideRejects, AnswerWith,
         FailWith, Commit, CommitSucceeds, CommitRollsBack, CommitUnreported, Reconcile, ReconcileFails,
         Publish, PublishNext, PublishDone, RecordRejection, Answer, vars
LEMMA OnlyWaits ==
  ASSUME [Next]_vars
  PROVE  Dispatches \/ Take \/ Crash \/ Answer \/ UNCHANGED <<queue, cur, replies, dispatches>>
  BY DEF Next, Upgrade, StartProcess, Boot, BootstrapEvent, BootstrapNext, LoadModel,
         Worker, Lookup, LookupHit, LookupMiss, LookupFails, Decide, DecideEvents, DecideRejects,
         Commit, CommitSucceeds, CommitRollsBack, CommitUnreported, Reconcile, ReconcileFails,
         Publish, PublishNext, PublishDone, RecordRejection, Dispatches, vars
----------------------------------------------------------------------------
(* Lengths and last elements.                                               *)

LEMMA LogLength ==
  ASSUME IInv
  PROVE  Len(log) \in Nat /\ log \in Seq(EventType) /\ applied \in [Projectors -> Seq(Nat)]
  BY DEF IInv, TInv, TypeOK, DurableType
LEMMA PersistLength ==
  ASSUME IInv, pc = "commit", Persist
  PROVE  /\ Len(log') = Len(log) + Len(plan) /\ Len(plan) \in Nat /\ Len(plan) > 0
         /\ Len(log) \in Nat /\ Len(log') \in Nat
<1>1. /\ Command \in Commands /\ plan \in Seq(Aggregates) /\ log \in Seq(EventType)
      /\ plan \in Plans[Command]
  BY CommandInType DEF IInv, TInv, TypeOK, WorkerType, DurableType
<1>2. plan # <<>>
  BY <1>1, PlansAssumption
<1>3. Events(Command, plan) \in Seq(EventType) /\ Len(Events(Command, plan)) = Len(plan)
  BY <1>1, EventsType
<1>4. log' = log \o Events(Command, plan)
  BY DEF Persist
<1>5. Len(log') = Len(log) + Len(plan)
  BY <1>1, <1>3, <1>4, ConcatProperties
<1>. QED BY <1>1, <1>2, <1>5
LEMMA LastOfSpan ==
  ASSUME NEW a \in Nat, NEW b \in Nat
  PROVE  IF a < b THEN Span(a + 1, b) # <<>> /\ Last(Span(a + 1, b)) = b ELSE Span(a + 1, b) = <<>>
<1>1. CASE a < b
  <2>1. Span(a + 1, b) = [i \in 1 .. b - a |-> a + i] /\ b - a \in Nat /\ b - a > 0
    BY <1>1 DEF Span
  <2>2. Len(Span(a + 1, b)) = b - a
    BY <2>1
  <2>. QED BY <1>1, <2>1, <2>2 DEF Last
<1>2. CASE ~ (a < b)
  <2>1. Span(a + 1, b) = [i \in 1 .. 0 |-> a + i]
    BY <1>2 DEF Span
  <2>2. Span(a + 1, b) \in Seq(Nat)
    BY SpanType
  <2>3. Len(Span(a + 1, b)) = 0
    BY <2>1
  <2>. QED BY <1>2, <2>2, <2>3
<1>. QED BY <1>1, <1>2
LEMMA LastOfConcat ==
  ASSUME NEW s \in Seq(Nat), NEW t \in Seq(Nat), t # <<>>
  PROVE  s \o t # <<>> /\ Last(s \o t) = Last(t)
<1>1. Len(t) \in Nat /\ Len(t) > 0 /\ Len(s) \in Nat
  OBVIOUS
<1>2. /\ Len(s \o t) = Len(s) + Len(t)
      /\ \A i \in 1 .. Len(s) + Len(t) : (s \o t)[i] = IF i <= Len(s) THEN s[i] ELSE t[i - Len(s)]
  BY ConcatProperties, Zenon
<1>3. (s \o t)[Len(s) + Len(t)] = t[Len(t)]
  BY <1>1, <1>2
<1>. QED BY <1>1, <1>2, <1>3 DEF Last
----------------------------------------------------------------------------
(* Every step keeps the strengthening, part by part.                        *)

LEMMA RoomStep ==
  ASSUME IInv, IInv', Room, [Next]_vars
  PROVE  Room'
<1>1. Len(log') <= MaxLog
  <2>1. CASE Commits
    <3>1. pc = "commit" /\ Persist
      BY <2>1 DEF Commits, CommitSucceeds, CommitUnreported
    <3>. QED BY <3>1, PersistLength DEF Room
  <2>2. CASE UNCHANGED log
    BY <2>2 DEF Room
  <2>. QED BY <2>1, <2>2, OnlyCommits
<1>2. ASSUME pc' = "commit" PROVE Len(log') + Len(plan') <= MaxLog
  <2>1. CASE DecideEvents
    BY <2>1 DEF DecideEvents
  <2>2. CASE UNCHANGED <<pc, log, plan>>
    BY <1>2, <2>2 DEF Room
  <2>. QED BY <1>2, <2>1, <2>2, OnlyPlans
<1>. QED BY <1>1, <1>2 DEF Room

LEMMA PersistBehind ==
  ASSUME IInv, Behind, pc = "commit", Persist
  PROVE  /\ mem.snap <= Len(log') /\ \A p \in Projectors : Cursor(p)' <= Len(log')
         /\ LET new == Span(Len(log) + 1, Len(log) + Len(plan)) IN new # <<>> /\ Last(new) = Len(log')
<1>. DEFINE new == Span(Len(log) + 1, Len(log) + Len(plan))
<1>1. /\ Len(log') = Len(log) + Len(plan) /\ Len(plan) \in Nat /\ Len(plan) > 0
      /\ Len(log) \in Nat /\ Len(log') \in Nat
  BY PersistLength
<1>2. new \in Seq(Nat) /\ new # <<>> /\ Last(new) = Len(log')
  <2>1. Len(log) + 1 \in Nat /\ Len(log) + Len(plan) \in Nat /\ Len(log) < Len(log) + Len(plan)
    BY <1>1
  <2>. QED BY <1>1, <2>1, SpanType, LastOfSpan
<1>3. applied' = ApplyAll(applied, new)
  BY DEF Persist
<1>. HIDE DEF new
<1>4. ASSUME NEW p \in Projectors PROVE Cursor(p)' <= Len(log')
  <2>1. applied[p] \in Seq(Nat)
    BY LogLength
  <2>2. CASE p \in installed
    <3>1. applied'[p] = applied[p] \o new
      BY <1>3, <2>2 DEF ApplyAll
    <3>2. applied'[p] # <<>> /\ Last(applied'[p]) = Len(log')
      BY <1>2, <2>1, <3>1, LastOfConcat
    <3>3. Cursor(p)' = Len(log')
      BY <3>2 DEF Cursor
    <3>. QED BY <1>1, <3>3
  <2>3. CASE p \notin installed
    <3>1. applied'[p] = applied[p]
      BY <1>3, <2>3 DEF ApplyAll
    <3>2. Cursor(p)' = Cursor(p) /\ Cursor(p) <= Len(log) /\ Cursor(p) \in Nat
      BY <3>1, CursorType DEF Cursor, Behind, IInv, TInv
    <3>. QED BY <1>1, <3>2
  <2>. QED BY <2>2, <2>3
<1>5. mem.snap <= Len(log) /\ mem.snap \in Nat
  BY DEF Behind, IInv, TInv, TypeOK, MemoryType
<1>. QED BY <1>1, <1>2, <1>4, <1>5 DEF new

LEMMA BehindStep ==
  ASSUME IInv, IInv', Behind, [Next]_vars
  PROVE  Behind'
<1>0. /\ TypeOK /\ Len(log) \in Nat /\ applied \in [Projectors -> Seq(Nat)] /\ start \in Nat
      /\ mem \in [fold : [Projectors -> Seq(Nat)], snap : Nat]
  BY LogLength DEF IInv, TInv, TypeOK, WorkerType, MemoryType
<1>1. CASE Commits
  <2>1. pc = "commit" /\ Persist
    BY <1>1 DEF Commits, CommitSucceeds, CommitUnreported
  <2>. DEFINE new == Span(Len(log) + 1, Len(log) + Len(plan))
  <2>2. CASE CommitUnreported
    BY <2>1, <2>2, PersistBehind DEF Behind, CommitUnreported
  <2>3. CASE CommitSucceeds
    <3>1. mem' = ProjectOnto(mem, new)
      BY <2>3 DEF CommitSucceeds
    <3>2. new # <<>> /\ Last(new) = Len(log')
      BY <2>1, PersistBehind
    <3>. HIDE DEF new
    <3>3. mem'.snap = Len(log')
      BY <3>1, <3>2 DEF ProjectOnto
    <3>4. Len(log') \in Nat
      BY <2>1, PersistLength
    <3>. QED BY <2>1, <3>3, <3>4, PersistBehind DEF Behind
  <2>. QED BY <1>1, <2>2, <2>3 DEF Commits
<1>2. CASE BootstrapEvent
  <2>. DEFINE q == Order[at]
  <2>1. /\ mem' = mem /\ log' = log /\ Cursor(q) < Len(log)
        /\ applied' = [applied EXCEPT ![q] = Append(@, Cursor(q) + 1)]
    BY <1>2 DEF BootstrapEvent
  <2>. HIDE DEF q
  <2>2. ASSUME NEW p \in Projectors PROVE Cursor(p)' <= Len(log')
    <3>1. CASE p = q
      <4>1. applied'[p] = Append(applied[p], Cursor(p) + 1)
        BY <1>0, <2>1, <3>1
      <4>2. Cursor(p) \in Nat /\ applied[p] \in Seq(Nat)
        BY <1>0, CursorType
      <4>3. Last(applied'[p]) = Cursor(p) + 1 /\ applied'[p] # <<>>
        <5>. DEFINE s == applied[p]
                    e == Cursor(p) + 1
        <5>1. s \in Seq(Nat) /\ e \in Nat /\ applied'[p] = Append(s, e)
          BY <4>1, <4>2
        <5>. HIDE DEF s, e
        <5>2. Append(s, e) # <<>> /\ Append(s, e)[Len(Append(s, e))] = e
          BY <5>1
        <5>. QED BY <5>1, <5>2 DEF Last, e
      <4>4. Cursor(p)' = Cursor(p) + 1
        BY <4>3 DEF Cursor
      <4>. QED BY <1>0, <2>1, <3>1, <4>2, <4>4
    <3>2. CASE p # q
      <4>1. applied'[p] = applied[p]
        BY <1>0, <2>1, <3>2
      <4>. QED BY <2>1, <4>1 DEF Cursor, Behind
    <3>. QED BY <3>1, <3>2
  <2>. QED BY <2>1, <2>2 DEF Behind
<1>3. CASE LoadModel
  <2>1. mem'.snap = SnapshotSequence /\ log' = log /\ applied' = applied
    BY <1>3 DEF LoadModel
  <2>2. SnapshotSequence <= Len(log)
    <3>. DEFINE cursors == {Cursor(p) : p \in Required \cap installed}
    <3>1. cursors \in SUBSET Nat /\ cursors # {}
      BY <1>0, CursorType DEF TypeOK, ProcessType
    <3>2. \E s \in cursors : \A t \in cursors : s <= t
      BY <3>1, LeastNatural
    <3>3. SnapshotSequence \in cursors
      BY <3>2 DEF SnapshotSequence
    <3>4. \A s \in cursors : s <= Len(log)
      BY <1>0 DEF Behind, TypeOK, ProcessType
    <3>. QED BY <3>3, <3>4
  <2>. QED BY <2>1, <2>2 DEF Behind, Cursor
<1>4. CASE Crash
  BY <1>0, <1>4 DEF Crash, EmptyModel, Behind, Cursor
<1>5. CASE Reconcile
  <2>. DEFINE s == ReadFromSequence(start)
  <2>1. mem' = ProjectOnto(mem, s) /\ log' = log /\ applied' = applied
    BY <1>5 DEF Reconcile
  <2>2. s # <<>> => Last(s) <= Len(log)
    <3>. DEFINE b == Lower(Len(log), start + ReplayLimit)
    <3>1. b \in Nat /\ b <= Len(log)
      BY <1>0, BoundsAssumption DEF Lower
    <3>2. s = Span(start + 1, b)
      BY DEF ReadFromSequence
    <3>. HIDE DEF s, b
    <3>. QED BY <1>0, <3>1, <3>2, LastOfSpan
  <2>. HIDE DEF s
  <2>3. mem'.snap <= Len(log)
    BY <2>1, <2>2 DEF ProjectOnto, Behind
  <2>. QED BY <2>1, <2>3 DEF Behind, Cursor
<1>6. CASE UNCHANGED <<log, applied, mem>>
  BY <1>6 DEF Behind, Cursor
<1>. QED BY <1>1, <1>2, <1>3, <1>4, <1>5, <1>6, OnlyFolds

LEMMA WaitsStep ==
  ASSUME IInv, IInv', Waits, [Next]_vars
  PROVE  Waits'
<1>0. /\ dispatches \in Seq(Commands) /\ replies \in Seq(ReplyType) /\ Len(replies) = Len(dispatches)
      /\ queue \in Seq(1 .. Len(dispatches)) /\ cur \in 0 .. Len(dispatches)
  BY DEF IInv, TInv, TypeOK, ClientsType, QueueType
<1>1. CASE Dispatches
  <2>. DEFINE n == Len(dispatches) + 1
              k == Len(queue) + 1
  <2>0. PICK c \in Commands : Dispatch(c)
    BY <1>1 DEF Dispatches
  <2>1. /\ replies' = Append(replies, NoReply) /\ cur' = cur /\ queue' = Append(queue, n)
    <3>1. Len(dispatches') = n
      BY <1>0, <2>0, AppendProperties DEF Dispatch
    <3>. QED BY <2>0, <3>1 DEF Dispatch
  <2>2. /\ replies'[n] = NoReply
        /\ \A i \in 1 .. Len(dispatches) : replies'[i] = replies[i]
    BY <1>0, <2>1
  <2>3. /\ DOMAIN queue' = 1 .. k /\ queue'[k] = n /\ DOMAIN queue = 1 .. Len(queue)
        /\ \A i \in 1 .. Len(queue) : queue'[i] = queue[i] /\ queue[i] \in 1 .. Len(dispatches)
    BY <1>0, <2>1
  <2>4. Len(dispatches) \in Nat /\ Len(queue) \in Nat
    BY <1>0
  <2>. HIDE DEF k
  <2>5. \A i \in DOMAIN queue' : i = k \/ i \in DOMAIN queue
    BY <2>3, <2>4 DEF k
  <2>6. cur' # 0 => replies'[cur'] = NoReply
    BY <1>0, <2>1, <2>2 DEF Waits
  <2>7. \A i \in DOMAIN queue' : queue'[i] # cur' /\ replies'[queue'[i]] = NoReply
    BY <1>0, <2>1, <2>2, <2>3, <2>4, <2>5 DEF Waits
  <2>8. \A i, j \in DOMAIN queue' : queue'[i] = queue'[j] => i = j
    BY <2>3, <2>4, <2>5 DEF Waits
  <2>. QED BY <2>6, <2>7, <2>8 DEF Waits
<1>2. CASE Take
  <2>1. queue # <<>> /\ cur' = Head(queue) /\ queue' = Tail(queue) /\ replies' = replies
    BY <1>2 DEF Take
  <2>2. /\ cur' = queue[1] /\ DOMAIN queue = 1 .. Len(queue) /\ DOMAIN queue' = 1 .. Len(queue) - 1
        /\ \A i \in 1 .. Len(queue) - 1 : queue'[i] = queue[i + 1]
        /\ Len(queue) \in Nat /\ Len(queue) > 0
    BY <1>0, <2>1
  <2>. QED BY <2>1, <2>2 DEF Waits
<1>3. CASE Crash
  BY <1>3 DEF Crash, Waits
<1>4. CASE Answer
  <2>1. cur' = 0 /\ queue' = queue /\ replies' = [replies EXCEPT ![cur] = reply]
    BY <1>4 DEF Answer
  <2>2. \A i \in DOMAIN queue : queue[i] \in 1 .. Len(dispatches)
    BY <1>0
  <2>. QED BY <1>0, <2>1, <2>2 DEF Waits
<1>5. CASE UNCHANGED <<queue, cur, replies, dispatches>>
  BY <1>5 DEF Waits
<1>. QED BY <1>1, <1>2, <1>3, <1>4, <1>5, OnlyWaits

\* Receipts and the dispatches a client may see grow: what is sent stays sent.
LEMMA SentStays ==
  ASSUME IInv, [Next]_vars
  PROVE  \A n \in DOMAIN dispatches : n \in DOMAIN dispatches' /\ dispatches'[n] = dispatches[n]
<1>1. dispatches \in Seq(Commands)
  BY DEF IInv, TInv, TypeOK, ClientsType
<1>2. CASE Dispatches
  <2>1. PICK c \in Commands : dispatches' = Append(dispatches, c)
    BY <1>2 DEF Dispatches, Dispatch
  <2>. QED BY <1>1, <2>1
<1>3. CASE UNCHANGED dispatches
  BY <1>3
<1>4. Dispatches \/ UNCHANGED dispatches
  BY OnlyWaits DEF Take, Crash, Answer
<1>. QED BY <1>2, <1>3, <1>4

\* The command being handled is one that was sent.
LEMMA Handled ==
  ASSUME IInv, pc # "idle"
  PROVE  cur \in DOMAIN dispatches /\ cur # 0 /\ Command.id \in Ids /\ Sent(Command.id, Command.agg)
<1>1. TypeOK /\ cur \in DOMAIN dispatches /\ cur # 0
  BY DEF IInv, TInv, TypeOK, ClientsType, QueueType
<1>. QED BY <1>1, CommandInType DEF Sent, Command

LEMMA DispatchedStep ==
  ASSUME IInv, IInv', Dispatched, [Next]_vars
  PROVE  Dispatched'
<1>. SUFFICES ASSUME NEW id \in Ids, receipts'[id] # NoReceipt PROVE Sent(id, receipts[id].agg)'
  BY DEF Dispatched, NoReceipt
<1>1. \A i, a : Sent(i, a) => \E m \in DOMAIN dispatches' : dispatches'[m].id = i /\ dispatches'[m].agg = a
  BY SentStays DEF Sent
<1>2. receipts \in [Ids -> ReceiptType]
  BY DEF IInv, TInv, TypeOK, DurableType
<1>3. CASE Commits
  <2>1. pc = "commit" /\ Persist
    BY <1>3 DEF Commits, CommitSucceeds, CommitUnreported
  <2>2. /\ receipts'[Command.id] = [status |-> "accepted", agg |-> Command.agg, seq |-> Len(log')]
        /\ id # Command.id => receipts'[id] = receipts[id]
    BY <2>1, PersistShape
  <2>3. CASE id = Command.id
    <3>1. receipts'[id].agg = Command.agg
      BY <2>2, <2>3
    <3>. QED BY <1>1, <2>1, <2>3, <3>1, Handled DEF Sent
  <2>4. CASE id # Command.id
    BY <1>1, <2>2, <2>4 DEF Dispatched, Sent
  <2>. QED BY <2>3, <2>4
<1>4. CASE RecordRejection
  <2>1. /\ pc = "record"
        /\ \/ receipts' = receipts
           \/ receipts' = [receipts EXCEPT ![Command.id] =
                             [status |-> "rejected", agg |-> Command.agg, seq |-> mem.snap]]
    BY <1>4 DEF RecordRejection
  <2>2. receipts'[id] = receipts[id] \/ (id = Command.id /\ receipts'[id].agg = Command.agg)
    BY <1>2, <2>1
  <2>3. CASE id = Command.id /\ receipts'[id].agg = Command.agg
    BY <1>1, <2>1, <2>3, Handled DEF Sent
  <2>4. CASE receipts'[id] = receipts[id]
    BY <1>1, <2>4 DEF Dispatched, Sent
  <2>. QED BY <2>2, <2>3, <2>4
<1>5. CASE UNCHANGED receipts
  BY <1>1, <1>5 DEF Dispatched, Sent
<1>. QED BY <1>3, <1>4, <1>5, OnlyOutcomes

\* What is to be answered stays true as long as receipt, dispatch and answer stay.
LEMMA AgreesStays ==
  ASSUME IInv, [Next]_vars, pc \in Answering, ReplyIsTrue, UNCHANGED <<receipts, cur, reply>>
  PROVE  ReplyIsTrue'
<1>1. cur \in DOMAIN dispatches
  BY Handled DEF Answering
<1>2. Command' = Command
  BY <1>1, SentStays DEF Command
<1>. QED BY <1>2 DEF ReplyIsTrue, Agrees

LEMMA ReplyStep ==
  ASSUME IInv, IInv', ReplyIsTrue, [Next]_vars
  PROVE  ReplyIsTrue'
<1>1. CASE LookupHit
  <2>. DEFINE r == receipts[Command.id]
  <2>1. /\ UNCHANGED <<receipts, cur, dispatches>> /\ r # NoReceipt
        /\ reply' = IF r.agg # Command.agg THEN Failed("conflict")
                    ELSE IF r.status = "accepted" THEN Acked(r.seq) ELSE Failed("rejectedBefore")
    BY <1>1 DEF LookupHit, AnswerWith
  <2>2. r \in ReceiptType
    <3>1. Command.id \in Ids
      BY <1>1, Handled DEF LookupHit
    <3>. QED BY <3>1 DEF IInv, TInv, TypeOK, DurableType
  <2>3. r \in [status : {"accepted", "rejected"}, agg : Aggregates, seq : Nat]
    BY <2>1, <2>2 DEF ReceiptType
  <2>4. Command' = Command
    BY <2>1 DEF Command
  <2>. HIDE DEF r
  <2>5. CASE r.agg # Command.agg
    <3>1. reply' = [kind |-> "conflict"]
      BY <2>1, <2>5 DEF Failed
    <3>. QED BY <2>1, <2>4, <2>5, <3>1 DEF ReplyIsTrue, Agrees, r
  <2>6. CASE r.agg = Command.agg /\ r.status = "accepted"
    <3>1. reply' = [kind |-> "ok", seq |-> r.seq]
      BY <2>1, <2>6 DEF Acked
    <3>2. r = [status |-> "accepted", agg |-> Command.agg, seq |-> r.seq]
      BY <2>3, <2>6
    <3>. QED BY <2>1, <2>4, <3>1, <3>2 DEF ReplyIsTrue, Agrees, r
  <2>7. CASE r.agg = Command.agg /\ r.status # "accepted"
    <3>1. reply' = [kind |-> "rejectedBefore"] /\ r.status = "rejected"
      BY <2>1, <2>3, <2>7 DEF Failed
    <3>. QED BY <2>1, <2>4, <2>7, <3>1 DEF ReplyIsTrue, Agrees, r
  <2>. QED BY <2>5, <2>6, <2>7
<1>2. CASE LookupFails \/ CommitRollsBack \/ CommitUnreported
  <2>1. reply' = [kind |-> "error"]
    BY <1>2 DEF LookupFails, CommitRollsBack, CommitUnreported, FailWith, Failed
  <2>. QED BY <2>1 DEF ReplyIsTrue, Agrees
<1>3. CASE DecideRejects
  <2>1. reply' = [kind |-> "invariant"] /\ UNCHANGED <<receipts, cur, dispatches>> /\ pc = "decide"
    BY <1>3 DEF DecideRejects, FailWith, Failed
  <2>2. receipts[Command.id] = NoReceipt
    BY <2>1 DEF IInv, Undecided
  <2>. QED BY <2>1, <2>2 DEF ReplyIsTrue, Agrees, Command, NoReceipt
<1>4. CASE CommitSucceeds
  <2>1. /\ pc = "commit" /\ Persist /\ UNCHANGED <<cur, dispatches>>
        /\ reply' = [kind |-> "ok", seq |-> Len(log) + Len(plan)]
    BY <1>4 DEF CommitSucceeds, Acked
  <2>2. Len(log') = Len(log) + Len(plan)
    BY <2>1, PersistLength
  <2>3. receipts'[Command.id] = [status |-> "accepted", agg |-> Command.agg, seq |-> Len(log')]
    BY <2>1, PersistShape
  <2>4. Command' = Command
    BY <2>1 DEF Command
  <2>. QED BY <2>1, <2>2, <2>3, <2>4 DEF ReplyIsTrue, Agrees
<1>5. CASE RecordRejection
  <2>1. /\ pc = "record" /\ UNCHANGED <<cur, dispatches, reply>>
        /\ \/ receipts' = receipts
           \/ receipts' = [receipts EXCEPT ![Command.id] =
                             [status |-> "rejected", agg |-> Command.agg, seq |-> mem.snap]]
    BY <1>5 DEF RecordRejection
  <2>2. receipts[Command.id] = NoReceipt /\ Agrees(Command, reply)
    BY <2>1 DEF IInv, Undecided, ReplyIsTrue, Answering
  <2>3. reply.kind \in {"invariant", "error"}
    BY <2>2 DEF Agrees, NoReceipt
  <2>4. receipts'[Command.id].status # "accepted"
    <3>1. Command.id \in Ids /\ receipts \in [Ids -> ReceiptType]
      BY <2>1, Handled DEF IInv, TInv, TypeOK, DurableType
    <3>. QED BY <2>1, <2>2, <3>1 DEF NoReceipt
  <2>5. Command' = Command
    BY <2>1 DEF Command
  <2>. QED BY <2>1, <2>3, <2>4, <2>5 DEF ReplyIsTrue, Agrees
<1>6. CASE Reconcile \/ ReconcileFails \/ Publish
  BY <1>6, AgreesStays DEF Reconcile, ReconcileFails, Publish, PublishNext, PublishDone, Answering
<1>7. CASE Take \/ LookupMiss \/ DecideEvents \/ Answer \/ Crash
  BY <1>7 DEF Take, LookupMiss, DecideEvents, Answer, Crash, ReplyIsTrue, Answering
<1>8. CASE Upgrade \/ StartProcess \/ Boot \/ Dispatches \/ UNCHANGED vars
  <2>1. UNCHANGED <<receipts, cur, reply, pc>>
    BY <1>8 DEF Upgrade, StartProcess, Boot, BootstrapEvent, BootstrapNext, LoadModel, Dispatches,
                Dispatch, vars
  <2>2. CASE pc \in Answering
    BY <2>1, <2>2, AgreesStays
  <2>3. CASE pc \notin Answering
    BY <2>1, <2>3 DEF ReplyIsTrue
  <2>. QED BY <2>2, <2>3
<1>. QED BY <1>1, <1>2, <1>3, <1>4, <1>5, <1>6, <1>7, <1>8
         DEF Next, Worker, Lookup, Decide, Commit, Dispatches

LEMMA ConflictStep ==
  ASSUME IInv, IInv', ReplyIsTrue, Dispatched, ConflictIsReuse, [Next]_vars
  PROVE  ConflictIsReuse'
<1>0. /\ dispatches \in Seq(Commands) /\ replies \in Seq(ReplyType) /\ Len(replies) = Len(dispatches)
  BY DEF IInv, TInv, TypeOK, ClientsType
<1>1. \A n \in DOMAIN dispatches : n \in DOMAIN dispatches' /\ dispatches'[n] = dispatches[n]
  BY SentStays
<1>2. SUFFICES ASSUME NEW n \in DOMAIN replies', replies'[n].kind = "conflict"
               PROVE  \E m \in DOMAIN dispatches :
                        n \in DOMAIN dispatches
                        /\ dispatches[m].id = dispatches[n].id /\ dispatches[m].agg # dispatches[n].agg
  BY <1>1 DEF ConflictIsReuse
<1>3. DOMAIN replies = DOMAIN dispatches
  BY <1>0
<1>4. ASSUME n \in DOMAIN replies, replies'[n] = replies[n]
      PROVE  \E m \in DOMAIN dispatches :
               n \in DOMAIN dispatches
               /\ dispatches[m].id = dispatches[n].id /\ dispatches[m].agg # dispatches[n].agg
  BY <1>2, <1>3, <1>4 DEF ConflictIsReuse
<1>5. CASE Dispatches
  <2>1. replies' = Append(replies, NoReply)
    BY <1>5 DEF Dispatches, Dispatch
  <2>2. n \in DOMAIN replies /\ replies'[n] = replies[n]
    BY <1>0, <1>2, <2>1 DEF NoReply
  <2>. QED BY <1>4, <2>2
<1>6. CASE Answer
  <2>1. replies' = [replies EXCEPT ![cur] = reply] /\ pc = "answer"
    BY <1>6 DEF Answer
  <2>2. n \in DOMAIN replies /\ (n # cur => replies'[n] = replies[n]) /\ (n = cur => replies'[n] = reply)
    BY <2>1
  <2>3. CASE n = cur
    <3>1. reply.kind = "conflict"
      BY <1>2, <2>2, <2>3
    <3>2. receipts[Command.id] # NoReceipt /\ receipts[Command.id].agg # Command.agg
      BY <2>1, <3>1 DEF ReplyIsTrue, Agrees, Answering
    <3>3. Sent(Command.id, receipts[Command.id].agg)
      BY <2>1, <3>2, Handled DEF Dispatched
    <3>. QED BY <1>3, <2>2, <2>3, <3>2, <3>3 DEF Sent, Command
  <2>. QED BY <1>4, <2>2, <2>3
<1>7. CASE UNCHANGED replies
  BY <1>4, <1>7
<1>. QED BY <1>5, <1>6, <1>7, OnlyWaits DEF Take, Crash

LEMMA InitR == Init => RInv
<1>. SUFFICES ASSUME Init PROVE RInv
  OBVIOUS
<1>1. /\ log = <<>> /\ plan = <<>> /\ queue = <<>> /\ cur = 0 /\ replies = <<>> /\ pc = "idle"
      /\ applied = [p \in Projectors |-> <<>>] /\ mem.snap = 0
      /\ \A id \in Ids : receipts[id] = NoReceipt
  BY DEF Init, EmptyModel
<1>2. Room
  BY <1>1, BoundsAssumption DEF Room
<1>3. Behind
  BY <1>1 DEF Behind, Cursor
<1>4. Waits
  BY <1>1 DEF Waits
<1>5. ReplyIsTrue /\ Dispatched /\ ConflictIsReuse
  BY <1>1 DEF ReplyIsTrue, Answering, Dispatched, ConflictIsReuse
<1>. QED BY <1>2, <1>3, <1>4, <1>5 DEF RInv

LEMMA StrongInvariance == Spec => [](IInv /\ RInv)
<1>1. RInv /\ IInv /\ IInv' /\ [Next]_vars => RInv'
  BY RoomStep, BehindStep, WaitsStep, ReplyStep, DispatchedStep, ConflictStep DEF RInv
<1>. QED BY <1>1, InitR, Invariance, PTL DEF Spec
----------------------------------------------------------------------------
(* The engine and the log.                                                  *)

\* When a client is refused with a conflict, some dispatch used the id for another
\* aggregate: a retry of the one command is never refused so.
THEOREM ConflictsAreReuse == Spec => []ConflictIsReuse
<1>1. IInv /\ RInv => ConflictIsReuse
  BY DEF RInv
<1>. QED BY <1>1, StrongInvariance, PTL

\* What the client is told is an answer the log's promise knows, and true there.
LEMMA AnswerAllowed ==
  ASSUME IInv, RInv, pc = "answer"
  PROVE  reply \in Log!Answers /\ Log!Truthful(Command, reply)
<1>1. Agrees(Command, reply) /\ reply \in ReplyType
  BY DEF RInv, ReplyIsTrue, Answering, IInv, TInv, TypeOK, WorkerType
<1>2. reply \in Log!Answers
  <2>1. CASE reply.kind = "ok"
    <3>1. reply \in [kind : {"ok"}, seq : Nat]
      BY <1>1, <2>1 DEF ReplyType
    <3>2. reply.seq \in 1 .. Len(log)
      BY <2>1, LogLength DEF IInv, ReplyIsDurable
    <3>3. reply.seq \in 1 .. MaxLog
      BY <3>2, LogLength, BoundsAssumption DEF RInv, Room
    <3>. QED BY <3>1, <3>3 DEF Log!Answers
  <2>2. CASE reply.kind # "ok"
    <3>1. reply.kind \in {"conflict", "rejectedBefore", "invariant", "error"}
      BY <1>1, <2>2 DEF Agrees
    <3>. QED BY <1>1, <3>1 DEF ReplyType, Log!Answers
  <2>. QED BY <2>1, <2>2
<1>3. Log!Truthful(Command, reply)
  BY <1>1 DEF Agrees, Log!Truthful, Log!Undecided, NoReceipt
<1>. QED BY <1>2, <1>3

\* Every step of the engine is one of the log's, or nothing a client sees.
LEMMA Simulates ==
  ASSUME IInv, RInv, [Next]_vars
  PROVE  [Log!Next]_(Log!vars)
<1>1. CASE Dispatches
  <2>1. PICK c \in Commands : Dispatch(c)
    BY <1>1 DEF Dispatches
  <2>2. Log!Ask(c)
    BY <2>1 DEF Dispatch, Log!Ask, Log!Unanswered, NoReply
  <2>. QED BY <2>2 DEF Log!Next
<1>2. CASE Commits
  <2>1. pc = "commit" /\ Persist /\ UNCHANGED <<dispatches, replies>>
    BY <1>2 DEF Commits, CommitSucceeds, CommitUnreported
  <2>2. Command \in Commands /\ plan \in Plans[Command] /\ cur \in DOMAIN dispatches
    BY <2>1, CommandInType, Handled DEF IInv, TInv
  <2>3. Command \in Log!Range(dispatches)
    BY <2>2 DEF Log!Range, Command
  <2>4. receipts[Command.id] = Log!Undecided
    BY <2>1 DEF IInv, Undecided, Log!Undecided, NoReceipt
  <2>5. Len(log) + Len(plan) <= MaxLog
    BY <2>1 DEF RInv, Room
  <2>6. log' = log \o [i \in DOMAIN plan |-> [id |-> Command.id, agg |-> plan[i]]]
    BY <2>1 DEF Persist, Events
  <2>7. Len(log') = Len(log) + Len(plan) /\ Last(plan) = Command.agg
    <3>1. Last(plan) = Command.agg
      BY <2>2, PlansAssumption
    <3>. QED BY <2>1, <3>1, PersistLength
  <2>8. receipts' = [receipts EXCEPT ![Command.id] =
                       [status |-> "accepted", agg |-> Command.agg, seq |-> Len(log')]]
    BY <2>1, <2>7 DEF Persist
  <2>9. Log!Accept(Command, plan)
    BY <2>1, <2>3, <2>4, <2>5, <2>6, <2>8 DEF Log!Accept
  <2>. QED BY <2>2, <2>9 DEF Log!Next
<1>3. CASE RecordRejection
  <2>1. /\ pc = "record" /\ UNCHANGED <<log, dispatches, replies>>
        /\ \/ receipts' = receipts
           \/ receipts' = [receipts EXCEPT ![Command.id] =
                             [status |-> "rejected", agg |-> Command.agg, seq |-> mem.snap]]
    BY <1>3 DEF RecordRejection
  <2>2. CASE receipts' = receipts
    BY <2>1, <2>2 DEF Log!vars
  <2>3. CASE receipts' = [receipts EXCEPT ![Command.id] =
                            [status |-> "rejected", agg |-> Command.agg, seq |-> mem.snap]]
    <3>1. Command \in Commands /\ cur \in DOMAIN dispatches
      BY <2>1, CommandInType, Handled DEF IInv, TInv
    <3>2. Command \in Log!Range(dispatches)
      BY <3>1 DEF Log!Range, Command
    <3>3. receipts[Command.id] = Log!Undecided
      BY <2>1 DEF IInv, Undecided, Log!Undecided, NoReceipt
    <3>4. mem.snap \in 0 .. Len(log)
      BY LogLength DEF RInv, Behind, IInv, TInv, TypeOK, MemoryType
    <3>5. Log!Reject(Command, mem.snap)
      BY <2>1, <2>3, <3>2, <3>3 DEF Log!Reject
    <3>. QED BY <3>1, <3>4, <3>5 DEF Log!Next
  <2>. QED BY <2>1, <2>2, <2>3
<1>4. CASE Answer
  <2>1. /\ pc = "answer" /\ replies' = [replies EXCEPT ![cur] = reply]
        /\ UNCHANGED <<log, receipts, dispatches>>
    BY <1>4 DEF Answer
  <2>2. cur \in DOMAIN dispatches /\ cur # 0
    BY <2>1, Handled
  <2>3. replies[cur] = Log!Unanswered
    BY <2>2 DEF RInv, Waits, NoReply, Log!Unanswered
  <2>4. reply \in Log!Answers /\ Log!Truthful(dispatches[cur], reply)
    BY <2>1, AnswerAllowed DEF Command
  <2>5. Log!Tell(cur, reply)
    BY <2>1, <2>3, <2>4 DEF Log!Tell
  <2>. QED BY <2>2, <2>4, <2>5 DEF Log!Next
<1>5. CASE UNCHANGED <<log, receipts, dispatches, replies>>
  BY <1>5 DEF Log!vars
<1>. QED BY <1>1, <1>2, <1>3, <1>4, <1>5, OnlyCommits, OnlyOutcomes, OnlyWaits DEF Take, Crash

\* The engine, with its queue, read model, faults, crashes and restarts, implements the
\* log it promises: for every interleaving there is one of atomic decisions that a
\* client cannot tell apart.
THEOREM EngineImplementsLog == Spec => ImplementsCommandLog
<1>1. Init => Log!Init
  BY DEF Init, Log!Init, Log!Undecided, NoReceipt
<1>2. IInv /\ RInv /\ [Next]_vars => [Log!Next]_(Log!vars)
  BY Simulates
<1>. QED BY <1>1, <1>2, StrongInvariance, PTL DEF Spec, ImplementsCommandLog, Log!Spec

----------------------------------------------------------------------------
(* Stretches of the log.                                                    *)

LEMMA UptoIs ==
  ASSUME NEW n \in Nat
  PROVE  /\ Upto(n) \in Seq(Nat) /\ Len(Upto(n)) = n
         /\ \A i \in 1 .. n : Upto(n)[i] = i
<1>1. Upto(n) = [i \in 1 .. n |-> i] /\ [i \in 1 .. n |-> i] \in [1 .. n -> Nat]
  BY DEF Upto
<1>2. Upto(n) \in Seq(Nat)
  BY <1>1, SeqDef
<1>. QED BY <1>1, <1>2

LEMMA SpanIs ==
  ASSUME NEW a \in Nat, NEW b \in Nat, a <= b
  PROVE  /\ Span(a + 1, b) \in Seq(Nat) /\ Len(Span(a + 1, b)) = b - a
         /\ \A i \in 1 .. b - a : Span(a + 1, b)[i] = a + i
<1>1. Span(a + 1, b) \in Seq(Nat)
  BY SpanType
<1>2. CASE a < b
  <2>1. Span(a + 1, b) = [i \in 1 .. b - a |-> a + 1 + i - 1] /\ b - a \in Nat
    BY <1>2 DEF Span
  <2>. QED BY <1>1, <2>1
<1>3. CASE a = b
  <2>1. Span(a + 1, b) = [i \in 1 .. 0 |-> a + 1 + i - 1]
    BY <1>3 DEF Span
  <2>. QED BY <1>1, <1>3, <2>1
<1>. QED BY <1>2, <1>3

LEMMA UptoConcat ==
  ASSUME NEW a \in Nat, NEW b \in Nat, a <= b
  PROVE  Upto(a) \o Span(a + 1, b) = Upto(b)
<1>. DEFINE s == Upto(a)
            t == Span(a + 1, b)
            u == Upto(b)
<1>1. /\ s \in Seq(Nat) /\ Len(s) = a /\ \A i \in 1 .. a : s[i] = i
      /\ t \in Seq(Nat) /\ Len(t) = b - a /\ \A i \in 1 .. b - a : t[i] = a + i
      /\ u \in Seq(Nat) /\ Len(u) = b /\ \A i \in 1 .. b : u[i] = i
  BY UptoIs, SpanIs
<1>. HIDE DEF s, t, u
<1>2. /\ s \o t \in Seq(Nat) /\ Len(s \o t) = Len(s) + Len(t)
      /\ \A i \in 1 .. Len(s) + Len(t) : (s \o t)[i] = IF i <= Len(s) THEN s[i] ELSE t[i - Len(s)]
  <2>1. s \in Seq(Nat) /\ t \in Seq(Nat)
    BY <1>1
  <2>. QED BY <2>1, ConcatProperties, Zenon
<1>3. Len(s) + Len(t) = b
  BY <1>1
<1>4. ASSUME NEW i \in 1 .. b PROVE (s \o t)[i] = u[i]
  <2>1. CASE i <= a
    BY <1>1, <1>2, <1>3, <2>1
  <2>2. CASE ~ (i <= a)
    <3>1. i - a \in 1 .. b - a
      BY <2>2
    <3>2. (s \o t)[i] = t[i - a]
      BY <1>1, <1>2, <1>3, <2>2
    <3>. QED BY <1>1, <3>1, <3>2
  <2>. QED BY <2>1, <2>2
<1>5. s \o t = u
  BY <1>1, <1>2, <1>3, <1>4, SeqEqual
<1>. QED BY <1>5 DEF s, t, u

LEMMA SpanConcat ==
  ASSUME NEW a \in Nat, NEW b \in Nat, NEW c \in Nat, a <= b, b <= c
  PROVE  Span(a + 1, b) \o Span(b + 1, c) = Span(a + 1, c)
<1>. DEFINE s == Span(a + 1, b)
            t == Span(b + 1, c)
            u == Span(a + 1, c)
<1>1. /\ s \in Seq(Nat) /\ Len(s) = b - a /\ \A i \in 1 .. b - a : s[i] = a + i
      /\ t \in Seq(Nat) /\ Len(t) = c - b /\ \A i \in 1 .. c - b : t[i] = b + i
      /\ u \in Seq(Nat) /\ Len(u) = c - a /\ \A i \in 1 .. c - a : u[i] = a + i
  <2>1. a <= c
    OBVIOUS
  <2>2. s \in Seq(Nat) /\ Len(s) = b - a /\ \A i \in 1 .. b - a : s[i] = a + i
    BY SpanIs
  <2>3. t \in Seq(Nat) /\ Len(t) = c - b /\ \A i \in 1 .. c - b : t[i] = b + i
    BY SpanIs
  <2>4. u \in Seq(Nat) /\ Len(u) = c - a /\ \A i \in 1 .. c - a : u[i] = a + i
    BY <2>1, SpanIs
  <2>. QED BY <2>2, <2>3, <2>4
<1>. HIDE DEF s, t, u
<1>2. /\ s \o t \in Seq(Nat) /\ Len(s \o t) = Len(s) + Len(t)
      /\ \A i \in 1 .. Len(s) + Len(t) : (s \o t)[i] = IF i <= Len(s) THEN s[i] ELSE t[i - Len(s)]
  <2>1. s \in Seq(Nat) /\ t \in Seq(Nat)
    BY <1>1
  <2>. QED BY <2>1, ConcatProperties, Zenon
<1>3. Len(s) + Len(t) = c - a
  BY <1>1
<1>4. ASSUME NEW i \in 1 .. c - a PROVE (s \o t)[i] = u[i]
  <2>1. CASE i <= b - a
    BY <1>1, <1>2, <1>3, <2>1
  <2>2. CASE ~ (i <= b - a)
    <3>1. i - (b - a) \in 1 .. c - b
      BY <2>2
    <3>2. (s \o t)[i] = t[i - (b - a)]
      BY <1>1, <1>2, <1>3, <2>2
    <3>. QED BY <1>1, <2>2, <3>1, <3>2
  <2>. QED BY <2>1, <2>2
<1>5. s \o t = u
  BY <1>1, <1>2, <1>3, <1>4, SeqEqual
<1>. QED BY <1>5 DEF s, t, u

LEMMA UptoAppend ==
  ASSUME NEW n \in Nat
  PROVE  Append(Upto(n), n + 1) = Upto(n + 1)
<1>1. Upto(n) \in Seq(Nat) /\ Upto(n + 1) \in Seq(Nat) /\ n + 1 \in Nat
  BY UptoIs
<1>2. /\ Append(Upto(n), n + 1) \in Seq(Nat) /\ Len(Append(Upto(n), n + 1)) = n + 1
      /\ \A i \in 1 .. n : Append(Upto(n), n + 1)[i] = i
      /\ Append(Upto(n), n + 1)[n + 1] = n + 1
  BY <1>1, UptoIs, AppendProperties
<1>3. \A i \in 1 .. n + 1 : Append(Upto(n), n + 1)[i] = Upto(n + 1)[i]
  BY <1>1, <1>2, UptoIs
<1>. QED BY <1>1, <1>2, <1>3, UptoIs, SeqEqual

LEMMA UptoLast ==
  ASSUME NEW n \in Nat
  PROVE  IF n = 0 THEN Upto(n) = <<>> ELSE Upto(n) # <<>> /\ Last(Upto(n)) = n
<1>1. Upto(n) \in Seq(Nat) /\ Len(Upto(n)) = n /\ \A i \in 1 .. n : Upto(n)[i] = i
  BY UptoIs
<1>. QED BY <1>1 DEF Last

\* What is published next leaves published and outbox together as they were.
LEMMA MoveHead ==
  ASSUME NEW s \in Seq(Nat), NEW t \in Seq(Nat), t # <<>>
  PROVE  Append(s, Head(t)) \o Tail(t) = s \o t
<1>1. Head(t) \in Nat /\ Tail(t) \in Seq(Nat) /\ <<Head(t)>> \in Seq(Nat)
  BY HeadTailProperties
<1>2. Append(s, Head(t)) = s \o <<Head(t)>>
  BY <1>1, AppendIsConcat
<1>3. (s \o <<Head(t)>>) \o Tail(t) = s \o (<<Head(t)>> \o Tail(t))
  BY <1>1, ConcatAssociative
<1>4. <<Head(t)>> \o Tail(t) = t
  <2>1. /\ Len(t) \in Nat /\ Len(t) > 0 /\ Len(Tail(t)) = Len(t) - 1
        /\ \A i \in 1 .. Len(t) - 1 : Tail(t)[i] = t[i + 1]
    BY HeadTailProperties
  <2>2. /\ <<Head(t)>> \o Tail(t) \in Seq(Nat)
        /\ Len(<<Head(t)>> \o Tail(t)) = 1 + Len(Tail(t))
        /\ \A i \in 1 .. 1 + Len(Tail(t)) : (<<Head(t)>> \o Tail(t))[i] =
             IF i <= 1 THEN <<Head(t)>>[i] ELSE Tail(t)[i - 1]
    <3>1. Len(<<Head(t)>>) = 1
      OBVIOUS
    <3>. QED BY <1>1, <3>1, ConcatProperties
  <2>3. ASSUME NEW i \in 1 .. Len(t) PROVE (<<Head(t)>> \o Tail(t))[i] = t[i]
    <3>1. CASE i = 1
      BY <2>1, <2>2, <3>1
    <3>2. CASE i # 1
      <4>1. i - 1 \in 1 .. Len(t) - 1
        BY <3>2, <2>1
      <4>. QED BY <2>1, <2>2, <3>2, <4>1
    <3>. QED BY <3>1, <3>2
  <2>. QED BY <2>1, <2>2, <2>3, SeqEqual
<1>. QED BY <1>2, <1>3, <1>4
----------------------------------------------------------------------------
(* The rows of the projectors.                                              *)

\* One read of the event store is long enough: for the events of a command, and for
\* what a projector has to catch up on, which is nothing if every version has them all.
ReadsSuffice ==
  /\ \A c \in Commands : \A p \in Plans[c] : Len(p) <= ReplayLimit
  /\ Initially = Projectors \/ MaxLog <= ReplayLimit

\* A projector has applied a prefix of the log; the projectors every version has are
\* never behind, those the bootstrap has passed are not, and the one it is at will not
\* be when its budget is spent.
AtEnd(p) == Len(applied[p]) = Len(log)
RowsPrefix == \A p \in Projectors : applied[p] = Upto(Len(applied[p])) /\ Len(applied[p]) <= Len(log)
Kept == Initially \subseteq installed /\ \A p \in Initially : AtEnd(p)
Booted ==
  phase = "boot" =>
    /\ \A i \in 1 .. Len(Order) : i < at /\ Order[i] \in installed => AtEnd(Order[i])
    /\ at <= Len(Order) /\ Order[at] \in installed
         => Len(log) - Len(applied[Order[at]]) <= budget
Running == phase = "up" => \A p \in installed : AtEnd(p)
PInv == RowsPrefix /\ Kept /\ Booted /\ Running

LEMMA OrderIs ==
  /\ Len(Order) \in Nat
  /\ \A i \in 1 .. Len(Order) : Order[i] \in Projectors
  /\ \A p \in Projectors : \E i \in 1 .. Len(Order) : p = Order[i]
<1>1. Order \in Seq(Projectors)
  BY ProjectorsAssumption
<1>2. Len(Order) \in Nat /\ DOMAIN Order = 1 .. Len(Order)
  BY <1>1
<1>3. \A i \in 1 .. Len(Order) : Order[i] \in Projectors
  BY <1>1, ElementOfSeq
<1>4. \A p \in Projectors : \E i \in DOMAIN Order : p = Order[i]
  BY DEF Projectors, Range
<1>. QED BY <1>2, <1>3, <1>4

LEMMA Lengths ==
  ASSUME IInv
  PROVE  /\ Len(log) \in Nat /\ \A p \in Projectors : Len(applied[p]) \in Nat
         /\ installed \subseteq Projectors /\ at \in Nat \ {0} /\ budget \in Nat
         /\ ReplayLimit \in Nat \ {0} /\ MaxLog \in Nat /\ Initially \subseteq Projectors
  BY LogLength, BoundsAssumption, ProjectorsAssumption DEF IInv, TInv, TypeOK, ProcessType

LEMMA CursorIs ==
  ASSUME IInv, RowsPrefix, NEW p \in Projectors
  PROVE  Cursor(p) = Len(applied[p])
<1>1. Len(applied[p]) \in Nat /\ applied[p] = Upto(Len(applied[p]))
  BY Lengths DEF RowsPrefix
<1>. QED BY <1>1, UptoLast DEF Cursor

LEMMA Lag ==
  ASSUME ReadsSuffice, IInv, Room, PInv, NEW p \in Projectors
  PROVE  Len(log) - Len(applied[p]) <= ReplayLimit
<1>1. CASE Initially = Projectors
  BY <1>1, Lengths DEF PInv, Kept, AtEnd
<1>2. CASE MaxLog <= ReplayLimit
  BY <1>2, Lengths DEF Room
<1>. QED BY <1>1, <1>2 DEF ReadsSuffice

LEMMA CommitRows ==
  ASSUME IInv, PInv, pc = "commit", Persist, UNCHANGED <<phase, installed, at, budget>>
  PROVE  PInv'
<1>. DEFINE new == Span(Len(log) + 1, Len(log) + Len(plan))
<1>1. /\ Len(log') = Len(log) + Len(plan) /\ Len(plan) \in Nat
      /\ Len(log) \in Nat /\ Len(log') \in Nat
  BY PersistLength
<1>2. phase = "up" /\ applied' = ApplyAll(applied, new)
  BY DEF IInv, TInv, TypeOK, QueueType, Persist
<1>3. ASSUME NEW p \in installed
      PROVE  applied'[p] = Upto(Len(log')) /\ Len(applied'[p]) = Len(log')
  <2>1. p \in Projectors /\ applied[p] = Upto(Len(log))
    BY <1>2, Lengths DEF PInv, RowsPrefix, Running, AtEnd
  <2>2. applied'[p] = applied[p] \o new
    BY <1>2, <1>3, <2>1 DEF ApplyAll
  <2>3. Len(log) <= Len(log')
    BY <1>1
  <2>4. Upto(Len(log)) \o Span(Len(log) + 1, Len(log')) = Upto(Len(log'))
    BY <1>1, <2>3, UptoConcat
  <2>5. applied'[p] = Upto(Len(log'))
    BY <1>1, <2>1, <2>2, <2>4
  <2>. QED BY <1>1, <2>5, UptoIs
<1>. HIDE DEF new
<1>4. ASSUME NEW p \in Projectors, p \notin installed PROVE applied'[p] = applied[p]
  BY <1>2, <1>4 DEF ApplyAll
<1>5. RowsPrefix'
  <2>. SUFFICES ASSUME NEW p \in Projectors
                PROVE  applied'[p] = Upto(Len(applied'[p])) /\ Len(applied'[p]) <= Len(log')
    BY DEF RowsPrefix
  <2>1. CASE p \in installed
    BY <1>1, <1>3, <2>1
  <2>2. CASE p \notin installed
    BY <1>1, <1>4, <2>2, Lengths DEF PInv, RowsPrefix
  <2>. QED BY <2>1, <2>2
<1>6. Kept'
  BY <1>3 DEF PInv, Kept, AtEnd
<1>7. Booted' /\ Running'
  BY <1>2, <1>3 DEF Booted, Running, AtEnd
<1>. QED BY <1>5, <1>6, <1>7 DEF PInv

LEMMA BootRows ==
  ASSUME ReadsSuffice, IInv, Room, PInv, BootstrapEvent
  PROVE  PInv'
<1>. DEFINE q == Order[at]
            k == Len(applied[q])
<1>1. /\ phase = "boot" /\ phase' = "boot" /\ at <= Len(Order) /\ q \in installed
      /\ budget > 0 /\ budget' = budget - 1 /\ UNCHANGED <<log, installed, at>>
      /\ Cursor(q) < Len(log)
      /\ applied' = [applied EXCEPT ![q] = Append(applied[q], Cursor(q) + 1)]
  BY DEF BootstrapEvent
<1>2. q \in Projectors /\ k \in Nat /\ Len(log) \in Nat /\ budget \in Nat /\ at \in Nat
  BY <1>1, Lengths
<1>3. Cursor(q) = k /\ applied[q] = Upto(k)
  BY <1>2, CursorIs DEF PInv, RowsPrefix
<1>. HIDE DEF k
<1>4. applied'[q] = Upto(k + 1) /\ Len(applied'[q]) = k + 1
  <2>1. applied'[q] = Append(Upto(k), k + 1)
    BY <1>1, <1>2, <1>3, LogLength
  <2>2. k + 1 \in Nat
    BY <1>2
  <2>. QED BY <1>2, <2>1, <2>2, UptoAppend, UptoIs
<1>5. \A p \in Projectors : p # q => applied'[p] = applied[p]
  BY <1>1, LogLength
<1>6. ASSUME NEW p \in Projectors, AtEnd(p) PROVE AtEnd(p)'
  <2>1. p # q
    BY <1>1, <1>2, <1>3, <1>6 DEF AtEnd, k
  <2>. QED BY <1>1, <1>5, <1>6, <2>1 DEF AtEnd
<1>. HIDE DEF q
<1>7. RowsPrefix'
  <2>. SUFFICES ASSUME NEW p \in Projectors
                PROVE  applied'[p] = Upto(Len(applied'[p])) /\ Len(applied'[p]) <= Len(log)
    BY <1>1 DEF RowsPrefix
  <2>1. CASE p = q
    BY <1>1, <1>2, <1>3, <1>4, <2>1
  <2>2. CASE p # q
    BY <1>5, <2>2 DEF PInv, RowsPrefix
  <2>. QED BY <2>1, <2>2
<1>8. Kept'
  BY <1>1, <1>6, Lengths DEF PInv, Kept
<1>9. Booted'
  <2>1. \A i \in 1 .. Len(Order) : i < at /\ Order[i] \in installed => AtEnd(Order[i])'
    BY <1>1, <1>6, OrderIs DEF PInv, Booted
  <2>2. Len(log) - k <= budget
    BY <1>1 DEF PInv, Booted, k, q
  <2>3. Len(log) - Len(applied'[q]) <= budget - 1
    BY <1>2, <1>4, <2>2
  <2>. QED BY <1>1, <2>1, <2>3 DEF Booted, q
<1>10. Running'
  BY <1>1 DEF Running
<1>. QED BY <1>7, <1>8, <1>9, <1>10 DEF PInv

\* The bootstrap moves to the next projector, or begins with the first.
LEMMA NextRows ==
  ASSUME ReadsSuffice, IInv, Room, PInv, StartProcess \/ BootstrapNext
  PROVE  PInv'
<1>1. /\ phase' = "boot" /\ budget' = ReplayLimit /\ UNCHANGED <<log, applied, installed>>
  BY DEF StartProcess, BootstrapNext
<1>2. RowsPrefix' /\ Kept' /\ Running'
  BY <1>1 DEF PInv, RowsPrefix, Kept, AtEnd, Running
<1>3. at' \in Nat \ {0} /\ at \in Nat /\ Len(Order) \in Nat
  BY OrderIs, Lengths DEF StartProcess, BootstrapNext
<1>4. at' <= Len(Order) => Len(log) - Len(applied[Order[at']]) <= ReplayLimit
  <2>1. at' <= Len(Order) => Order[at'] \in Projectors
    BY <1>3, OrderIs
  <2>. QED BY <2>1, Lag
<1>5. ASSUME NEW i \in 1 .. Len(Order), i < at', Order[i] \in installed
      PROVE  AtEnd(Order[i])
  <2>1. CASE StartProcess
    BY <1>5, <2>1 DEF StartProcess
  <2>2. CASE BootstrapNext /\ i < at
    BY <1>5, <2>2 DEF BootstrapNext, PInv, Booted
  <2>3. CASE BootstrapNext /\ ~ (i < at)
    <3>1. i = at /\ (budget = 0 \/ Cursor(Order[i]) >= Len(log))
      BY <1>3, <1>5, <2>3 DEF BootstrapNext
    <3>2. Order[i] \in Projectors
      BY OrderIs
    <3>3. Len(applied[Order[i]]) <= Len(log) /\ Cursor(Order[i]) = Len(applied[Order[i]])
      BY <3>2, CursorIs DEF PInv, RowsPrefix
    <3>4. Len(log) - Len(applied[Order[i]]) <= budget
      BY <1>3, <1>5, <2>3, <3>1 DEF BootstrapNext, PInv, Booted
    <3>. QED BY <3>1, <3>2, <3>3, <3>4, Lengths DEF AtEnd
  <2>. QED BY <2>1, <2>2, <2>3
<1>6. Booted'
  BY <1>1, <1>4, <1>5 DEF Booted, AtEnd
<1>. QED BY <1>2, <1>6 DEF PInv

LEMMA LoadRows ==
  ASSUME IInv, PInv, LoadModel
  PROVE  PInv' /\ \A p \in installed : AtEnd(p)
<1>1. /\ phase = "boot" /\ at > Len(Order) /\ phase' = "up"
      /\ UNCHANGED <<log, applied, installed>>
  BY DEF LoadModel
<1>2. ASSUME NEW p \in installed PROVE AtEnd(p)
  <2>1. PICK i \in 1 .. Len(Order) : p = Order[i]
    BY OrderIs, Lengths
  <2>2. i < at
    BY <1>1, OrderIs, Lengths
  <2>. QED BY <1>1, <1>2, <2>1, <2>2 DEF PInv, Booted
<1>3. RowsPrefix' /\ Kept' /\ Booted' /\ Running'
  BY <1>1, <1>2 DEF PInv, RowsPrefix, Kept, Booted, Running, AtEnd
<1>. QED BY <1>2, <1>3 DEF PInv

LEMMA RowsStep ==
  ASSUME ReadsSuffice, IInv, Room, PInv, [Next]_vars
  PROVE  PInv'
<1>1. CASE Commits
  <2>1. pc = "commit" /\ Persist /\ UNCHANGED <<phase, installed, at, budget>>
    BY <1>1 DEF Commits, CommitSucceeds, CommitUnreported
  <2>. QED BY <2>1, CommitRows
<1>2. CASE Upgrade
  <2>1. phase' = "down" /\ installed' = Projectors /\ UNCHANGED <<log, applied>>
    BY <1>2 DEF Upgrade
  <2>. QED BY <2>1, Lengths DEF PInv, RowsPrefix, Kept, Booted, Running, AtEnd
<1>3. CASE Crash
  <2>1. phase' = "down" /\ UNCHANGED <<log, applied, installed>>
    BY <1>3 DEF Crash
  <2>. QED BY <2>1 DEF PInv, RowsPrefix, Kept, Booted, Running, AtEnd
<1>4. CASE UNCHANGED <<log, applied, phase, at, budget, installed>>
  BY <1>4 DEF PInv, RowsPrefix, Kept, Booted, Running, AtEnd
<1>5. \/ Commits \/ Upgrade \/ Crash \/ BootstrapEvent \/ StartProcess \/ BootstrapNext \/ LoadModel
      \/ UNCHANGED <<log, applied, phase, at, budget, installed>>
  BY DEF Next, Boot, Dispatch, Worker, Take, Lookup, LookupHit, LookupMiss, LookupFails, Decide,
         DecideEvents, DecideRejects, Commit, CommitRollsBack, Reconcile, ReconcileFails, Publish,
         PublishNext, PublishDone, RecordRejection, Answer, Commits, vars
<1>. QED BY <1>1, <1>2, <1>3, <1>4, <1>5, BootRows, NextRows, LoadRows
----------------------------------------------------------------------------
(* The model and the feed.                                                  *)

\* Unless a lost commit could not be reconciled: the model holds the log, and what was
\* published with what is about to be is the log since the process came up.  After a
\* failure both are as they were when the dispatch was taken, and one read is enough to
\* catch up.
ModelIs(n) == mem.snap = n /\ \A p \in installed : mem.fold[p] = Upto(n)
FeedIs(n) == since <= n /\ published \o outbox = Span(since + 1, n)
Missing == start <= Len(log) /\ Len(log) <= start + ReplayLimit
Modelled ==
  phase = "up" /\ ~diverged =>
    /\ pc # "failed" => ModelIs(Len(log)) /\ FeedIs(Len(log))
    /\ pc = "failed" => ModelIs(start) /\ FeedIs(start) /\ Missing
    /\ pc \in {"lookup", "decide", "commit"} => start = mem.snap
Empty == (pc # "publish" => outbox = <<>>) /\ (phase # "up" => published = <<>>)
MInv == Modelled /\ Empty

LEMMA Memory ==
  ASSUME IInv
  PROVE  /\ mem.snap \in Nat /\ mem.fold \in [Projectors -> Seq(Nat)]
         /\ mem \in [fold : [Projectors -> Seq(Nat)], snap : Nat]
         /\ published \in Seq(Nat) /\ outbox \in Seq(Nat) /\ since \in Nat /\ start \in Nat
  BY DEF IInv, TInv, TypeOK, MemoryType, WorkerType

\* A model is folded over a stretch that begins where it ends.
LEMMA FoldOn ==
  ASSUME IInv, NEW a \in Nat, NEW b \in Nat, a <= b, ModelIs(a),
         mem' = ProjectOnto(mem, Span(a + 1, b)), installed' = installed
  PROVE  ModelIs(b)'
<1>. DEFINE s == Span(a + 1, b)
<1>1. CASE a < b
  <2>1. s # <<>> /\ Last(s) = b
    BY <1>1, LastOfSpan
  <2>2. Upto(a) \o s = Upto(b)
    BY UptoConcat
  <2>. HIDE DEF s
  <2>3. mem' = [fold |-> ApplyAll(mem.fold, s), snap |-> b]
    BY <2>1 DEF ProjectOnto, s
  <2>4. ASSUME NEW p \in installed PROVE mem'.fold[p] = Upto(b)
    <3>1. p \in Projectors /\ mem.fold[p] = Upto(a)
      BY Lengths DEF ModelIs
    <3>2. ApplyAll(mem.fold, s)[p] = mem.fold[p] \o s
      BY <2>4, <3>1 DEF ApplyAll
    <3>3. mem'.fold = ApplyAll(mem.fold, s)
      BY <2>3
    <3>. QED BY <2>2, <3>1, <3>2, <3>3
  <2>. QED BY <2>3, <2>4 DEF ModelIs
<1>2. CASE a = b
  <2>1. s = <<>>
    BY <1>2, LastOfSpan
  <2>2. mem' = mem
    BY <2>1 DEF ProjectOnto
  <2>. QED BY <1>2, <2>2 DEF ModelIs
<1>. QED BY <1>1, <1>2

\* The feed goes on with the stretch that follows it.
LEMMA FeedOn ==
  ASSUME IInv, NEW a \in Nat, NEW b \in Nat, a <= b, FeedIs(a), outbox = <<>>,
         outbox' = Span(a + 1, b), UNCHANGED <<published, since>>
  PROVE  FeedIs(b)'
<1>1. published = Span(since + 1, a) /\ since <= a
  BY Memory, ConcatEmptySeq DEF FeedIs
<1>2. Span(since + 1, a) \o Span(a + 1, b) = Span(since + 1, b)
  BY <1>1, Memory, SpanConcat
<1>3. since <= b
  BY <1>1, Memory
<1>. QED BY <1>1, <1>2, <1>3 DEF FeedIs

\* The process is not up after the step.
LEMMA ModelDown ==
  ASSUME MInv, StartProcess \/ Upgrade \/ BootstrapEvent \/ BootstrapNext \/ Crash
  PROVE  MInv'
<1>1. CASE Crash
  BY <1>1 DEF Crash, MInv, Modelled, Empty
<1>2. CASE StartProcess \/ Upgrade \/ BootstrapEvent \/ BootstrapNext
  <2>1. phase # "up" /\ phase' # "up" /\ UNCHANGED <<pc, outbox, published>>
    BY <1>2 DEF StartProcess, Upgrade, BootstrapEvent, BootstrapNext
  <2>. QED BY <2>1 DEF MInv, Modelled, Empty
<1>. QED BY <1>1, <1>2

LEMMA ModelLoad ==
  ASSUME IInv, PInv, MInv, LoadModel
  PROVE  MInv'
<1>1. /\ phase = "boot" /\ phase' = "up" /\ mem' = [fold |-> applied, snap |-> SnapshotSequence]
      /\ since' = Len(log) /\ UNCHANGED <<log, installed, pc, outbox, published>>
  BY DEF LoadModel
<1>2. pc = "idle" /\ outbox = <<>> /\ published = <<>>
  BY <1>1 DEF MInv, Empty, IInv, TInv, TypeOK, QueueType
<1>3. \A p \in installed : p \in Projectors /\ AtEnd(p) /\ applied[p] = Upto(Len(log))
  BY LoadRows, Lengths DEF PInv, RowsPrefix, AtEnd
<1>4. SnapshotSequence = Len(log)
  <2>1. \A p \in Required \cap installed : Cursor(p) = Len(log)
    BY <1>3, CursorIs DEF PInv, AtEnd
  <2>2. Required \cap installed # {}
    BY DEF IInv, TInv, TypeOK, ProcessType
  <2>3. {Cursor(p) : p \in Required \cap installed} = {Len(log)}
    BY <2>1, <2>2
  <2>. QED BY <2>3, Lengths DEF SnapshotSequence
<1>5. ModelIs(Len(log))'
  BY <1>1, <1>3, <1>4 DEF ModelIs
<1>6. FeedIs(Len(log))'
  <2>1. Span(Len(log) + 1, Len(log)) = <<>>
    BY Lengths, LastOfSpan
  <2>2. <<>> \o <<>> = <<>>
    BY EmptySeq, ConcatEmptySeq
  <2>. QED BY <1>1, <1>2, <2>1, <2>2, Lengths DEF FeedIs
<1>. QED BY <1>1, <1>2, <1>5, <1>6 DEF MInv, Modelled, Empty

\* Steps that change neither log, model nor feed, and meet no failure.
LEMMA ModelSame ==
  ASSUME MInv, UNCHANGED <<log, installed, mem, published, outbox, since, phase, diverged>>,
         pc # "failed", pc' # "failed",
         pc' \in {"lookup", "decide", "commit"} =>
           start' = mem.snap \/ (pc \in {"lookup", "decide", "commit"} /\ start' = start),
         pc' # "publish" => outbox = <<>>
  PROVE  MInv'
<1>1. ~diverged /\ phase = "up" => ModelIs(Len(log))' /\ FeedIs(Len(log))'
  BY DEF MInv, Modelled, ModelIs, FeedIs
<1>2. ~diverged /\ phase = "up" /\ pc' \in {"lookup", "decide", "commit"} => start' = mem'.snap
  BY DEF MInv, Modelled
<1>. QED BY <1>1, <1>2 DEF MInv, Modelled, Empty

\* A failure: the log is longer than the model by at most the events of the command.
LEMMA ModelFails ==
  ASSUME IInv, MInv, pc \in {"lookup", "decide", "commit"}, pc' = "failed",
         UNCHANGED <<installed, mem, published, outbox, since, phase, diverged, start>>,
         Len(log) <= Len(log'), Len(log') <= Len(log) + ReplayLimit
  PROVE  MInv'
<1>1. phase = "up" /\ outbox = <<>>
  BY DEF MInv, Empty, IInv, TInv, TypeOK, QueueType
<1>2. ~diverged => start = Len(log) /\ ModelIs(start)' /\ FeedIs(start)' /\ Missing'
  BY <1>1 DEF MInv, Modelled, ModelIs, FeedIs, Missing
<1>. QED BY <1>1, <1>2 DEF MInv, Modelled, Empty

LEMMA ModelCommit ==
  ASSUME ReadsSuffice, IInv, MInv, Commits
  PROVE  MInv'
<1>1. pc = "commit" /\ Persist
  BY DEF Commits, CommitSucceeds, CommitUnreported
<1>2. /\ Len(log') = Len(log) + Len(plan) /\ Len(plan) \in Nat /\ Len(plan) > 0
      /\ Len(log) \in Nat /\ Len(log') \in Nat /\ Len(log) <= Len(log')
  BY <1>1, PersistLength
<1>3. Len(plan) <= ReplayLimit
  BY <1>1, CommandInType DEF ReadsSuffice, IInv, TInv
<1>4. phase = "up" /\ outbox = <<>>
  BY <1>1 DEF MInv, Empty, IInv, TInv, TypeOK, QueueType
<1>5. CASE CommitUnreported
  <2>1. Len(log') <= Len(log) + ReplayLimit
    BY <1>2, <1>3, Lengths
  <2>2. pc' = "failed" /\ UNCHANGED <<installed, mem, published, outbox, since, phase, diverged, start>>
    BY <1>5 DEF CommitUnreported, FailWith
  <2>. QED BY <1>1, <1>2, <2>1, <2>2, ModelFails
<1>6. CASE CommitSucceeds
  <2>1. /\ outbox' = Span(Len(log) + 1, Len(log')) /\ mem' = ProjectOnto(mem, outbox')
        /\ pc' = "publish" /\ UNCHANGED <<installed, published, since, phase, diverged>>
    BY <1>2, <1>6 DEF CommitSucceeds
  <2>2. ASSUME ~diverged PROVE ModelIs(Len(log))' /\ FeedIs(Len(log))'
    <3>1. ModelIs(Len(log)) /\ FeedIs(Len(log))
      BY <1>1, <1>4, <2>2 DEF MInv, Modelled
    <3>2. PICK n \in Nat : n = Len(log')
      BY <1>2
    <3>3. ModelIs(n)'
      BY <1>2, <2>1, <3>1, <3>2, FoldOn
    <3>4. FeedIs(n)'
      BY <1>2, <1>4, <2>1, <3>1, <3>2, FeedOn
    <3>. QED BY <3>2, <3>3, <3>4 DEF ModelIs, FeedIs
  <2>. QED BY <1>4, <2>1, <2>2 DEF MInv, Modelled, Empty
<1>. QED BY <1>5, <1>6 DEF Commits

LEMMA ModelReconcile ==
  ASSUME IInv, MInv, Reconcile
  PROVE  MInv'
<1>1. /\ pc = "failed" /\ pc' = "publish" /\ outbox' = ReadFromSequence(start)
      /\ mem' = ProjectOnto(mem, outbox')
      /\ UNCHANGED <<log, installed, published, since, phase, diverged>>
  BY DEF Reconcile
<1>2. phase = "up" /\ outbox = <<>>
  BY <1>1 DEF MInv, Empty, IInv, TInv, TypeOK, QueueType
<1>3. ASSUME ~diverged PROVE ModelIs(Len(log))' /\ FeedIs(Len(log))'
  <2>1. ModelIs(start) /\ FeedIs(start) /\ Missing
    BY <1>1, <1>2, <1>3 DEF MInv, Modelled
  <2>2. PICK a \in Nat : a = start
    BY Memory
  <2>3. PICK n \in Nat : n = Len(log)
    BY Lengths
  <2>4. a <= n /\ n <= a + ReplayLimit
    BY <2>1, <2>2, <2>3 DEF Missing
  <2>5. Lower(n, a + ReplayLimit) = n
    BY <2>4, Lengths DEF Lower
  <2>6. outbox' = Span(a + 1, n)
    BY <1>1, <2>2, <2>3, <2>5 DEF ReadFromSequence
  <2>7. ModelIs(n)'
    BY <1>1, <2>1, <2>2, <2>4, <2>6, FoldOn
  <2>8. FeedIs(n)'
    BY <1>1, <1>2, <2>1, <2>2, <2>4, <2>6, FeedOn
  <2>. QED BY <1>1, <2>3, <2>7, <2>8 DEF ModelIs, FeedIs
<1>. QED BY <1>1, <1>2, <1>3 DEF MInv, Modelled, Empty

LEMMA ModelUnreconciled ==
  ASSUME IInv, MInv, ReconcileFails
  PROVE  MInv'
<1>1. /\ pc = "failed" /\ pc' = "publish" /\ diverged' = (diverged \/ mem.snap # Len(log))
      /\ UNCHANGED <<log, installed, mem, outbox, published, since, phase, start>>
  BY DEF ReconcileFails
<1>2. phase = "up" /\ outbox = <<>>
  BY <1>1 DEF MInv, Empty, IInv, TInv, TypeOK, QueueType
<1>3. ASSUME ~diverged' PROVE ModelIs(Len(log))' /\ FeedIs(Len(log))'
  <2>1. ~diverged /\ mem.snap = Len(log)
    BY <1>1, <1>3
  <2>2. ModelIs(start) /\ FeedIs(start)
    BY <1>1, <1>2, <2>1 DEF MInv, Modelled
  <2>3. start = Len(log)
    BY <2>1, <2>2 DEF ModelIs
  <2>. QED BY <1>1, <2>2, <2>3 DEF ModelIs, FeedIs
<1>. QED BY <1>1, <1>2, <1>3 DEF MInv, Modelled, Empty

LEMMA ModelPublish ==
  ASSUME IInv, MInv, PublishNext
  PROVE  MInv'
<1>1. /\ pc = "publish" /\ pc' = "publish" /\ outbox # <<>>
      /\ published' = Append(published, Head(outbox)) /\ outbox' = Tail(outbox)
      /\ UNCHANGED <<log, installed, mem, since, phase, diverged>>
  BY DEF PublishNext
<1>2. published' \o outbox' = published \o outbox
  BY <1>1, Memory, MoveHead
<1>3. phase = "up"
  BY <1>1 DEF IInv, TInv, TypeOK, QueueType
<1>. QED BY <1>1, <1>2, <1>3 DEF MInv, Modelled, Empty, ModelIs, FeedIs

LEMMA ModelWorker ==
  ASSUME MInv, \/ Take \/ LookupHit \/ LookupMiss \/ DecideEvents \/ PublishDone
               \/ RecordRejection \/ Answer
  PROVE  MInv'
<1>1. /\ UNCHANGED <<log, installed, mem, published, outbox, since, phase, diverged>>
      /\ pc # "failed" /\ pc' # "failed" /\ pc' # "publish"
  BY DEF Take, LookupHit, AnswerWith, LookupMiss, DecideEvents, PublishDone, RecordRejection, Answer
<1>2. outbox = <<>>
  BY DEF Take, LookupHit, LookupMiss, DecideEvents, PublishDone, RecordRejection, Answer, MInv, Empty
<1>3. pc' \in {"lookup", "decide", "commit"} =>
        start' = mem.snap \/ (pc \in {"lookup", "decide", "commit"} /\ start' = start)
  <2>1. CASE Take
    BY <2>1 DEF Take
  <2>2. CASE LookupMiss \/ DecideEvents
    BY <2>2 DEF LookupMiss, DecideEvents
  <2>3. CASE LookupHit \/ PublishDone \/ RecordRejection \/ Answer
    <3>1. pc' \in {"answer", "record", "idle"}
      BY <2>3 DEF LookupHit, AnswerWith, PublishDone, RecordRejection, Answer
    <3>. QED BY <3>1
  <2>. QED BY <2>1, <2>2, <2>3
<1>. QED BY <1>1, <1>2, <1>3, ModelSame

LEMMA ModelStep ==
  ASSUME ReadsSuffice, IInv, PInv, MInv, [Next]_vars
  PROVE  MInv'
<1>1. CASE LookupFails \/ DecideRejects \/ CommitRollsBack
  <2>1. /\ pc \in {"lookup", "decide", "commit"} /\ pc' = "failed"
        /\ UNCHANGED <<log, installed, mem, published, outbox, since, phase, diverged, start>>
    BY <1>1 DEF LookupFails, DecideRejects, CommitRollsBack, FailWith
  <2>2. Len(log) <= Len(log') /\ Len(log') <= Len(log) + ReplayLimit
    BY <2>1, Lengths
  <2>. QED BY <2>1, <2>2, ModelFails
<1>2. CASE Dispatches \/ UNCHANGED vars
  <2>1. UNCHANGED <<log, installed, mem, published, outbox, since, phase, diverged, pc, start>>
    BY <1>2 DEF Dispatches, Dispatch, vars
  <2>. QED BY <2>1 DEF MInv, Modelled, Empty, ModelIs, FeedIs, Missing
<1>3. \/ LookupFails \/ DecideRejects \/ CommitRollsBack \/ Dispatches \/ UNCHANGED vars
      \/ StartProcess \/ Upgrade \/ BootstrapEvent \/ BootstrapNext \/ Crash \/ LoadModel
      \/ Commits \/ Reconcile \/ ReconcileFails \/ PublishNext
      \/ Take \/ LookupHit \/ LookupMiss \/ DecideEvents \/ PublishDone \/ RecordRejection \/ Answer
  BY DEF Next, Boot, Worker, Lookup, Decide, Commit, Publish, Commits, Dispatches
<1>. QED BY <1>1, <1>2, <1>3, ModelDown, ModelLoad, ModelCommit, ModelReconcile, ModelUnreconciled,
            ModelPublish, ModelWorker

LEMMA InitM == Init => PInv /\ MInv
<1>. SUFFICES ASSUME Init PROVE PInv /\ MInv
  OBVIOUS
<1>1. /\ log = <<>> /\ installed = Initially /\ phase = "down" /\ pc = "idle"
      /\ outbox = <<>> /\ published = <<>> /\ \A p \in Projectors : applied[p] = <<>>
  BY DEF Init
<1>2. Upto(0) = <<>> /\ Len(log) = 0 /\ \A p \in Projectors : Len(applied[p]) = 0
  BY <1>1, UptoLast, EmptySeq
<1>3. PInv
  BY <1>1, <1>2, ProjectorsAssumption DEF PInv, RowsPrefix, Kept, AtEnd, Booted, Running
<1>4. MInv
  BY <1>1 DEF MInv, Modelled, Empty
<1>. QED BY <1>3, <1>4

LEMMA ModelInvariance == ASSUME ReadsSuffice PROVE Spec => [](IInv /\ PInv /\ MInv)
<1>1. Init => PInv /\ MInv
  BY InitM
<1>2. IInv /\ RInv /\ PInv /\ MInv /\ [Next]_vars => (PInv /\ MInv)'
  BY RowsStep, ModelStep DEF RInv
<1>. QED BY <1>1, <1>2, StrongInvariance, PTL DEF Spec

----------------------------------------------------------------------------
(* What follows.                                                            *)

\* Every projector has applied the events up to its cursor, each once and in order.
THEOREM ProjectionsArePrefixes == ASSUME ReadsSuffice PROVE Spec => []ProjectorsNeverSkip
<1>1. PInv => ProjectorsNeverSkip
  BY DEF PInv, RowsPrefix, ProjectorsNeverSkip
<1>. QED BY <1>1, ModelInvariance, PTL

\* The decider never decides on a model that lacks an event, unless a lost commit could
\* not be reconciled.
THEOREM ModelIsTheLog == ASSUME ReadsSuffice PROVE Spec => []ModelIsLog
<1>1. MInv => ModelIsLog
  BY DEF MInv, Modelled, ModelIs, ModelIsLog
<1>. QED BY <1>1, ModelInvariance, PTL

\* Subscribers get every event of the boot once and in order, also those of a commit
\* that was reported as failed.
THEOREM FeedIsTheLog == ASSUME ReadsSuffice PROVE Spec => []FeedIsLog
<1>1. MInv => FeedIsLog
  BY DEF MInv, Modelled, FeedIs, FeedIsLog
<1>. QED BY <1>1, ModelInvariance, PTL
==============================================================================
