--------------------------- MODULE CommandEngine ---------------------------
(***************************************************************************)
(* The orchestration engine: one worker fiber that takes commands from an  *)
(* unbounded queue, decides each on an in-memory read model, and commits   *)
(* its events, their projections and a receipt in one SQL transaction.     *)
(*                                                                         *)
(* An event is known by its position in the log (its sequence number) and  *)
(* carries the id of its command and its aggregate.  A read model is known *)
(* by the sequence numbers folded into it, projector by projector: rows of *)
(* projector p in the database are applied[p], the slice of the in-memory  *)
(* model they are loaded into is mem.fold[p].                              *)
(***************************************************************************)
EXTENDS Naturals, Sequences, SequencesExt, FiniteSets

CONSTANTS
  Ids,            \* command ids
  Aggregates,     \* projects, threads, the MCP catalog
  Commands,       \* what clients may dispatch: [id, agg] (an id may be reused)
  Plans,          \* Plans[c]: the event lists the decider may answer c with
  Order,          \* the projectors, in the order the pipeline runs them
  Required,       \* the projectors a snapshot sequence is computed over
  Initially,      \* the projectors of the first installed version
  ReplayLimit,    \* events one readFromSequence returns by default (1000)
  MaxLog, MaxDispatches, MaxFaults, MaxCrashes     \* bounds of the model

Projectors == Range(Order)
CommandType == [id : Ids, agg : Aggregates]

ASSUME CommandsAssumption == Commands \subseteq CommandType
\* Every branch of the decider plans at least one event, and the last one is on
\* the aggregate the command names (a forced project.delete deletes the project's
\* threads first).
ASSUME PlansAssumption ==
  /\ Plans \in [Commands -> SUBSET Seq(Aggregates)]
  /\ \A c \in Commands : \A p \in Plans[c] : p # <<>> /\ Last(p) = c.agg
ASSUME ProjectorsAssumption ==
  /\ IsInjective(Order) /\ Order \in Seq(Projectors)
  /\ Required \subseteq Projectors /\ Initially \subseteq Projectors
  /\ Required \cap Initially # {}
ASSUME BoundsAssumption ==
  /\ ReplayLimit \in Nat \ {0}
  /\ MaxLog \in Nat /\ MaxDispatches \in Nat /\ MaxFaults \in Nat /\ MaxCrashes \in Nat

VARIABLES
  \* durable: the event log, the receipts, the rows of each projector; and the
  \* projectors the installed version of the program has
  log, receipts, applied, installed,
  \* the process: "down", "boot" (projection bootstrap), "up"; the projector the
  \* bootstrap is at and how many events it may still replay into it
  phase, at, budget,
  \* the in-memory command read model and the queue of dispatches
  mem, queue,
  \* the worker fiber: where it is, the dispatch it handles, the sequence its
  \* model had when it took it, the planned events, the answer it is about to give
  \* and the events it has still to publish
  pc, cur, start, plan, reply, outbox,
  \* what clients sent and were told; what subscribers of this boot received, and
  \* the log's length when the process came up
  dispatches, replies, published, since,
  \* a lost commit that was not reconciled; faults and crashes so far
  diverged, faults, crashes

durable == <<log, receipts, applied>>
process == <<phase, at, budget, installed>>
worker  == <<pc, cur, start, plan, reply, outbox>>
clients == <<dispatches, replies>>
feed    == <<published, since>>
budgets == <<faults, crashes>>
vars == <<durable, process, worker, clients, feed, budgets, mem, queue, diverged>>

NoReceipt == [status |-> "none"]
NoReply   == [kind |-> "none"]
Failed(k) == [kind |-> k]
Acked(s)  == [kind |-> "ok", seq |-> s]
EmptyModel == [fold |-> [p \in Projectors |-> <<>>], snap |-> 0]

Events(c, p) == [i \in DOMAIN p |-> [id |-> c.id, agg |-> p[i]]]
Upto(n) == [i \in 1..n |-> i]
\* The sequence numbers from a to b, in order.
Span(a, b) == [i \in 1..(IF b < a THEN 0 ELSE b - a + 1) |-> a + i - 1]
Lower(a, b) == IF a < b THEN a ELSE b

\* The stored cursor of a projector: the last event it applied, 0 without a row.
Cursor(p) == IF applied[p] = <<>> THEN 0 ELSE Last(applied[p])
\* computeSnapshotSequence: the least cursor of the required projectors.
SnapshotSequence ==
  LET cursors == {Cursor(p) : p \in Required \cap installed}
  IN CHOOSE s \in cursors : \A t \in cursors : s <= t
\* Variant: the read includes the event at its cursor.
ReadFromSequenceInclusive(after) == Span(after, Lower(Len(log), after + ReplayLimit))
\* readFromSequence(after) with its default limit.
ReadFromSequence(after) == Span(after + 1, Lower(Len(log), after + ReplayLimit))
\* Variant: only the last event of a command is projected.
ApplyLast(rows, s) ==
  [p \in Projectors |-> IF p \in installed /\ s # <<>> THEN Append(rows[p], Last(s)) ELSE rows[p]]
\* Every projector of this version applies the events numbered in s, in order.
ApplyAll(rows, s) == [p \in Projectors |-> IF p \in installed THEN rows[p] \o s ELSE rows[p]]
\* projectEventsOntoReadModel: the snapshot sequence becomes the last event's.
ProjectOnto(model, s) ==
  IF s = <<>> THEN model ELSE [fold |-> ApplyAll(model.fold, s), snap |-> Last(s)]

Command == dispatches[cur]
----------------------------------------------------------------------------
Init ==
  /\ log = <<>> /\ receipts = [id \in Ids |-> NoReceipt]
  /\ applied = [p \in Projectors |-> <<>>] /\ installed = Initially
  /\ phase = "down" /\ at = 1 /\ budget = ReplayLimit
  /\ mem = EmptyModel /\ queue = <<>>
  /\ pc = "idle" /\ cur = 0 /\ start = 0 /\ plan = <<>> /\ reply = NoReply /\ outbox = <<>>
  /\ dispatches = <<>> /\ replies = <<>> /\ published = <<>> /\ since = 0
  /\ diverged = FALSE /\ faults = 0 /\ crashes = 0
----------------------------------------------------------------------------
(* The process starts, replays into its projectors, loads the read model.   *)

\* A version with more projectors is installed while the program is down.
Upgrade ==
  /\ phase = "down" /\ installed # Projectors
  /\ installed' = Projectors
  /\ UNCHANGED <<durable, phase, at, budget, worker, clients, feed, budgets, mem, queue, diverged>>

StartProcess ==
  /\ phase = "down"
  /\ phase' = "boot" /\ at' = 1 /\ budget' = ReplayLimit
  /\ UNCHANGED <<durable, installed, worker, clients, feed, budgets, mem, queue, diverged>>

\* bootstrapProjector replays the next event after the projector's stored cursor.
BootstrapEvent ==
  /\ phase = "boot" /\ at <= Len(Order) /\ Order[at] \in installed
  /\ budget > 0 /\ Cursor(Order[at]) < Len(log)
  /\ applied' = [applied EXCEPT ![Order[at]] = Append(@, Cursor(Order[at]) + 1)]
  /\ budget' = budget - 1
  /\ UNCHANGED <<log, receipts, phase, at, installed, worker, clients, feed, budgets, mem, queue,
                 diverged>>

\* The replay stream of a projector ends, at the log's end or at the read limit.
BootstrapNext ==
  /\ phase = "boot" /\ at <= Len(Order)
  /\ Order[at] \in installed => budget = 0 \/ Cursor(Order[at]) >= Len(log)
  /\ at' = at + 1 /\ budget' = ReplayLimit
  /\ UNCHANGED <<durable, phase, installed, worker, clients, feed, budgets, mem, queue, diverged>>

\* getCommandReadModel: the model is what the projectors' rows hold.
LoadModel ==
  /\ phase = "boot" /\ at > Len(Order)
  /\ phase' = "up"
  /\ mem' = [fold |-> applied, snap |-> SnapshotSequence]
  /\ since' = Len(log)
  /\ UNCHANGED <<durable, at, budget, installed, worker, clients, published, budgets, queue,
                 diverged>>

\* Variant: the queue outlives the process.
CrashKeepsQueue ==
  /\ phase # "down" /\ crashes < MaxCrashes
  /\ crashes' = crashes + 1
  /\ phase' = "down" /\ mem' = EmptyModel
  /\ pc' = "idle" /\ cur' = 0 /\ start' = 0 /\ plan' = <<>> /\ reply' = NoReply /\ outbox' = <<>>
  /\ published' = <<>> /\ since' = 0 /\ diverged' = FALSE
  /\ UNCHANGED <<durable, at, budget, installed, clients, faults, queue>>

\* Memory is lost; an open transaction rolls back; whoever waits is not answered.
Crash ==
  /\ phase # "down" /\ crashes < MaxCrashes
  /\ crashes' = crashes + 1
  /\ phase' = "down" /\ mem' = EmptyModel /\ queue' = <<>>
  /\ pc' = "idle" /\ cur' = 0 /\ start' = 0 /\ plan' = <<>> /\ reply' = NoReply /\ outbox' = <<>>
  /\ published' = <<>> /\ since' = 0 /\ diverged' = FALSE
  /\ UNCHANGED <<durable, at, budget, installed, clients, faults>>
----------------------------------------------------------------------------
(* dispatch, and the worker handling one envelope (processEnvelope).        *)

Dispatch(c) ==
  /\ phase = "up" /\ Len(dispatches) < MaxDispatches
  /\ dispatches' = Append(dispatches, c)
  /\ replies' = Append(replies, NoReply)
  /\ queue' = Append(queue, Len(dispatches'))
  /\ UNCHANGED <<durable, process, worker, feed, budgets, mem, diverged>>

Take ==
  /\ phase = "up" /\ pc = "idle" /\ queue # <<>>
  /\ cur' = Head(queue) /\ queue' = Tail(queue)
  /\ start' = mem.snap
  /\ pc' = "lookup"
  /\ UNCHANGED <<durable, process, plan, reply, outbox, clients, feed, budgets, mem, diverged>>

AnswerWith(r) == pc' = "answer" /\ reply' = r
FailWith(r)   == pc' = "failed" /\ reply' = r

\* Variant: the receipt's aggregate is not compared with the command's.
LookupHitAnyAggregate ==
  /\ pc = "lookup" /\ receipts[Command.id] # NoReceipt
  /\ LET r == receipts[Command.id]
     IN AnswerWith(IF r.status = "accepted" THEN Acked(r.seq) ELSE Failed("rejectedBefore"))
  /\ UNCHANGED <<durable, process, cur, start, plan, outbox, clients, feed, budgets, mem, queue,
                 diverged>>

\* The receipt lookup: a known id is answered from its receipt, never decided again.
LookupHit ==
  /\ pc = "lookup" /\ receipts[Command.id] # NoReceipt
  /\ LET r == receipts[Command.id]
     IN AnswerWith(IF r.agg # Command.agg THEN Failed("conflict")
                   ELSE IF r.status = "accepted" THEN Acked(r.seq)
                   ELSE Failed("rejectedBefore"))
  /\ UNCHANGED <<durable, process, cur, start, plan, outbox, clients, feed, budgets, mem, queue,
                 diverged>>

\* Variant: an existing receipt does not stop the command.
LookupMissAlways ==
  /\ pc = "lookup"
  /\ pc' = "decide"
  /\ UNCHANGED <<durable, process, cur, start, plan, reply, outbox, clients, feed, budgets, mem,
                 queue, diverged>>

LookupMiss ==
  /\ pc = "lookup" /\ receipts[Command.id] = NoReceipt
  /\ pc' = "decide"
  /\ UNCHANGED <<durable, process, cur, start, plan, reply, outbox, clients, feed, budgets, mem,
                 queue, diverged>>

LookupFails ==
  /\ pc = "lookup" /\ faults < MaxFaults
  /\ faults' = faults + 1
  /\ FailWith(Failed("error"))
  /\ UNCHANGED <<durable, process, cur, start, plan, outbox, clients, feed, crashes, mem, queue,
                 diverged>>

\* decideOrchestrationCommand on the in-memory model.
DecideEvents ==
  /\ pc = "decide"
  /\ \E p \in Plans[Command] :
       /\ Len(log) + Len(p) <= MaxLog
       /\ plan' = p
  /\ pc' = "commit"
  /\ UNCHANGED <<durable, process, cur, start, reply, outbox, clients, feed, budgets, mem, queue,
                 diverged>>

\* An invariant error, or an id or secret-store failure reported as one.
DecideRejects ==
  /\ pc = "decide"
  /\ FailWith(Failed("invariant"))
  /\ UNCHANGED <<durable, process, cur, start, plan, outbox, clients, feed, budgets, mem, queue,
                 diverged>>

\* Variant: the receipt takes the aggregate of the command's first event.
PersistFirstAggregate ==
  LET new == Span(Len(log) + 1, Len(log) + Len(plan))
  IN /\ log' = log \o Events(Command, plan)
     /\ applied' = ApplyAll(applied, new)
     /\ receipts' = [receipts EXCEPT ![Command.id] =
                       [status |-> "accepted", agg |-> Head(plan), seq |-> Len(log) + Len(plan)]]

\* What the transaction writes: the events, every projector's rows and cursor, the
\* accepted receipt on the last event's aggregate.
Persist ==
  LET new == Span(Len(log) + 1, Len(log) + Len(plan))
  IN /\ log' = log \o Events(Command, plan)
     /\ applied' = ApplyAll(applied, new)
     /\ receipts' = [receipts EXCEPT ![Command.id] =
                       [status |-> "accepted", agg |-> Last(plan), seq |-> Len(log) + Len(plan)]]

\* The transaction commits; the model it built in passing becomes the model.
CommitSucceeds ==
  /\ pc = "commit"
  /\ Persist
  /\ outbox' = Span(Len(log) + 1, Len(log) + Len(plan))
  /\ mem' = ProjectOnto(mem, outbox')
  /\ pc' = "publish" /\ reply' = Acked(Len(log) + Len(plan)) /\ plan' = <<>>
  /\ UNCHANGED <<process, cur, start, clients, feed, budgets, queue, diverged>>

\* A statement or the commit fails and everything in the transaction rolls back.
CommitRollsBack ==
  /\ pc = "commit" /\ faults < MaxFaults
  /\ faults' = faults + 1
  /\ FailWith(Failed("error")) /\ plan' = <<>>
  /\ UNCHANGED <<durable, process, cur, start, outbox, clients, feed, crashes, mem, queue, diverged>>

\* Variant: events and receipt are not written in one transaction.
CommitEventsOnly ==
  /\ pc = "commit" /\ faults < MaxFaults
  /\ faults' = faults + 1
  /\ log' = log \o Events(Command, plan)
  /\ applied' = ApplyAll(applied, Span(Len(log) + 1, Len(log) + Len(plan)))
  /\ FailWith(Failed("error")) /\ plan' = <<>>
  /\ UNCHANGED <<receipts, process, cur, start, outbox, clients, feed, crashes, mem, queue, diverged>>

\* The writes are durable but an error is reported to the engine.
CommitUnreported ==
  /\ pc = "commit" /\ faults < MaxFaults
  /\ faults' = faults + 1
  /\ Persist
  /\ FailWith(Failed("error")) /\ plan' = <<>>
  /\ UNCHANGED <<process, cur, start, outbox, clients, feed, crashes, mem, queue, diverged>>

\* Variant: the persisted events are published but not folded in.
ReconcilePublishesOnly ==
  /\ pc = "failed"
  /\ outbox' = ReadFromSequence(start)
  /\ pc' = "publish"
  /\ UNCHANGED <<durable, process, cur, start, plan, reply, clients, feed, budgets, mem, queue,
                 diverged>>

\* reconcileReadModelAfterDispatchFailure: fold in and publish what was persisted
\* after the model this dispatch started from.
Reconcile ==
  /\ pc = "failed"
  /\ outbox' = ReadFromSequence(start)
  /\ mem' = ProjectOnto(mem, outbox')
  /\ pc' = "publish"
  /\ UNCHANGED <<durable, process, cur, start, plan, reply, clients, feed, budgets, queue, diverged>>

\* The read fails: only a warning is logged.
ReconcileFails ==
  /\ pc = "failed" /\ faults < MaxFaults
  /\ faults' = faults + 1
  /\ diverged' = (diverged \/ mem.snap # Len(log))
  /\ pc' = "publish"
  /\ UNCHANGED <<durable, process, cur, start, plan, reply, outbox, clients, feed, crashes, mem,
                 queue>>

PublishNext ==
  /\ pc = "publish" /\ outbox # <<>>
  /\ published' = Append(published, Head(outbox)) /\ outbox' = Tail(outbox)
  /\ UNCHANGED <<durable, process, pc, cur, start, plan, reply, clients, since, budgets, mem, queue,
                 diverged>>

\* Variant: every failure is recorded as a rejection.
PublishDoneRecordsErrors ==
  /\ pc = "publish" /\ outbox = <<>>
  /\ pc' = IF reply.kind \in {"invariant", "error"} THEN "record" ELSE "answer"
  /\ UNCHANGED <<durable, process, cur, start, plan, reply, outbox, clients, feed, budgets, mem,
                 queue, diverged>>

PublishDone ==
  /\ pc = "publish" /\ outbox = <<>>
  /\ pc' = IF reply.kind = "invariant" THEN "record" ELSE "answer"
  /\ UNCHANGED <<durable, process, cur, start, plan, reply, outbox, clients, feed, budgets, mem,
                 queue, diverged>>

\* Variant: a failed upsert of the rejection ends the worker.
RecordRejectionOrDie ==
  /\ pc = "record"
  /\ \/ /\ receipts' = [receipts EXCEPT ![Command.id] =
                          [status |-> "rejected", agg |-> Command.agg, seq |-> mem.snap]]
        /\ pc' = "answer" /\ UNCHANGED faults
     \/ /\ faults < MaxFaults /\ faults' = faults + 1
        /\ pc' = "ended" /\ UNCHANGED receipts
  /\ UNCHANGED <<log, applied, process, cur, start, plan, reply, outbox, clients, feed, crashes, mem,
                 queue, diverged>>

\* The rejected receipt is upserted; a failure to do so is ignored.
RecordRejection ==
  /\ pc = "record"
  /\ \/ /\ receipts' = [receipts EXCEPT ![Command.id] =
                          [status |-> "rejected", agg |-> Command.agg, seq |-> mem.snap]]
        /\ UNCHANGED faults
     \/ /\ faults < MaxFaults /\ faults' = faults + 1
        /\ UNCHANGED receipts
  /\ pc' = "answer"
  /\ UNCHANGED <<log, applied, process, cur, start, plan, reply, outbox, clients, feed, crashes, mem,
                 queue, diverged>>

\* The deferred the caller waits on is completed.
Answer ==
  /\ pc = "answer"
  /\ replies' = [replies EXCEPT ![cur] = reply]
  /\ pc' = "idle" /\ cur' = 0 /\ start' = 0 /\ reply' = NoReply
  /\ UNCHANGED <<durable, process, plan, outbox, dispatches, feed, budgets, mem, queue, diverged>>
----------------------------------------------------------------------------
Boot == BootstrapEvent \/ BootstrapNext \/ LoadModel
Lookup == LookupHit \/ LookupMiss \/ LookupFails
Decide == DecideEvents \/ DecideRejects
Commit == CommitSucceeds \/ CommitRollsBack \/ CommitUnreported
Publish == PublishNext \/ PublishDone
Worker == Take \/ Lookup \/ Decide \/ Commit \/ Reconcile \/ ReconcileFails \/ Publish
          \/ RecordRejection \/ Answer
Next ==
  \/ Upgrade \/ StartProcess \/ Boot \/ Crash
  \/ \E c \in Commands : Dispatch(c)
  \/ Worker

Spec == Init /\ [][Next]_vars
\* The worker fiber and the boot sequence run until they block; nothing obliges a
\* client to dispatch, a fault to happen or the program to be started.
FairSpec == Spec /\ WF_vars(Worker) /\ WF_vars(Boot)
----------------------------------------------------------------------------
EventType == [id : Ids, agg : Aggregates]
ReceiptType ==
  {NoReceipt} \cup [status : {"accepted", "rejected"}, agg : Aggregates, seq : Nat]
ReplyType ==
  [kind : {"none", "conflict", "rejectedBefore", "invariant", "error"}]
    \cup [kind : {"ok"}, seq : Nat]

DurableType ==
  log \in Seq(EventType) /\ receipts \in [Ids -> ReceiptType] /\ applied \in [Projectors -> Seq(Nat)]
ProcessType ==
  /\ installed \subseteq Projectors /\ Required \cap installed # {}
  /\ phase \in {"down", "boot", "up"} /\ at \in Nat \ {0} /\ budget \in Nat
  /\ diverged \in BOOLEAN /\ faults \in 0..MaxFaults /\ crashes \in 0..MaxCrashes
MemoryType ==
  /\ mem \in [fold : [Projectors -> Seq(Nat)], snap : Nat]
  /\ published \in Seq(Nat) /\ since \in Nat
ClientsType ==
  dispatches \in Seq(Commands) /\ replies \in Seq(ReplyType) /\ Len(replies) = Len(dispatches)
\* The worker is idle exactly when it handles no dispatch, and only a process that
\* is up has a queue or a dispatch to handle.
QueueType ==
  /\ queue \in Seq(1..Len(dispatches)) /\ cur \in 0..Len(dispatches)
  /\ pc \in {"idle", "lookup", "decide", "commit", "failed", "publish", "record", "answer"}
  /\ pc = "idle" <=> cur = 0
  /\ phase # "up" => pc = "idle" /\ queue = <<>>
WorkerType ==
  start \in Nat /\ plan \in Seq(Aggregates) /\ reply \in ReplyType /\ outbox \in Seq(Nat)

\* The type invariant: what each variable holds, and how the worker's place, the
\* dispatch it handles and the phase of the process go together.
TypeOK ==
  DurableType /\ ProcessType /\ MemoryType /\ ClientsType /\ QueueType /\ WorkerType

\* The events of a command are one contiguous block of the log: a retry, a rollback,
\* a lost commit or a restart never leaves part of a command or a second copy.
OneBlockPerCommand ==
  \A i, j \in DOMAIN log :
    i < j /\ log[i].id = log[j].id =>
      /\ \A k \in i..j : log[k].id = log[i].id
      /\ receipts[log[i].id].status = "accepted" /\ receipts[log[i].id].seq >= j

\* An accepted receipt names the last event of its own command, and the log holds no
\* event whose command has no accepted receipt.
ReceiptsMatchLog ==
  /\ \A id \in Ids : receipts[id].status = "accepted" =>
       LET s == receipts[id].seq
       IN /\ s \in DOMAIN log /\ log[s].id = id /\ log[s].agg = receipts[id].agg
          /\ \A k \in DOMAIN log : log[k].id = id => k <= s
  /\ \A k \in DOMAIN log : receipts[log[k].id].status = "accepted"

\* A caller told "ok" with sequence s asked for the very command whose last event is
\* s, on the aggregate it named.
AckedIsDurable ==
  \A n \in DOMAIN replies : replies[n].kind = "ok" =>
    /\ replies[n].seq \in DOMAIN log
    /\ log[replies[n].seq] = [id |-> dispatches[n].id, agg |-> dispatches[n].agg]

\* A retry of the command a client sent before is never refused as an id conflict:
\* a conflict means some earlier dispatch used the id for another aggregate.
ConflictIsReuse ==
  \A n \in DOMAIN replies : replies[n].kind = "conflict" =>
    \E m \in DOMAIN dispatches :
      dispatches[m].id = dispatches[n].id /\ dispatches[m].agg # dispatches[n].agg

\* A receipt once written never changes: what a command came to is decided once,
\* although the repository's upsert would overwrite it.
ReceiptsFinal ==
  [][\A id \in Ids : receipts[id] # NoReceipt => receipts'[id] = receipts[id]]_vars

\* Whenever the worker takes, decides or commits a command, its model is the fold of
\* exactly the whole log, unless a lost commit could not be reconciled.
ModelIsLog ==
  phase = "up" /\ pc \in {"idle", "lookup", "decide", "commit"} /\ ~diverged =>
    /\ mem.snap = Len(log)
    /\ \A p \in installed : mem.fold[p] = Upto(Len(log))

\* Subscribers of a boot get every event committed in it, once, in order: what was
\* published and what is about to be make up the log since the process came up.
FeedIsLog ==
  phase = "up" /\ ~diverged /\ pc # "failed" =>
    published \o outbox = Span(since + 1, Len(log))

\* A projector has applied the events from the first to its cursor, each once.
ProjectorsNeverSkip ==
  \A p \in Projectors : applied[p] = Upto(Len(applied[p]))

\* The engine implements the abstract log: what a client sees of log, receipts and
\* answers is what CommandLog allows.
Log == INSTANCE CommandLog WITH outcome <- receipts, answers <- replies
ImplementsCommandLog == Log!Spec

\* Every dispatch is answered, unless the process goes down first.
Waiting(n) == n = cur \/ \E i \in DOMAIN queue : queue[i] = n
EveryDispatchAnswered ==
  \A n \in 1..MaxDispatches : Waiting(n) ~> ~Waiting(n)
============================================================================
