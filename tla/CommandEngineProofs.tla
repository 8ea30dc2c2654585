------------------------ MODULE CommandEngineProofs ------------------------
(***************************************************************************)
(* Proofs about CommandEngine, for every set of ids, aggregates, commands, *)
(* plans and projectors and every value of the bounds: its types, and that *)
(* it decides each command id once and tells a client nothing its log does *)
(* not hold.                                                               *)
(***************************************************************************)
EXTENDS CommandEngine, SequenceTheorems, WellFoundedInduction, TLAPS

----------------------------------------------------------------------------
(* Lemmas about the operators.                                              *)

\* Span numbers a stretch of the log: its elements are naturals.
LEMMA SpanType ==
  ASSUME NEW a \in Nat, NEW b \in Nat
  PROVE  Span(a, b) \in Seq(Nat)
<1> DEFINE n == IF b < a THEN 0 ELSE b - a + 1
<1>1. n \in Nat
  OBVIOUS
<1>2. \A i \in 1..n : a + i - 1 \in Nat
  BY <1>1
<1>3. [i \in 1..n |-> a + i - 1] \in [1..n -> Nat]
  BY <1>2
<1> QED
  BY <1>1, <1>3 DEF Span

\* A non-empty set of naturals has a least element.
LEMMA LeastNatural ==
  ASSUME NEW S \in SUBSET Nat, S # {}
  PROVE  \E s \in S : \A t \in S : s <= t
<1> DEFINE R == OpToRel(<, Nat)
<1>1. \A x, y \in Nat : <<x, y>> \in R <=> x < y
  BY Zenon DEF OpToRel
<1> HIDE DEF R
<1>2. PICK s \in S : \A t \in S : ~ (<<t, s>> \in R)
  BY NatLessThanWellFounded, WFMin, Zenon DEF R
<1>3. \A t \in S : ~ (t < s)
  BY <1>1, <1>2, Zenon
<1>4. \A t \in S : s <= t
  BY <1>3
<1> QED
  BY <1>4

\* The cursor of a projector is a natural.
LEMMA CursorType ==
  ASSUME TypeOK, NEW p \in Projectors
  PROVE  Cursor(p) \in Nat
<1>1. applied[p] \in Seq(Nat)
  BY DEF TypeOK, DurableType
<1>2. applied[p] # <<>> => Last(applied[p]) \in Nat
  BY <1>1 DEF Last
<1> QED
  BY <1>2 DEF Cursor

\* The snapshot sequence is a natural: some required projector is installed.
LEMMA SnapshotType ==
  ASSUME TypeOK
  PROVE  SnapshotSequence \in Nat
<1> DEFINE cursors == {Cursor(p) : p \in Required \cap installed}
<1>2. cursors \in SUBSET Nat /\ cursors # {}
  BY CursorType DEF TypeOK, ProcessType
<1>3. \E s \in cursors : \A t \in cursors : s <= t
  BY <1>2, LeastNatural
<1>4. SnapshotSequence \in cursors
  BY <1>3 DEF SnapshotSequence
<1> QED
  BY <1>2, <1>4

\* The command being handled is one a client sent.
LEMMA CommandInType ==
  ASSUME TypeOK, pc # "idle"
  PROVE  Command \in Commands /\ Command.id \in Ids /\ Command.agg \in Aggregates
<1>1. cur \in 1..Len(dispatches) /\ dispatches \in Seq(Commands)
  BY DEF TypeOK, ClientsType, QueueType
<1>2. Command \in Commands
  BY <1>1 DEF Command
<1> QED
  BY <1>2, CommandsAssumption DEF CommandType

\* What a read of the event store returns are naturals.
LEMMA ReadType ==
  ASSUME TypeOK, NEW n \in Nat
  PROVE  ReadFromSequence(n) \in Seq(Nat)
<1>1. Len(log) \in Nat /\ ReplayLimit \in Nat
  BY BoundsAssumption DEF TypeOK, DurableType
<1>2. n + 1 \in Nat /\ Lower(Len(log), n + ReplayLimit) \in Nat
  BY <1>1 DEF Lower
<1> QED
  BY <1>2, SpanType DEF ReadFromSequence

\* Folding numbered events keeps the type of rows and of the model.
LEMMA FoldType ==
  ASSUME NEW s \in Seq(Nat)
  PROVE  /\ \A rows \in [Projectors -> Seq(Nat)] : ApplyAll(rows, s) \in [Projectors -> Seq(Nat)]
         /\ \A m \in [fold : [Projectors -> Seq(Nat)], snap : Nat] :
              ProjectOnto(m, s) \in [fold : [Projectors -> Seq(Nat)], snap : Nat]
<1>1. ASSUME NEW rows \in [Projectors -> Seq(Nat)]
      PROVE  ApplyAll(rows, s) \in [Projectors -> Seq(Nat)]
  BY DEF ApplyAll
<1>2. s # <<>> => Last(s) \in Nat
  BY DEF Last
<1> QED
  BY <1>1, <1>2 DEF ProjectOnto

----------------------------------------------------------------------------
(* Type correctness.                                                        *)

\* The types are inductive together with where a plan comes from: only then is the
\* aggregate of its last event, which the receipt takes, an aggregate at all.
TInv == TypeOK /\ (pc = "commit" => plan \in Plans[Command])

USE DEF durable, process, worker, clients, feed, budgets

LEMMA TypeInit == Init => TInv
<1> SUFFICES ASSUME Init PROVE TypeOK /\ pc # "commit"
  BY DEF TInv
<1>1. pc # "commit"
  BY DEF Init
<1>2. DurableType
  BY DEF Init, DurableType, NoReceipt, ReceiptType
<1>3. ProcessType
  <2>1. installed \subseteq Projectors /\ Required \cap installed # {}
    BY ProjectorsAssumption DEF Init
  <2>2. budget \in Nat /\ faults \in 0..MaxFaults /\ crashes \in 0..MaxCrashes
    BY BoundsAssumption DEF Init
  <2>3. phase \in {"down", "boot", "up"} /\ at \in Nat \ {0}
    BY DEF Init
  <2>4. diverged \in BOOLEAN
    BY Zenon DEF Init
  <2> QED
    BY <2>1, <2>2, <2>3, <2>4, Zenon DEF ProcessType
<1>4. MemoryType
  BY DEF Init, MemoryType, EmptyModel
<1>5. ClientsType
  BY DEF Init, ClientsType
<1>6. QueueType
  BY DEF Init, QueueType
<1>7. WorkerType
  BY DEF Init, WorkerType, NoReply, ReplyType
<1> QED
  BY <1>1, <1>2, <1>3, <1>4, <1>5, <1>6, <1>7 DEF TypeOK

\* The numbers of the events a transaction appends, and the last of them.
LEMMA NewType ==
  ASSUME TInv, pc = "commit"
  PROVE  /\ Span(Len(log) + 1, Len(log) + Len(plan)) \in Seq(Nat)
         /\ Len(log) + Len(plan) \in Nat
<1>1. Len(log) \in Nat /\ Len(plan) \in Nat
  BY DEF TInv, TypeOK, DurableType, WorkerType
<1>2. Len(log) + 1 \in Nat /\ Len(log) + Len(plan) \in Nat
  BY <1>1
<1> QED
  BY <1>2, SpanType

\* A plan of a command becomes as many events.
LEMMA EventsType ==
  ASSUME NEW c \in Commands, NEW p \in Seq(Aggregates)
  PROVE  /\ Events(c, p) \in Seq(EventType) /\ Len(Events(c, p)) = Len(p)
         /\ \A i \in 1..Len(p) : Events(c, p)[i] = [id |-> c.id, agg |-> p[i]]
<1>1. c.id \in Ids
  BY CommandsAssumption DEF CommandType
<1>2. Len(p) \in Nat /\ DOMAIN p = 1..Len(p) /\ \A i \in 1..Len(p) : p[i] \in Aggregates
  OBVIOUS
<1>3. \A i \in 1..Len(p) : [id |-> c.id, agg |-> p[i]] \in EventType
  BY <1>1, <1>2 DEF EventType
<1>4. [i \in 1..Len(p) |-> [id |-> c.id, agg |-> p[i]]] \in [1..Len(p) -> EventType]
  BY <1>3
<1>5. Events(c, p) = [i \in 1..Len(p) |-> [id |-> c.id, agg |-> p[i]]]
  BY <1>2 DEF Events
<1> HIDE DEF EventType
<1>6. Events(c, p) \in Seq(EventType)
  <2>1. Events(c, p) \in [1..Len(p) -> EventType]
    BY <1>4, <1>5
  <2> QED
    BY <1>2, <2>1, SeqDef
<1>7. Len(Events(c, p)) = Len(p)
  BY <1>2, <1>5, <1>6
<1> QED
  BY <1>5, <1>6, <1>7

\* The transaction keeps the types of what it writes.
LEMMA PersistType ==
  ASSUME TInv, pc = "commit", Persist
  PROVE  DurableType'
<1> DEFINE new == Span(Len(log) + 1, Len(log) + Len(plan))
<1>1. /\ Command \in Commands /\ Command.id \in Ids /\ plan \in Plans[Command]
      /\ plan \in Seq(Aggregates) /\ DurableType
  BY CommandInType DEF TInv, TypeOK, WorkerType
<1>2. log' \in Seq(EventType)
  <2>1. Events(Command, plan) \in Seq(EventType)
    BY <1>1, EventsType
  <2> QED
    BY <1>1, <2>1 DEF Persist, DurableType
<1>3. applied' \in [Projectors -> Seq(Nat)]
  <2>1. new \in Seq(Nat)
    BY NewType
  <2>2. applied \in [Projectors -> Seq(Nat)]
    BY <1>1 DEF DurableType
  <2>3. applied' = ApplyAll(applied, new)
    BY DEF Persist
  <2> HIDE DEF new
  <2> QED
    BY <2>1, <2>2, <2>3, FoldType
<1>4. receipts' \in [Ids -> ReceiptType]
  <2> DEFINE r == [status |-> "accepted", agg |-> Last(plan), seq |-> Len(log) + Len(plan)]
  <2>1. plan # <<>>
    BY <1>1, PlansAssumption
  <2>2. Last(plan) \in Aggregates
    BY <1>1, <2>1 DEF Last
  <2>3. r \in ReceiptType
    BY <2>2, NewType DEF ReceiptType
  <2>4. receipts' = [receipts EXCEPT ![Command.id] = r]
    BY DEF Persist
  <2> HIDE DEF r
  <2> QED
    BY <1>1, <2>3, <2>4 DEF DurableType
<1> QED
  BY <1>2, <1>3, <1>4 DEF DurableType

\* Starting, booting and ending the process.
LEMMA TypeProcess ==
  ASSUME TInv, Upgrade \/ StartProcess \/ Boot \/ Crash
  PROVE  TInv'
<1> SUFFICES /\ DurableType' /\ ProcessType' /\ MemoryType' /\ ClientsType' /\ QueueType' /\ WorkerType'
             /\ pc' = "commit" => plan' \in Plans[Command]'
  BY DEF TInv, TypeOK
<1>0. /\ TypeOK /\ DurableType /\ ProcessType /\ MemoryType /\ ClientsType /\ QueueType /\ WorkerType
      /\ pc = "commit" => plan \in Plans[Command]
  BY DEF TInv, TypeOK
<1> USE <1>0
<1>1. CASE Upgrade
  <2> USE <1>1
  <2>1. ProcessType'
    BY ProjectorsAssumption DEF Upgrade, ProcessType
  <2>2. pc' = "commit" => plan' \in Plans[Command]'
    BY DEF Upgrade, Command, AnswerWith, FailWith
  <2> QED
    BY <2>1, <2>2 DEF Upgrade, DurableType, MemoryType, ClientsType, QueueType, WorkerType
<1>2. CASE StartProcess
  <2> USE <1>2
  <2>1. ProcessType'
    BY BoundsAssumption DEF StartProcess, ProcessType
  <2>2. QueueType'
    BY DEF StartProcess, QueueType
  <2>3. pc' = "commit" => plan' \in Plans[Command]'
    BY DEF StartProcess, Command, AnswerWith, FailWith
  <2> QED
    BY <2>1, <2>2, <2>3 DEF StartProcess, DurableType, MemoryType, ClientsType, WorkerType
<1>3. CASE BootstrapEvent
  <2> USE <1>3
  <2>1. DurableType'
    <3>1. PICK p \in Projectors : p = Order[at]
      BY DEF BootstrapEvent, ProcessType
    <3>2. Append(applied[p], Cursor(p) + 1) \in Seq(Nat)
      BY CursorType DEF DurableType
    <3>3. applied' = [applied EXCEPT ![p] = Append(applied[p], Cursor(p) + 1)]
      BY <3>1 DEF BootstrapEvent
    <3>4. UNCHANGED <<log, receipts>>
      BY DEF BootstrapEvent
    <3> QED
      BY <3>2, <3>3, <3>4 DEF DurableType
  <2>2. ProcessType'
    BY DEF BootstrapEvent, ProcessType
  <2>3. pc' = "commit" => plan' \in Plans[Command]'
    BY DEF BootstrapEvent, Command, AnswerWith, FailWith
  <2> QED
    BY <2>1, <2>2, <2>3 DEF BootstrapEvent, MemoryType, ClientsType, QueueType, WorkerType
<1>4. CASE BootstrapNext
  <2> USE <1>4
  <2>1. ProcessType'
    BY BoundsAssumption DEF BootstrapNext, ProcessType
  <2>2. QueueType'
    BY DEF BootstrapNext, QueueType
  <2>3. pc' = "commit" => plan' \in Plans[Command]'
    BY DEF BootstrapNext, Command, AnswerWith, FailWith
  <2> QED
    BY <2>1, <2>2, <2>3 DEF BootstrapNext, DurableType, MemoryType, ClientsType, WorkerType
<1>5. CASE LoadModel
  <2> USE <1>5
  <2>1. ProcessType'
    BY DEF LoadModel, ProcessType
  <2>2. MemoryType'
    <3>1. SnapshotSequence \in Nat /\ Len(log) \in Nat
      BY SnapshotType DEF DurableType
    <3> QED
      BY <3>1 DEF LoadModel, DurableType, MemoryType
  <2>3. QueueType'
    BY DEF LoadModel, QueueType
  <2>4. pc' = "commit" => plan' \in Plans[Command]'
    BY DEF LoadModel, Command, AnswerWith, FailWith
  <2> QED
    BY <2>1, <2>2, <2>3, <2>4 DEF LoadModel, DurableType, ClientsType, WorkerType
<1>6. CASE Crash
  <2> USE <1>6
  <2>1. ProcessType'
    <3>1. phase' = "down" /\ UNCHANGED <<installed, at, budget, faults>> /\ crashes' \in 0..MaxCrashes
      BY BoundsAssumption DEF Crash, ProcessType
    <3>2. diverged' \in BOOLEAN
      BY Zenon DEF Crash
    <3> QED
      BY <3>1, <3>2 DEF ProcessType
  <2>2. MemoryType'
    BY DEF Crash, EmptyModel, MemoryType
  <2>3. QueueType'
    BY DEF Crash, QueueType
  <2>4. WorkerType'
    BY DEF Crash, NoReply, ReplyType, WorkerType
  <2>5. pc' = "commit" => plan' \in Plans[Command]'
    BY DEF Crash, Command, AnswerWith, FailWith
  <2> QED
    BY <2>1, <2>2, <2>3, <2>4, <2>5 DEF Crash, DurableType, ClientsType
<1> QED
  BY <1>1, <1>2, <1>3, <1>4, <1>5, <1>6 DEF Boot

\* Sending, taking, looking up and deciding a command.
LEMMA TypeDecide ==
  ASSUME TInv, (\E c \in Commands : Dispatch(c)) \/ Take \/ Lookup \/ Decide
  PROVE  TInv'
<1> SUFFICES /\ DurableType' /\ ProcessType' /\ MemoryType' /\ ClientsType' /\ QueueType' /\ WorkerType'
             /\ pc' = "commit" => plan' \in Plans[Command]'
  BY DEF TInv, TypeOK
<1>0. /\ TypeOK /\ DurableType /\ ProcessType /\ MemoryType /\ ClientsType /\ QueueType /\ WorkerType
      /\ pc = "commit" => plan \in Plans[Command]
  BY DEF TInv, TypeOK
<1> USE <1>0
<1>1. CASE Take
  <2> USE <1>1
  <2>1. QueueType'
    BY DEF Take, QueueType
  <2>2. WorkerType'
    BY DEF Take, MemoryType, WorkerType
  <2>3. pc' = "commit" => plan' \in Plans[Command]'
    BY DEF Take, Command, AnswerWith, FailWith
  <2> QED
    BY <2>1, <2>2, <2>3 DEF Take, DurableType, ProcessType, MemoryType, ClientsType
<1>2. CASE LookupHit
  <2> USE <1>2
  <2>1. QueueType'
    BY DEF LookupHit, AnswerWith, QueueType
  <2>2. WorkerType'
    <3>1. receipts[Command.id] \in ReceiptType
      BY CommandInType DEF LookupHit, DurableType
    <3>2. receipts[Command.id].status = "accepted" => receipts[Command.id].seq \in Nat
      BY <3>1 DEF ReceiptType, NoReceipt
    <3>3. reply' \in ReplyType
      BY <3>2 DEF LookupHit, AnswerWith, Acked, Failed, ReplyType
    <3> QED
      BY <3>3 DEF LookupHit, WorkerType
  <2>3. pc' = "commit" => plan' \in Plans[Command]'
    BY DEF LookupHit, Command, AnswerWith, FailWith
  <2> QED
    BY <2>1, <2>2, <2>3 DEF LookupHit, DurableType, ProcessType, MemoryType, ClientsType
<1>3. CASE LookupMiss
  <2> USE <1>3
  <2>1. QueueType'
    BY DEF LookupMiss, QueueType
  <2>2. pc' = "commit" => plan' \in Plans[Command]'
    BY DEF LookupMiss, Command, AnswerWith, FailWith
  <2> QED
    BY <2>1, <2>2 DEF LookupMiss, DurableType, ProcessType, MemoryType, ClientsType, WorkerType
<1>4. CASE LookupFails
  <2> USE <1>4
  <2>1. ProcessType'
    BY BoundsAssumption DEF LookupFails, ProcessType
  <2>2. QueueType'
    BY DEF LookupFails, FailWith, QueueType
  <2>3. WorkerType'
    BY DEF LookupFails, FailWith, Failed, ReplyType, WorkerType
  <2>4. pc' = "commit" => plan' \in Plans[Command]'
    BY DEF LookupFails, Command, AnswerWith, FailWith
  <2> QED
    BY <2>1, <2>2, <2>3, <2>4 DEF LookupFails, DurableType, MemoryType, ClientsType
<1>5. CASE DecideEvents
  <2> USE <1>5
  <2>1. QueueType'
    BY DEF DecideEvents, QueueType
  <2>2. WorkerType'
    <3>1. PICK p \in Plans[Command] : plan' = p
      BY DEF DecideEvents
    <3>2. p \in Seq(Aggregates)
      BY CommandInType, PlansAssumption DEF DecideEvents
    <3> QED
      BY <3>1, <3>2 DEF DecideEvents, WorkerType
  <2>3. pc' = "commit" => plan' \in Plans[Command]'
    BY DEF DecideEvents, Command
  <2> QED
    BY <2>1, <2>2, <2>3 DEF DecideEvents, DurableType, ProcessType, MemoryType, ClientsType
<1>6. CASE DecideRejects
  <2> USE <1>6
  <2>1. QueueType'
    BY DEF DecideRejects, FailWith, QueueType
  <2>2. WorkerType'
    BY DEF DecideRejects, FailWith, Failed, ReplyType, WorkerType
  <2>3. pc' = "commit" => plan' \in Plans[Command]'
    BY DEF DecideRejects, Command, AnswerWith, FailWith
  <2> QED
    BY <2>1, <2>2, <2>3 DEF DecideRejects, DurableType, ProcessType, MemoryType, ClientsType
<1>7. ASSUME NEW c \in Commands, Dispatch(c)
      PROVE  /\ DurableType' /\ ProcessType' /\ MemoryType' /\ ClientsType' /\ QueueType' /\ WorkerType'
             /\ pc' = "commit" => plan' \in Plans[Command]'
  <2> USE <1>7
  <2>1. ClientsType'
    BY DEF Dispatch, NoReply, ReplyType, ClientsType
  <2>2. QueueType'
    <3>1. /\ dispatches \in Seq(Commands) /\ dispatches' = Append(dispatches, c)
          /\ queue' = Append(queue, Len(dispatches')) /\ UNCHANGED <<phase, pc, cur>> /\ phase = "up"
      BY DEF Dispatch, ClientsType
    <3>2. Len(dispatches') = Len(dispatches) + 1 /\ Len(dispatches) \in Nat
      BY <3>1
    <3>3. queue \in Seq(1..Len(dispatches'))
      <4>1. 1..Len(dispatches) \subseteq 1..Len(dispatches')
        BY <3>2
      <4>2. queue \in Seq(1..Len(dispatches))
        BY DEF QueueType
      <4> QED
        BY <4>1, <4>2, SeqMonotonic
    <3>4. queue' \in Seq(1..Len(dispatches'))
      BY <3>1, <3>2, <3>3
    <3> QED
      BY <3>1, <3>2, <3>4 DEF QueueType
  <2>3. pc' = "commit" => plan' \in Plans[Command]'
    <3>1. cur \in 1..Len(dispatches) => dispatches'[cur] = dispatches[cur]
      BY DEF Dispatch, ClientsType
    <3> QED
      BY <3>1 DEF Dispatch, Command, QueueType
  <2> QED
    BY <2>1, <2>2, <2>3 DEF Dispatch, DurableType, ProcessType, MemoryType, WorkerType
<1> QED
  BY <1>1, <1>2, <1>3, <1>4, <1>5, <1>6, <1>7 DEF Lookup, Decide

\* Committing, reconciling, publishing, recording and answering.
LEMMA TypeCommit ==
  ASSUME TInv, Commit \/ Reconcile \/ ReconcileFails \/ Publish \/ RecordRejection \/ Answer
  PROVE  TInv'
<1> SUFFICES /\ DurableType' /\ ProcessType' /\ MemoryType' /\ ClientsType' /\ QueueType' /\ WorkerType'
             /\ pc' = "commit" => plan' \in Plans[Command]'
  BY DEF TInv, TypeOK
<1>0. /\ TypeOK /\ DurableType /\ ProcessType /\ MemoryType /\ ClientsType /\ QueueType /\ WorkerType
      /\ pc = "commit" => plan \in Plans[Command]
  BY DEF TInv, TypeOK
<1> USE <1>0
<1>1. CASE CommitSucceeds
  <2> USE <1>1
  <2>1. DurableType'
    BY PersistType DEF CommitSucceeds, DurableType
  <2>2. MemoryType'
    <3>1. outbox' \in Seq(Nat)
      BY NewType DEF CommitSucceeds
    <3> QED
      BY <3>1, FoldType DEF CommitSucceeds, MemoryType
  <2>3. QueueType'
    BY DEF CommitSucceeds, QueueType
  <2>4. WorkerType'
    BY NewType DEF CommitSucceeds, Acked, ReplyType, WorkerType
  <2>5. pc' = "commit" => plan' \in Plans[Command]'
    BY DEF CommitSucceeds, Command, AnswerWith, FailWith
  <2> QED
    BY <2>1, <2>2, <2>3, <2>4, <2>5 DEF CommitSucceeds, ProcessType, ClientsType
<1>2. CASE CommitRollsBack
  <2> USE <1>2
  <2>1. ProcessType'
    BY BoundsAssumption DEF CommitRollsBack, ProcessType
  <2>2. QueueType'
    BY DEF CommitRollsBack, FailWith, QueueType
  <2>3. WorkerType'
    BY DEF CommitRollsBack, FailWith, Failed, ReplyType, WorkerType
  <2>4. pc' = "commit" => plan' \in Plans[Command]'
    BY DEF CommitRollsBack, Command, AnswerWith, FailWith
  <2> QED
    BY <2>1, <2>2, <2>3, <2>4 DEF CommitRollsBack, DurableType, MemoryType, ClientsType
<1>3. CASE CommitUnreported
  <2> USE <1>3
  <2>1. DurableType'
    BY PersistType DEF CommitUnreported, DurableType
  <2>2. ProcessType'
    BY BoundsAssumption DEF CommitUnreported, ProcessType
  <2>3. QueueType'
    BY DEF CommitUnreported, FailWith, QueueType
  <2>4. WorkerType'
    BY DEF CommitUnreported, FailWith, Failed, ReplyType, WorkerType
  <2>5. pc' = "commit" => plan' \in Plans[Command]'
    BY DEF CommitUnreported, Command, AnswerWith, FailWith
  <2> QED
    BY <2>1, <2>2, <2>3, <2>4, <2>5 DEF CommitUnreported, MemoryType, ClientsType
<1>4. CASE Reconcile
  <2> USE <1>4
  <2>1. MemoryType'
    <3>1. ReadFromSequence(start) \in Seq(Nat)
      BY ReadType DEF WorkerType
    <3> QED
      BY <3>1, FoldType DEF Reconcile, MemoryType
  <2>2. QueueType'
    BY DEF Reconcile, QueueType
  <2>3. WorkerType'
    BY ReadType DEF Reconcile, WorkerType
  <2>4. pc' = "commit" => plan' \in Plans[Command]'
    BY DEF Reconcile, Command, AnswerWith, FailWith
  <2> QED
    BY <2>1, <2>2, <2>3, <2>4 DEF Reconcile, DurableType, ProcessType, ClientsType
<1>5. CASE ReconcileFails
  <2> USE <1>5
  <2>1. ProcessType'
    BY BoundsAssumption DEF ReconcileFails, ProcessType
  <2>2. QueueType'
    BY DEF ReconcileFails, QueueType
  <2>3. pc' = "commit" => plan' \in Plans[Command]'
    BY DEF ReconcileFails, Command, AnswerWith, FailWith
  <2> QED
    BY <2>1, <2>2, <2>3 DEF ReconcileFails, DurableType, MemoryType, ClientsType, WorkerType
<1>6. CASE PublishNext
  <2> USE <1>6
  <2>1. MemoryType'
    BY DEF PublishNext, WorkerType, MemoryType
  <2>2. WorkerType'
    BY DEF PublishNext, WorkerType
  <2>3. pc' = "commit" => plan' \in Plans[Command]'
    BY DEF PublishNext, Command, AnswerWith, FailWith
  <2> QED
    BY <2>1, <2>2, <2>3 DEF PublishNext, DurableType, ProcessType, ClientsType, QueueType
<1>7. CASE PublishDone
  <2> USE <1>7
  <2>1. QueueType'
    BY DEF PublishDone, QueueType
  <2>2. pc' = "commit" => plan' \in Plans[Command]'
    BY DEF PublishDone, Command, AnswerWith, FailWith
  <2> QED
    BY <2>1, <2>2 DEF PublishDone, DurableType, ProcessType, MemoryType, ClientsType, WorkerType
<1>8. CASE RecordRejection
  <2> USE <1>8
  <2>1. DurableType'
    <3>1. [status |-> "rejected", agg |-> Command.agg, seq |-> mem.snap] \in ReceiptType
      BY CommandInType DEF RecordRejection, MemoryType, ReceiptType
    <3> QED
      BY <3>1 DEF RecordRejection, DurableType
  <2>2. ProcessType'
    BY BoundsAssumption DEF RecordRejection, ProcessType
  <2>3. QueueType'
    BY DEF RecordRejection, QueueType
  <2>4. pc' = "commit" => plan' \in Plans[Command]'
    BY DEF RecordRejection, Command, AnswerWith, FailWith
  <2> QED
    BY <2>1, <2>2, <2>3, <2>4 DEF RecordRejection, MemoryType, ClientsType, WorkerType
<1>9. CASE Answer
  <2> USE <1>9
  <2>1. ClientsType'
    <3>1. cur \in 1..Len(replies) /\ reply \in ReplyType
      BY DEF Answer, WorkerType, QueueType, ClientsType
    <3>2. replies' = [replies EXCEPT ![cur] = reply] /\ UNCHANGED dispatches
      BY DEF Answer
    <3> QED
      BY <3>1, <3>2, ExceptSeq DEF ClientsType
  <2>2. QueueType'
    BY DEF Answer, QueueType
  <2>3. WorkerType'
    BY DEF Answer, NoReply, ReplyType, WorkerType
  <2>4. pc' = "commit" => plan' \in Plans[Command]'
    BY DEF Answer, Command, AnswerWith, FailWith
  <2> QED
    BY <2>1, <2>2, <2>3, <2>4 DEF Answer, DurableType, ProcessType, MemoryType
<1> QED
  BY <1>1, <1>2, <1>3, <1>4, <1>5, <1>6, <1>7, <1>8, <1>9 DEF Commit, Publish

\* Every step keeps the types.
LEMMA TypeStep == TInv /\ [Next]_vars => TInv'
<1> SUFFICES ASSUME TInv, [Next]_vars PROVE TInv'
  OBVIOUS
<1>1. CASE UNCHANGED vars
  BY <1>1 DEF TInv, TypeOK, DurableType, ProcessType, MemoryType, ClientsType, QueueType,
              WorkerType, Command, vars
<1>2. CASE Next
  BY <1>2, TypeProcess, TypeDecide, TypeCommit DEF Next, Worker
<1> QED
  BY <1>1, <1>2

\* In every reachable state every variable has its type, the worker is idle exactly
\* when it handles nothing, and only a running process has a queue: whatever the
\* commands, the plans, the projectors, the faults and the crashes.
THEOREM TypeCorrect == Spec => []TypeOK
<1>1. TInv => TypeOK
  BY DEF TInv
<1> QED
  BY TypeInit, TypeStep, <1>1, PTL DEF Spec

----------------------------------------------------------------------------
(* The inductive invariant: each command id is decided once, and a client   *)
(* is never told anything the log does not hold.                            *)

\* From the moment the lookup missed until its outcome is written, the command being
\* handled has no receipt: only the worker writes receipts, and it handles one
\* command at a time.  A failure whose commit may have gone through is not a
\* rejection, so nothing is recorded for it.
Undecided ==
  pc \in {"decide", "commit", "record"} \/ (pc \in {"failed", "publish"} /\ reply.kind = "invariant")
    => receipts[Command.id] = NoReceipt

\* An acknowledgement on its way to the client is as true as one it has received.
ReplyIsDurable ==
  reply.kind = "ok" =>
    /\ pc \in {"publish", "answer"}
    /\ reply.seq \in DOMAIN log
    /\ log[reply.seq] = [id |-> Command.id, agg |-> Command.agg]

IInv == TInv /\ Undecided /\ ReplyIsDurable /\ ReceiptsMatchLog /\ OneBlockPerCommand /\ AckedIsDurable

\* What the invariant says of the durable state depends on log and receipts only.
LEMMA LogFrame ==
  ASSUME ReceiptsMatchLog, OneBlockPerCommand, UNCHANGED <<log, receipts>>
  PROVE  ReceiptsMatchLog' /\ OneBlockPerCommand'
<1>1. log' = log /\ receipts' = receipts
  OBVIOUS
<1>2. ReceiptsMatchLog'
  BY <1>1 DEF ReceiptsMatchLog
<1>3. OneBlockPerCommand'
  BY <1>1 DEF OneBlockPerCommand
<1> QED
  BY <1>2, <1>3

\* What it says of the answers depends on the log and on what clients sent and got.
LEMMA AckFrame ==
  ASSUME AckedIsDurable, UNCHANGED <<log, dispatches, replies>>
  PROVE  AckedIsDurable'
<1>1. log' = log /\ dispatches' = dispatches /\ replies' = replies
  OBVIOUS
<1> QED
  BY <1>1 DEF AckedIsDurable

\* The log holds events: records of an id and an aggregate.
LEMMA LogEvents ==
  ASSUME DurableType
  PROVE  \A i \in DOMAIN log :
           log[i].id \in Ids /\ log[i] = [id |-> log[i].id, agg |-> log[i].agg]
<1> TAKE i \in DOMAIN log
<1>1. log \in Seq(EventType) /\ i \in 1..Len(log)
  BY DEF DurableType
<1>2. log[i] \in EventType
  BY <1>1, ElementOfSeq
<1> QED
  BY <1>2 DEF EventType

\* A command without a receipt has no event in the log.
LEMMA NoReceiptNoEvent ==
  ASSUME ReceiptsMatchLog, NEW id, receipts[id] = NoReceipt
  PROVE  \A i \in DOMAIN log : log[i].id # id
<1>1. receipts[id].status # "accepted"
  BY DEF NoReceipt
<1> QED
  BY <1>1 DEF ReceiptsMatchLog

\* What a committed transaction did to log and receipts: a block of events at the
\* end, all of the one command, the last on its aggregate and named by its receipt.
LEMMA PersistShape ==
  ASSUME IInv, pc = "commit", Persist, NEW n, n = Len(log), NEW m, m = Len(log')
  PROVE  /\ n \in Nat /\ m \in Nat /\ n < m
         /\ DOMAIN log = 1..n /\ DOMAIN log' = 1..m
         /\ \A i \in 1..n : log'[i] = log[i] /\ log[i].id # Command.id
         /\ \A i \in (n + 1)..m : log'[i].id = Command.id
         /\ log'[m] = [id |-> Command.id, agg |-> Command.agg]
         /\ Command.id \in Ids
         /\ receipts'[Command.id] = [status |-> "accepted", agg |-> Command.agg, seq |-> m]
         /\ \A id \in Ids : id # Command.id => receipts'[id] = receipts[id]
<1>1. /\ Command \in Commands /\ Command.id \in Ids /\ plan \in Plans[Command]
      /\ plan \in Seq(Aggregates) /\ log \in Seq(EventType) /\ receipts \in [Ids -> ReceiptType]
      /\ receipts[Command.id] = NoReceipt
  BY CommandInType DEF IInv, TInv, TypeOK, WorkerType, DurableType, Undecided
<1>2. plan # <<>> /\ Last(plan) = Command.agg
  BY <1>1, PlansAssumption
<1> DEFINE k == Len(plan)
           evs == Events(Command, plan)
<1>3. k \in Nat /\ k > 0 /\ n \in Nat
  BY <1>1, <1>2
<1>4. /\ evs \in Seq(EventType) /\ Len(evs) = k
      /\ \A i \in 1..k : evs[i] = [id |-> Command.id, agg |-> plan[i]]
  BY <1>1, EventsType
<1>5. log' = log \o evs
  BY DEF Persist
<1> HIDE DEF evs
<1>6. m = n + k /\ \A i \in 1..(n + k) : log'[i] = IF i <= n THEN log[i] ELSE evs[i - n]
  <2>1. /\ Len(log \o evs) = Len(log) + Len(evs)
        /\ \A i \in 1..(Len(log) + Len(evs)) :
             (log \o evs)[i] = IF i <= Len(log) THEN log[i] ELSE evs[i - Len(log)]
    <3>1. log \in Seq(EventType) /\ evs \in Seq(EventType)
      BY <1>1, <1>4
    <3> QED
      BY <3>1, ConcatProperties, Zenon
  <2> QED
    BY <1>4, <1>5, <2>1
<1>7. log' \in Seq(EventType)
  BY <1>1, <1>4, <1>5, ConcatProperties
<1>8. DOMAIN log = 1..n /\ DOMAIN log' = 1..m
  BY <1>1, <1>7, LenProperties
<1>9. \A i \in 1..n : log'[i] = log[i] /\ log[i].id # Command.id
  BY <1>1, <1>3, <1>6, <1>8, NoReceiptNoEvent DEF IInv
<1> HIDE DEF k
<1>10. \A i \in (n + 1)..m : i - n \in 1..k /\ log'[i] = [id |-> Command.id, agg |-> plan[i - n]]
  <2> TAKE i \in (n + 1)..m
  <2>1. i - n \in 1..k /\ i \in 1..(n + k) /\ ~ (i <= n)
    BY <1>3, <1>6
  <2> QED
    BY <1>4, <1>6, <2>1
<1>11. log'[m] = [id |-> Command.id, agg |-> Command.agg]
  <2>1. m \in (n + 1)..m /\ m - n = k
    BY <1>3, <1>6
  <2> QED
    BY <1>2, <1>10, <2>1 DEF Last, k
<1>12. receipts' = [receipts EXCEPT ![Command.id] =
                      [status |-> "accepted", agg |-> Command.agg, seq |-> m]]
  BY <1>2, <1>6 DEF Persist, k
<1>13. n < m /\ m \in Nat
  BY <1>3, <1>6
<1>14. /\ receipts'[Command.id] = [status |-> "accepted", agg |-> Command.agg, seq |-> m]
       /\ \A id \in Ids : id # Command.id => receipts'[id] = receipts[id]
  BY <1>1, <1>12
<1>15. \A i \in (n + 1)..m : log'[i].id = Command.id
  <2> TAKE i \in (n + 1)..m
  <2>1. log'[i] = [id |-> Command.id, agg |-> plan[i - n]]
    BY <1>10
  <2> QED
    BY <2>1
<1> QED
  BY <1>1, <1>3, <1>8, <1>9, <1>11, <1>13, <1>14, <1>15

\* Committing keeps the durable state and the answers in agreement.
LEMMA PersistSafe ==
  ASSUME IInv, pc = "commit", Persist, UNCHANGED clients
  PROVE  /\ ReceiptsMatchLog' /\ OneBlockPerCommand' /\ AckedIsDurable'
         /\ Len(log') \in DOMAIN log'
         /\ log'[Len(log')] = [id |-> Command.id, agg |-> Command.agg]
<1> DEFINE n == Len(log)
           m == Len(log')
<1>1. /\ n \in Nat /\ m \in Nat /\ n < m
      /\ DOMAIN log = 1..n /\ DOMAIN log' = 1..m
      /\ \A i \in 1..n : log'[i] = log[i] /\ log[i].id # Command.id
      /\ \A i \in (n + 1)..m : log'[i].id = Command.id
      /\ log'[m] = [id |-> Command.id, agg |-> Command.agg]
      /\ Command.id \in Ids
      /\ receipts'[Command.id] = [status |-> "accepted", agg |-> Command.agg, seq |-> m]
      /\ \A id \in Ids : id # Command.id => receipts'[id] = receipts[id]
  BY PersistShape
<1>2. ReceiptsMatchLog /\ OneBlockPerCommand /\ AckedIsDurable /\ log \in Seq(EventType)
  BY DEF IInv, TInv, TypeOK, DurableType
<1> HIDE DEF n, m
<1>3. \A i \in 1..n : log[i].id \in Ids /\ receipts'[log[i].id] = receipts[log[i].id]
  <2> TAKE i \in 1..n
  <2>1. log[i] \in EventType
    BY <1>1, <1>2, ElementOfSeq DEF n
  <2>2. log[i].id \in Ids
    BY <2>1 DEF EventType
  <2> QED
    BY <1>1, <2>2
<1>4. ReceiptsMatchLog'
  <2>1. ASSUME NEW id \in Ids, receipts'[id].status = "accepted"
        PROVE  /\ receipts'[id].seq \in DOMAIN log' /\ log'[receipts'[id].seq].id = id
               /\ log'[receipts'[id].seq].agg = receipts'[id].agg
               /\ \A k \in DOMAIN log' : log'[k].id = id => k <= receipts'[id].seq
    <3>1. CASE id = Command.id
      BY <1>1, <3>1
    <3>2. CASE id # Command.id
      BY <1>1, <1>2, <2>1, <3>2 DEF ReceiptsMatchLog
    <3> QED
      BY <3>1, <3>2
  <2>2. ASSUME NEW k \in DOMAIN log'
        PROVE  receipts'[log'[k].id].status = "accepted"
    <3>1. CASE k \in 1..n
      BY <1>1, <1>2, <1>3, <3>1 DEF ReceiptsMatchLog
    <3>2. CASE k \in (n + 1)..m
      BY <1>1, <3>2
    <3> QED
      BY <1>1, <3>1, <3>2
  <2> QED
    BY <2>1, <2>2 DEF ReceiptsMatchLog
<1>5. OneBlockPerCommand'
  <2> SUFFICES ASSUME NEW i \in DOMAIN log', NEW j \in DOMAIN log', i < j, log'[i].id = log'[j].id
               PROVE  /\ \A k \in i..j : log'[k].id = log'[i].id
                      /\ receipts'[log'[i].id].status = "accepted"
                      /\ receipts'[log'[i].id].seq >= j
    BY DEF OneBlockPerCommand
  <2>1. i \in 1..m /\ j \in 1..m
    BY <1>1
  <2>2. CASE j <= n
    <3>1. i \in 1..n /\ j \in 1..n /\ log[i].id = log[j].id
      BY <1>1, <2>1, <2>2
    <3>2. \A k \in i..j : k \in 1..n
      BY <1>1, <3>1
    <3> QED
      BY <1>1, <1>2, <1>3, <3>1, <3>2 DEF OneBlockPerCommand
  <2>3. CASE n < j
    <3>1. log'[j].id = Command.id
      BY <1>1, <2>1, <2>3
    <3>2. n < i
      BY <1>1, <2>1, <3>1
    <3> QED
      BY <1>1, <2>1, <2>3, <3>1, <3>2
  <2> QED
    BY <1>1, <2>1, <2>2, <2>3
<1>6. AckedIsDurable'
  <2>1. UNCHANGED <<dispatches, replies>>
    BY DEF clients
  <2>2. \A i \in DOMAIN log : i \in DOMAIN log' /\ log'[i] = log[i]
    BY <1>1
  <2> QED
    BY <1>2, <2>1, <2>2 DEF AckedIsDurable
<1>7. m \in DOMAIN log'
  BY <1>1
<1> QED
  BY <1>1, <1>4, <1>5, <1>6, <1>7 DEF m
----------------------------------------------------------------------------
(* Every step keeps the invariant.                                         *)

\* Starting, booting and ending the process touches neither log nor receipts.
LEMMA SafeProcess ==
  ASSUME IInv, TInv', Upgrade \/ StartProcess \/ Boot \/ Crash
  PROVE  IInv'
<1> SUFFICES Undecided' /\ ReplyIsDurable' /\ ReceiptsMatchLog' /\ OneBlockPerCommand' /\ AckedIsDurable'
  BY DEF IInv
<1> USE DEF durable, process, worker, clients, feed, budgets
<1>0. /\ TypeOK /\ DurableType /\ ClientsType /\ QueueType /\ WorkerType
      /\ Undecided /\ ReplyIsDurable /\ ReceiptsMatchLog /\ OneBlockPerCommand /\ AckedIsDurable
  BY DEF IInv, TInv, TypeOK
<1> USE <1>0
<1>1. CASE Upgrade
  <2> USE <1>1
  <2>1. Undecided'
    BY DEF Upgrade, Undecided, Command
  <2>2. ReplyIsDurable'
    BY DEF Upgrade, ReplyIsDurable, Command
  <2>3. ReceiptsMatchLog' /\ OneBlockPerCommand'
    BY LogFrame DEF Upgrade, durable
  <2>4. AckedIsDurable'
    BY AckFrame DEF Upgrade, durable, clients
  <2> QED
    BY <2>1, <2>2, <2>3, <2>4
<1>2. CASE StartProcess
  <2> USE <1>2
  <2>1. Undecided'
    BY DEF StartProcess, Undecided, Command
  <2>2. ReplyIsDurable'
    BY DEF StartProcess, ReplyIsDurable, Command
  <2>3. ReceiptsMatchLog' /\ OneBlockPerCommand'
    BY LogFrame DEF StartProcess, durable
  <2>4. AckedIsDurable'
    BY AckFrame DEF StartProcess, durable, clients
  <2> QED
    BY <2>1, <2>2, <2>3, <2>4
<1>3. CASE BootstrapEvent
  <2> USE <1>3
  <2>1. Undecided'
    BY DEF BootstrapEvent, Undecided, Command
  <2>2. ReplyIsDurable'
    BY DEF BootstrapEvent, ReplyIsDurable, Command
  <2>3. ReceiptsMatchLog' /\ OneBlockPerCommand'
    BY LogFrame DEF BootstrapEvent, durable
  <2>4. AckedIsDurable'
    BY AckFrame DEF BootstrapEvent, durable, clients
  <2> QED
    BY <2>1, <2>2, <2>3, <2>4
<1>4. CASE BootstrapNext
  <2> USE <1>4
  <2>1. Undecided'
    BY DEF BootstrapNext, Undecided, Command
  <2>2. ReplyIsDurable'
    BY DEF BootstrapNext, ReplyIsDurable, Command
  <2>3. ReceiptsMatchLog' /\ OneBlockPerCommand'
    BY LogFrame DEF BootstrapNext, durable
  <2>4. AckedIsDurable'
    BY AckFrame DEF BootstrapNext, durable, clients
  <2> QED
    BY <2>1, <2>2, <2>3, <2>4
<1>5. CASE LoadModel
  <2> USE <1>5
  <2>1. Undecided'
    BY DEF LoadModel, Undecided, Command
  <2>2. ReplyIsDurable'
    BY DEF LoadModel, ReplyIsDurable, Command
  <2>3. ReceiptsMatchLog' /\ OneBlockPerCommand'
    BY LogFrame DEF LoadModel, durable
  <2>4. AckedIsDurable'
    BY AckFrame DEF LoadModel, durable, clients
  <2> QED
    BY <2>1, <2>2, <2>3, <2>4
<1>6. CASE Crash
  <2> USE <1>6
  <2>1. Undecided'
    BY DEF Crash, Undecided
  <2>2. ReplyIsDurable'
    BY DEF Crash, ReplyIsDurable, NoReply
  <2>3. ReceiptsMatchLog' /\ OneBlockPerCommand'
    BY LogFrame DEF Crash, durable
  <2>4. AckedIsDurable'
    BY AckFrame DEF Crash, durable, clients
  <2> QED
    BY <2>1, <2>2, <2>3, <2>4
<1> QED
  BY <1>1, <1>2, <1>3, <1>4, <1>5, <1>6 DEF Boot

\* Sending, taking, looking up and deciding a command: what the lookup finds decides
\* what the worker may still do for it.
LEMMA SafeDecide ==
  ASSUME IInv, TInv', (\E c \in Commands : Dispatch(c)) \/ Take \/ Lookup \/ Decide
  PROVE  IInv'
<1> SUFFICES Undecided' /\ ReplyIsDurable' /\ ReceiptsMatchLog' /\ OneBlockPerCommand' /\ AckedIsDurable'
  BY DEF IInv
<1> USE DEF durable, process, worker, clients, feed, budgets
<1>0. /\ TypeOK /\ DurableType /\ ClientsType /\ QueueType /\ WorkerType
      /\ Undecided /\ ReplyIsDurable /\ ReceiptsMatchLog /\ OneBlockPerCommand /\ AckedIsDurable
  BY DEF IInv, TInv, TypeOK
<1> USE <1>0
<1>1. CASE Take
  <2> USE <1>1
  <2>1. Undecided'
    BY DEF Take, Undecided
  <2>2. ReplyIsDurable'
    BY DEF Take, ReplyIsDurable
  <2>3. ReceiptsMatchLog' /\ OneBlockPerCommand'
    BY LogFrame DEF Take, durable
  <2>4. AckedIsDurable'
    BY AckFrame DEF Take, durable, clients
  <2> QED
    BY <2>1, <2>2, <2>3, <2>4
<1>2. CASE LookupHit
  <2> USE <1>2
  <2>1. Undecided'
    BY DEF LookupHit, AnswerWith, Undecided
  <2>2. ReplyIsDurable'
    <3>1. Command.id \in Ids /\ receipts[Command.id] \in ReceiptType
      BY CommandInType DEF LookupHit, DurableType
    <3> DEFINE r == receipts[Command.id]
    <3>2. /\ reply' = IF r.agg # Command.agg THEN Failed("conflict")
                      ELSE IF r.status = "accepted" THEN Acked(r.seq)
                      ELSE Failed("rejectedBefore")
          /\ pc' = "answer" /\ UNCHANGED <<log, cur, dispatches>>
      BY DEF LookupHit, AnswerWith
    <3>3. reply'.kind = "ok" => r.agg = Command.agg /\ r.status = "accepted" /\ reply'.seq = r.seq
      BY <3>2 DEF Acked, Failed
    <3>4. r.status = "accepted" =>
            r.seq \in DOMAIN log /\ log[r.seq].id = Command.id /\ log[r.seq].agg = r.agg
      BY <3>1 DEF ReceiptsMatchLog
    <3>5. r.seq \in DOMAIN log => log[r.seq] = [id |-> log[r.seq].id, agg |-> log[r.seq].agg]
      BY LogEvents
    <3> HIDE DEF r
    <3> QED
      BY <3>2, <3>3, <3>4, <3>5 DEF ReplyIsDurable, Command
  <2>3. ReceiptsMatchLog' /\ OneBlockPerCommand'
    BY LogFrame DEF LookupHit, durable
  <2>4. AckedIsDurable'
    BY AckFrame DEF LookupHit, durable, clients
  <2> QED
    BY <2>1, <2>2, <2>3, <2>4
<1>3. CASE LookupMiss
  <2> USE <1>3
  <2>1. Undecided'
    BY DEF LookupMiss, Undecided, Command
  <2>2. ReplyIsDurable'
    BY DEF LookupMiss, ReplyIsDurable
  <2>3. ReceiptsMatchLog' /\ OneBlockPerCommand'
    BY LogFrame DEF LookupMiss, durable
  <2>4. AckedIsDurable'
    BY AckFrame DEF LookupMiss, durable, clients
  <2> QED
    BY <2>1, <2>2, <2>3, <2>4
<1>4. CASE LookupFails
  <2> USE <1>4
  <2>1. Undecided'
    BY DEF LookupFails, FailWith, Failed, Undecided
  <2>2. ReplyIsDurable'
    BY DEF LookupFails, FailWith, Failed, ReplyIsDurable
  <2>3. ReceiptsMatchLog' /\ OneBlockPerCommand'
    BY LogFrame DEF LookupFails, durable
  <2>4. AckedIsDurable'
    BY AckFrame DEF LookupFails, durable, clients
  <2> QED
    BY <2>1, <2>2, <2>3, <2>4
<1>5. CASE DecideEvents
  <2> USE <1>5
  <2>1. Undecided'
    BY DEF DecideEvents, Undecided, Command
  <2>2. ReplyIsDurable'
    BY DEF DecideEvents, ReplyIsDurable
  <2>3. ReceiptsMatchLog' /\ OneBlockPerCommand'
    BY LogFrame DEF DecideEvents, durable
  <2>4. AckedIsDurable'
    BY AckFrame DEF DecideEvents, durable, clients
  <2> QED
    BY <2>1, <2>2, <2>3, <2>4
<1>6. CASE DecideRejects
  <2> USE <1>6
  <2>1. Undecided'
    BY DEF DecideRejects, FailWith, Failed, Undecided, Command
  <2>2. ReplyIsDurable'
    BY DEF DecideRejects, FailWith, Failed, ReplyIsDurable
  <2>3. ReceiptsMatchLog' /\ OneBlockPerCommand'
    BY LogFrame DEF DecideRejects, durable
  <2>4. AckedIsDurable'
    BY AckFrame DEF DecideRejects, durable, clients
  <2> QED
    BY <2>1, <2>2, <2>3, <2>4
<1>7. ASSUME NEW c \in Commands, Dispatch(c)
      PROVE  Undecided' /\ ReplyIsDurable' /\ ReceiptsMatchLog' /\ OneBlockPerCommand' /\ AckedIsDurable'
  <2> USE <1>7
  <2>1. Undecided'
    <3>1. cur \in 1..Len(dispatches) => dispatches'[cur] = dispatches[cur]
      BY DEF Dispatch, ClientsType
    <3>2. pc # "idle" => Command' = Command
      BY <3>1 DEF Dispatch, Command, QueueType
    <3> QED
      BY <3>2 DEF Dispatch, Undecided
  <2>2. ReplyIsDurable'
    <3>1. cur \in 1..Len(dispatches) => dispatches'[cur] = dispatches[cur]
      BY DEF Dispatch, ClientsType
    <3>2. pc # "idle" => Command' = Command
      BY <3>1 DEF Dispatch, Command, QueueType
    <3> QED
      BY <3>2 DEF Dispatch, ReplyIsDurable
  <2>3. ReceiptsMatchLog' /\ OneBlockPerCommand'
    BY LogFrame DEF Dispatch, durable
  <2>4. AckedIsDurable'
    <3>1. \A n \in DOMAIN replies' : replies'[n].kind = "ok" =>
            n \in DOMAIN replies /\ replies'[n] = replies[n] /\ dispatches'[n] = dispatches[n]
      BY DEF Dispatch, NoReply, ClientsType
    <3>2. log' = log
      BY DEF Dispatch
    <3> QED
      BY <3>1, <3>2 DEF AckedIsDurable
  <2> QED
    BY <2>1, <2>2, <2>3, <2>4
<1> QED
  BY <1>1, <1>2, <1>3, <1>4, <1>5, <1>6, <1>7 DEF Lookup, Decide

\* Committing, reconciling, publishing, recording and answering.
LEMMA SafeCommit ==
  ASSUME IInv, TInv', Commit \/ Reconcile \/ ReconcileFails \/ Publish \/ RecordRejection \/ Answer
  PROVE  IInv'
<1> SUFFICES Undecided' /\ ReplyIsDurable' /\ ReceiptsMatchLog' /\ OneBlockPerCommand' /\ AckedIsDurable'
  BY DEF IInv
<1> USE DEF durable, process, worker, clients, feed, budgets
<1>0. /\ TypeOK /\ DurableType /\ ClientsType /\ QueueType /\ WorkerType
      /\ Undecided /\ ReplyIsDurable /\ ReceiptsMatchLog /\ OneBlockPerCommand /\ AckedIsDurable
  BY DEF IInv, TInv, TypeOK
<1> USE <1>0
<1>1. CASE CommitSucceeds
  <2> USE <1>1
  <2>1. Undecided'
    BY DEF CommitSucceeds, Acked, Undecided
  <2>2. ReplyIsDurable'
    <3>1. reply' = Acked(Len(log) + Len(plan)) /\ pc' = "publish" /\ UNCHANGED <<cur, dispatches>>
      BY DEF CommitSucceeds
    <3>2. Len(log') \in DOMAIN log' /\ log'[Len(log')] = [id |-> Command.id, agg |-> Command.agg]
      BY PersistSafe DEF CommitSucceeds
    <3>3. Len(log') = Len(log) + Len(plan)
      <4>1. log \in Seq(EventType) /\ plan \in Seq(Aggregates) /\ Command \in Commands
        BY CommandInType DEF CommitSucceeds, DurableType, WorkerType
      <4>2. Events(Command, plan) \in Seq(EventType) /\ Len(Events(Command, plan)) = Len(plan)
        BY <4>1, EventsType
      <4>3. log' = log \o Events(Command, plan)
        BY DEF CommitSucceeds, Persist
      <4>4. Len(log \o Events(Command, plan)) = Len(log) + Len(Events(Command, plan))
        BY <4>1, <4>2, ConcatProperties, Zenon
      <4> QED
        BY <4>2, <4>3, <4>4
    <3> QED
      BY <3>1, <3>2, <3>3 DEF ReplyIsDurable, Acked, Command
  <2>3. ReceiptsMatchLog' /\ OneBlockPerCommand'
    BY PersistSafe DEF CommitSucceeds
  <2>4. AckedIsDurable'
    BY PersistSafe DEF CommitSucceeds
  <2> QED
    BY <2>1, <2>2, <2>3, <2>4
<1>2. CASE CommitRollsBack
  <2> USE <1>2
  <2>1. Undecided'
    BY DEF CommitRollsBack, FailWith, Failed, Undecided
  <2>2. ReplyIsDurable'
    BY DEF CommitRollsBack, FailWith, Failed, ReplyIsDurable
  <2>3. ReceiptsMatchLog' /\ OneBlockPerCommand'
    BY LogFrame DEF CommitRollsBack, durable
  <2>4. AckedIsDurable'
    BY AckFrame DEF CommitRollsBack, durable, clients
  <2> QED
    BY <2>1, <2>2, <2>3, <2>4
<1>3. CASE CommitUnreported
  <2> USE <1>3
  <2>1. Undecided'
    BY DEF CommitUnreported, FailWith, Failed, Undecided
  <2>2. ReplyIsDurable'
    BY DEF CommitUnreported, FailWith, Failed, ReplyIsDurable
  <2>3. ReceiptsMatchLog' /\ OneBlockPerCommand'
    BY PersistSafe DEF CommitUnreported
  <2>4. AckedIsDurable'
    BY PersistSafe DEF CommitUnreported
  <2> QED
    BY <2>1, <2>2, <2>3, <2>4
<1>4. CASE Reconcile
  <2> USE <1>4
  <2>1. Undecided'
    BY DEF Reconcile, Undecided, Command
  <2>2. ReplyIsDurable'
    BY DEF Reconcile, ReplyIsDurable, Command
  <2>3. ReceiptsMatchLog' /\ OneBlockPerCommand'
    BY LogFrame DEF Reconcile, durable
  <2>4. AckedIsDurable'
    BY AckFrame DEF Reconcile, durable, clients
  <2> QED
    BY <2>1, <2>2, <2>3, <2>4
<1>5. CASE ReconcileFails
  <2> USE <1>5
  <2>1. Undecided'
    BY DEF ReconcileFails, Undecided, Command
  <2>2. ReplyIsDurable'
    BY DEF ReconcileFails, ReplyIsDurable, Command
  <2>3. ReceiptsMatchLog' /\ OneBlockPerCommand'
    BY LogFrame DEF ReconcileFails, durable
  <2>4. AckedIsDurable'
    BY AckFrame DEF ReconcileFails, durable, clients
  <2> QED
    BY <2>1, <2>2, <2>3, <2>4
<1>6. CASE PublishNext
  <2> USE <1>6
  <2>1. Undecided'
    BY DEF PublishNext, Undecided, Command
  <2>2. ReplyIsDurable'
    BY DEF PublishNext, ReplyIsDurable, Command
  <2>3. ReceiptsMatchLog' /\ OneBlockPerCommand'
    BY LogFrame DEF PublishNext, durable
  <2>4. AckedIsDurable'
    BY AckFrame DEF PublishNext, durable, clients
  <2> QED
    BY <2>1, <2>2, <2>3, <2>4
<1>7. CASE PublishDone
  <2> USE <1>7
  <2>1. Undecided'
    BY DEF PublishDone, Undecided, Command
  <2>2. ReplyIsDurable'
    BY DEF PublishDone, ReplyIsDurable, Command
  <2>3. ReceiptsMatchLog' /\ OneBlockPerCommand'
    BY LogFrame DEF PublishDone, durable
  <2>4. AckedIsDurable'
    BY AckFrame DEF PublishDone, durable, clients
  <2> QED
    BY <2>1, <2>2, <2>3, <2>4
<1>8. CASE RecordRejection
  <2> USE <1>8
  <2>1. Undecided'
    BY DEF RecordRejection, Undecided
  <2>2. ReplyIsDurable'
    BY DEF RecordRejection, ReplyIsDurable
  <2>3. ReceiptsMatchLog' /\ OneBlockPerCommand'
    <3>1. receipts[Command.id] = NoReceipt /\ Command.id \in Ids /\ log' = log
      BY CommandInType DEF RecordRejection, Undecided
    <3>2. \A i \in DOMAIN log : log[i].id # Command.id
      BY <3>1, NoReceiptNoEvent
    <3>3. \A id \in Ids : id # Command.id => receipts'[id] = receipts[id]
      BY <3>1 DEF RecordRejection, DurableType
    <3>4. receipts'[Command.id].status # "accepted"
      BY <3>1 DEF RecordRejection, DurableType, NoReceipt
    <3>5. \A i \in DOMAIN log : receipts'[log[i].id] = receipts[log[i].id]
      BY <3>2, <3>3, LogEvents
    <3>6. ReceiptsMatchLog'
      BY <3>1, <3>3, <3>4, <3>5 DEF ReceiptsMatchLog
    <3>7. OneBlockPerCommand'
      BY <3>1, <3>5 DEF OneBlockPerCommand
    <3> QED
      BY <3>6, <3>7
  <2>4. AckedIsDurable'
    BY AckFrame DEF RecordRejection, durable, clients
  <2> QED
    BY <2>1, <2>2, <2>3, <2>4
<1>9. CASE Answer
  <2> USE <1>9
  <2>1. Undecided'
    BY DEF Answer, NoReply, Undecided
  <2>2. ReplyIsDurable'
    BY DEF Answer, NoReply, ReplyIsDurable
  <2>3. ReceiptsMatchLog' /\ OneBlockPerCommand'
    BY LogFrame DEF Answer, durable
  <2>4. AckedIsDurable'
    <3>1. cur \in 1..Len(replies) /\ DOMAIN replies = 1..Len(replies)
      BY DEF Answer, QueueType, ClientsType
    <3>2. /\ DOMAIN replies' = DOMAIN replies /\ replies'[cur] = reply
          /\ \A n \in DOMAIN replies : n # cur => replies'[n] = replies[n]
      BY <3>1 DEF Answer
    <3>3. UNCHANGED <<log, dispatches>>
      BY DEF Answer
    <3> QED
      BY <3>2, <3>3 DEF AckedIsDurable, ReplyIsDurable, Command
  <2> QED
    BY <2>1, <2>2, <2>3, <2>4
<1> QED
  BY <1>1, <1>2, <1>3, <1>4, <1>5, <1>6, <1>7, <1>8, <1>9 DEF Commit, Publish

\* The invariant holds in every reachable state.
LEMMA Invariance == Spec => []IInv
<1>1. Init => IInv
  <2> SUFFICES ASSUME Init PROVE IInv
    OBVIOUS
  <2>1. TInv
    BY TypeInit
  <2>2. log = <<>> /\ replies = <<>> /\ \A id \in Ids : receipts[id] = NoReceipt
    BY DEF Init
  <2>3. Undecided /\ ReplyIsDurable
    BY DEF Init, Undecided, ReplyIsDurable, NoReply
  <2>4. ReceiptsMatchLog /\ OneBlockPerCommand /\ AckedIsDurable
    BY <2>2 DEF ReceiptsMatchLog, OneBlockPerCommand, AckedIsDurable, NoReceipt
  <2> QED
    BY <2>1, <2>3, <2>4 DEF IInv
<1>2. IInv /\ [Next]_vars => IInv'
  <2> SUFFICES ASSUME IInv, [Next]_vars PROVE IInv'
    OBVIOUS
  <2>1. CASE UNCHANGED vars
    <3>1. TInv'
      BY <2>1, TypeStep DEF IInv
    <3>2. ReceiptsMatchLog' /\ OneBlockPerCommand' /\ AckedIsDurable'
      BY <2>1, LogFrame, AckFrame DEF IInv, vars, durable, clients
    <3>3. Undecided' /\ ReplyIsDurable'
      BY <2>1 DEF IInv, Undecided, ReplyIsDurable, Command, vars, durable, worker, clients
    <3> QED
      BY <3>1, <3>2, <3>3 DEF IInv
  <2>2. CASE Next
    <3>1. TInv'
      BY <2>2, TypeStep DEF IInv
    <3> QED
      BY <2>2, <3>1, SafeProcess, SafeDecide, SafeCommit DEF Next, Worker
  <2> QED
    BY <2>1, <2>2
<1> QED
  BY <1>1, <1>2, PTL DEF Spec

----------------------------------------------------------------------------
(* What follows.                                                            *)

\* Whatever faults, retries and restarts a command meets, its events are one
\* contiguous block of the log, never part of it and never a second copy.
THEOREM CommandsAreBlocks == Spec => []OneBlockPerCommand
<1>1. IInv => OneBlockPerCommand
  BY DEF IInv
<1> QED
  BY <1>1, Invariance, PTL

\* An accepted receipt names the last event of its command, and no event lacks one.
THEOREM ReceiptsTellTheLog == Spec => []ReceiptsMatchLog
<1>1. IInv => ReceiptsMatchLog
  BY DEF IInv
<1> QED
  BY <1>1, Invariance, PTL

\* A client that was told "ok" finds the last event of its command, on the aggregate
\* it named, at the sequence it was told.
THEOREM AcksAreDurable == Spec => []AckedIsDurable
<1>1. IInv => AckedIsDurable
  BY DEF IInv
<1> QED
  BY <1>1, Invariance, PTL

\* No step rewrites a receipt: the upsert of a rejection, the only statement that
\* could, runs only for a command that has none.
THEOREM ReceiptsAreFinal == Spec => ReceiptsFinal
<1> DEFINE Kept == \A id \in Ids : receipts[id] # NoReceipt => receipts'[id] = receipts[id]
<1>1. IInv /\ [Next]_vars => [Kept]_vars
  <2> SUFFICES ASSUME IInv, Next, NEW id \in Ids, receipts[id] # NoReceipt
               PROVE  receipts'[id] = receipts[id]
    OBVIOUS
  <2>1. CASE CommitSucceeds \/ CommitUnreported
    <3>1. Persist /\ pc = "commit"
      BY <2>1 DEF CommitSucceeds, CommitUnreported
    <3>2. receipts[Command.id] = NoReceipt
      BY <3>1 DEF IInv, Undecided
    <3> QED
      BY <3>1, <3>2, PersistShape
  <2>2. CASE RecordRejection
    <3>1. receipts[Command.id] = NoReceipt
      BY <2>2 DEF RecordRejection, IInv, Undecided
    <3>2. receipts \in [Ids -> ReceiptType]
      BY DEF IInv, TInv, TypeOK, DurableType
    <3> QED
      BY <2>2, <3>1, <3>2 DEF RecordRejection
  <2>3. CASE UNCHANGED receipts
    BY <2>3
  <2>4. CommitSucceeds \/ CommitUnreported \/ RecordRejection \/ UNCHANGED receipts
    BY DEF Next, Upgrade, StartProcess, Boot, BootstrapEvent, BootstrapNext, LoadModel, Crash,
           Dispatch, Worker, Take, Lookup, LookupHit, LookupMiss, LookupFails, Decide, DecideEvents,
           DecideRejects, Commit, CommitRollsBack, Reconcile, ReconcileFails, Publish, PublishNext,
           PublishDone, Answer, durable
  <2> QED
    BY <2>1, <2>2, <2>3, <2>4
<1> QED
  BY <1>1, Invariance, PTL DEF Spec, ReceiptsFinal
============================================================================
