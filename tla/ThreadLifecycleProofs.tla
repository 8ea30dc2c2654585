----------------------- MODULE ThreadLifecycleProofs -----------------------
(* What holds of ThreadLifecycle for all values of its constants.           *)
EXTENDS ThreadLifecycle, TLAPS

----------------------------------------------------------------------------
(* The invariant *)

ParkType == [stage : {"none", "read", "stop"}, kind : {"none", "archive", "settle"},
             live : BOOLEAN]
ReadType == [thread : SUBSET Threads, close : SUBSET Requests, stop : BOOLEAN]
SweepType == [phase : {"none", "due", "on"}, todo : SUBSET Threads,
              read : ReadType]
ApprovalType == [Approvals -> {"none", "pending", "answered", "resolved"}]
ListType == [Requests -> Readings]
QueueType == [Threads -> {"no", "fresh"}]

\* TypeOK by the parts a step changes together.
RowsTyped == thread \in [Threads -> ThreadType] /\ queued \in QueueType
RequestsTyped ==
  /\ approval \in ApprovalType
  /\ asked \subseteq Requests /\ held \subseteq asked /\ failed \subseteq Requests
  /\ stored \in ListType /\ decider \in ListType
ParkingTyped == parking \in [Threads -> ParkType]
IntentsTyped == intents \in Seq(IntentType) /\ Len(intents) <= MaxIntents
RestTyped ==
  /\ alive \subseteq Threads /\ sweep \in SweepType /\ restarts \in 0..MaxRestarts

\* A turn is only under way in a session that works; a settled thread exists, does
\* not work and is not pinned.
RowOK(row) ==
  /\ row.turn => row.session \in Awake
  /\ row.override = "settled" =>
       row.state # "absent" /\ row.session \notin Awake /\ ~row.pinned
RowsOK == \A t \in Threads : RowOK(thread[t])

\* The decider holds no request as open in a settled thread.
QuietIn(t) == \A r \in Of(t) : decider[r] # "open"
NoneOpen == \A t \in Threads : thread[t].override = "settled" => QuietIn(t)

\* What the decider holds of a request is what the database holds of it, or nothing.
SameReading(r) == decider[r] \in {"nothing", stored[r]}
\* The row of an approval that was never closed is not resolved, that of a closed one
\* not pending.
RowFits(r) ==
  /\ stored[r] = "open" => approval[r] \in {"pending", "answered"}
  /\ stored[r] \in {"resolved", "closed"} => approval[r] # "pending"
Known == /\ \A r \in Requests : SameReading(r)
         /\ \A r \in Approvals : RowFits(r)

Typed == RowsTyped /\ RequestsTyped /\ ParkingTyped /\ IntentsTyped /\ RestTyped
IInv == Typed /\ RowsOK /\ NoneOpen /\ Known

\* A step that leaves what the readers know of requests alone.
KeepsRequests ==
  UNCHANGED <<requests, asked>> /\ held' \subseteq held
\* A step after which the decider holds nothing as open that it did not before.
OpensNothing == \A r \in Requests : decider'[r] = "open" => decider[r] = "open"
\* A step that changes no thread but `t`, and settles it only if no request is open.
TouchesOnly(t) ==
  /\ \A u \in Threads \ {t} : thread'[u] = thread[u]
  /\ thread'[t].override = "settled" =>
       thread[t].override = "settled" \/ QuietIn(t)

----------------------------------------------------------------------------
(* Rows *)

LEMMA Constants ==
  /\ ThreadOf \in [Requests -> Threads] /\ Approvals \subseteq Requests
  /\ Swept \subseteq Threads /\ MaxIntents \in Nat /\ MaxRestarts \in Nat
BY ThreadOfAssumption, ApprovalsAssumption, SweptAssumption, BoundsAssumption

LEMMA TypedIsTypeOK == Typed <=> TypeOK
BY DEF Typed, TypeOK, RowsTyped, RequestsTyped, ParkingTyped, IntentsTyped, RestTyped,
       ParkType, ReadType, SweepType, ApprovalType, ListType, QueueType

LEMMA FreshRow ==
  /\ Fresh \in ThreadType /\ RowOK(Fresh) /\ Fresh.override = "none"
  /\ Absent \in ThreadType /\ RowOK(Absent) /\ Absent.override = "none"
  /\ Absent.state = "absent"
BY DEF Fresh, Absent, ThreadType, RowOK, Awake, Statuses

\* Writing a well-formed row that is not newly settled keeps the rows well formed.
LEMMA UpdateStep ==
  ASSUME RowsTyped, RowsOK, NEW t \in Threads, NEW row \in ThreadType, RowOK(row),
         Update(t, row)
  PROVE  /\ thread' \in [Threads -> ThreadType] /\ RowsOK'
         /\ thread'[t] = row /\ \A u \in Threads \ {t} : thread'[u] = thread[u]
BY DEF RowsTyped, RowsOK, Update

LEMMA NoneOpenStep ==
  ASSUME NoneOpen, OpensNothing,
         NEW t \in Threads, TouchesOnly(t)
  PROVE  NoneOpen'
BY DEF NoneOpen, QuietIn, OpensNothing, Of, TouchesOnly

LEMMA KnownStep ==
  ASSUME Known, KeepsRequests
  PROVE  Known'
BY DEF Known, SameReading, RowFits, KeepsRequests, requests

LEMMA RequestsStep ==
  ASSUME RequestsTyped, KeepsRequests
  PROVE  RequestsTyped'
BY DEF RequestsTyped, KeepsRequests, requests

\* A session status: the turn follows it, and a session coming alive resets the
\* override.
LEMMA SessionRow ==
  ASSUME RowsTyped, RowsOK, NEW t \in Threads,
         NEW s \in Statuses, NEW turn \in BOOLEAN
  PROVE  /\ WithSession(t, s, turn) \in ThreadType /\ RowOK(WithSession(t, s, turn))
         /\ WithSession(t, s, turn).override =
              IF s \in Awake THEN "none" ELSE thread[t].override
         /\ WithSession(t, s, turn).session = s
<1> DEFINE row == thread[t]
           o == IF s \in Awake THEN "none" ELSE row.override
           u == TurnAfter(t, s, turn)
<1>1. row \in ThreadType /\ RowOK(row)
  BY DEF RowsTyped, RowsOK
<1>2. u \in BOOLEAN
  BY <1>1, Zenon DEF TurnAfter, ThreadType
<1>3. u => s \in Awake
  BY DEF TurnAfter
<1>4. WithSession(t, s, turn) =
        [row EXCEPT !.session = s, !.turn = u,
                    !.override = IF s \in Awake THEN "none" ELSE @]
  BY DEF WithSession
<1> HIDE DEF u, row
<1>5. WithSession(t, s, turn) =
        [state |-> row.state, archived |-> row.archived, override |-> o,
         pinned |-> row.pinned, session |-> s, turn |-> u]
  BY <1>1, <1>4 DEF ThreadType
<1> HIDE DEF o
<1>6. o \in {"none", "active", "settled"} /\ (o = "settled" => row.override = o /\ s \notin Awake)
  BY <1>1 DEF o, ThreadType
<1>7. WithSession(t, s, turn) \in ThreadType
  BY <1>1, <1>2, <1>5, <1>6 DEF ThreadType
<1>8. RowOK(WithSession(t, s, turn))
  BY <1>1, <1>2, <1>3, <1>5, <1>6 DEF RowOK
<1>9. QED
  BY <1>5, <1>7, <1>8 DEF o, row

LEMMA SessionSetStep ==
  ASSUME RowsTyped, RowsOK, NEW t \in Threads,
         NEW s \in Statuses, NEW turn \in BOOLEAN, SessionSet(t, s, turn)
  PROVE  /\ RowsTyped' /\ RowsOK' /\ TouchesOnly(t)
         /\ thread'[t].session = s
         /\ s \notin Awake => thread'[t].override = thread[t].override
<1> DEFINE row == WithSession(t, s, turn)
<1>1. /\ row \in ThreadType /\ RowOK(row) /\ row.session = s
      /\ row.override = IF s \in Awake THEN "none" ELSE thread[t].override
  BY SessionRow
<1>2. Update(t, row)
  BY DEF SessionSet
<1> HIDE DEF row
<1>3. /\ thread' \in [Threads -> ThreadType] /\ RowsOK'
      /\ thread'[t] = row /\ \A u \in Threads \ {t} : thread'[u] = thread[u]
  BY <1>1, <1>2, UpdateStep
<1>4. queued' \in QueueType
  <2>1. PICK q \in {"no", queued[t]} : queued' = [queued EXCEPT ![t] = q]
    BY DEF SessionSet
  <2>2. q \in {"no", "fresh", "old"}
    BY <2>1 DEF RowsTyped, QueueType
  <2>3. QED
    BY <2>1, <2>2 DEF RowsTyped, QueueType
<1>5. QED
  BY <1>1, <1>3, <1>4 DEF RowsTyped, TouchesOnly

\* What is left to show of a step that leaves the readers of requests alone.
LEMMA QuietStep ==
  ASSUME IInv, NEW t \in Threads, RowsTyped', RowsOK', TouchesOnly(t), KeepsRequests,
         ParkingTyped', IntentsTyped', RestTyped'
  PROVE  IInv'
<1>1. RequestsTyped' /\ Known'
  BY RequestsStep, KnownStep DEF IInv, Typed
<1>2. NoneOpen'
  BY NoneOpenStep DEF IInv, KeepsRequests, requests, OpensNothing
<1>3. QED
  BY <1>1, <1>2 DEF IInv, Typed

LEMMA UpdateIsStep ==
  ASSUME RowsTyped, RowsOK, NEW t \in Threads, NEW row \in ThreadType, RowOK(row),
         Update(t, row), queued' \in QueueType,
         row.override = "settled" =>
           thread[t].override = "settled" \/ QuietIn(t)
  PROVE  RowsTyped' /\ RowsOK' /\ TouchesOnly(t)
BY UpdateStep DEF RowsTyped, TouchesOnly

----------------------------------------------------------------------------
(* The shelf *)

\* The rows the client's commands write.
LEMMA ShelfRows ==
  ASSUME NEW row \in ThreadType, RowOK(row)
  PROVE  /\ \A state \in {"live", "deleted"} :
              LET new == [row EXCEPT !.state = state]
              IN  new \in ThreadType /\ RowOK(new) /\ new.override = row.override
         /\ \A archived \in BOOLEAN :
              LET new == [row EXCEPT !.archived = archived]
              IN  new \in ThreadType /\ RowOK(new) /\ new.override = row.override
         /\ \A o \in {"none", "active"} :
              LET new == [row EXCEPT !.override = o]
              IN  new \in ThreadType /\ RowOK(new) /\ new.override = o
         /\ LET new == [row EXCEPT !.pinned = FALSE]
            IN  new \in ThreadType /\ RowOK(new) /\ new.override = row.override
         /\ LET new == [row EXCEPT !.pinned = TRUE,
                                   !.override = IF @ = "settled" THEN "active" ELSE @]
            IN  new \in ThreadType /\ RowOK(new) /\ new.override # "settled"
         /\ row.state # "absent" /\ row.session \notin Awake =>
              LET new == [row EXCEPT !.override = "settled", !.pinned = FALSE]
              IN  new \in ThreadType /\ RowOK(new)
<1>1. /\ row.state \in {"absent", "live", "deleted"} /\ row.archived \in BOOLEAN
      /\ row.override \in {"none", "active", "settled"} /\ row.pinned \in BOOLEAN
      /\ row.session \in Statuses \cup {"none"} /\ row.turn \in BOOLEAN
      /\ DOMAIN row = {"state", "archived", "override", "pinned", "session", "turn"}
  BY DEF ThreadType
<1>2. QED
  BY <1>1 DEF ThreadType, RowOK

----------------------------------------------------------------------------
(* Leaving "settled" *)

\* What SettleStands accepts of a step.
Excused(t) ==
  \/ thread'[t].override = "active"
  \/ thread'[t].session \in Awake
  \/ \E r \in Of(t) : r \in asked' \ asked
  \/ Len(intents') > Len(intents)
Stands ==
  \A t \in Threads :
    thread[t].override = "settled" /\ thread'[t].override # "settled" => Excused(t)

LEMMA StandsStep ==
  ASSUME NEW t \in Threads, TouchesOnly(t),
         thread[t].override = "settled" /\ thread'[t].override # "settled" => Excused(t)
  PROVE  Stands
BY DEF Stands, TouchesOnly

LEMMA StandsSame == ASSUME thread' = thread PROVE Stands
BY DEF Stands

LEMMA ShelvingStep ==
  ASSUME IInv, NEW t \in Threads, Shelving(t)
  PROVE  IInv' /\ Stands
<1>1. RowsTyped /\ RowsOK /\ thread[t] \in ThreadType /\ RowOK(thread[t])
  BY DEF IInv, Typed, RowsTyped, RowsOK
<1>2. SUFFICES ASSUME NEW row \in ThreadType, RowOK(row), Shelf(t, row),
                      row.override = "settled" => thread[t].override = "settled",
                      thread[t].override = "settled" /\ row.override # "settled"
                        => row.override = "active"
               PROVE  IInv' /\ Stands
  <2>1. CASE Create(t)
    <3>1. thread[t].override # "settled"
      BY <1>1, <2>1 DEF Create, Exists, RowOK
    <3>2. QED
      BY <1>2, <2>1, <3>1, FreshRow DEF Create
  <2>2. CASE Delete(t)
    <3> DEFINE row == [thread[t] EXCEPT !.state = "deleted"]
    <3>1. row \in ThreadType /\ RowOK(row) /\ row.override = thread[t].override
      BY <1>1, ShelfRows
    <3>2. Shelf(t, row)
      BY <2>2 DEF Delete
    <3> HIDE DEF row
    <3>3. QED
      BY <1>2, <3>1, <3>2
  <2>3. CASE Unarchive(t)
    <3> DEFINE row == [thread[t] EXCEPT !.archived = FALSE]
    <3>1. row \in ThreadType /\ RowOK(row) /\ row.override = thread[t].override
      BY <1>1, ShelfRows
    <3>2. Shelf(t, row)
      BY <2>3 DEF Unarchive
    <3> HIDE DEF row
    <3>3. QED
      BY <1>2, <3>1, <3>2
  <2>4. CASE Unsettle(t)
    <3> DEFINE row == [thread[t] EXCEPT !.override = "active"]
    <3>1. row \in ThreadType /\ RowOK(row) /\ row.override = "active"
      BY <1>1, ShelfRows
    <3>2. Shelf(t, row)
      BY <2>4 DEF Unsettle
    <3> HIDE DEF row
    <3>3. QED
      BY <1>2, <3>1, <3>2
  <2>5. CASE Unpin(t)
    <3> DEFINE row == [thread[t] EXCEPT !.pinned = FALSE]
    <3>1. row \in ThreadType /\ RowOK(row) /\ row.override = thread[t].override
      BY <1>1, ShelfRows
    <3>2. Shelf(t, row)
      BY <2>5 DEF Unpin
    <3> HIDE DEF row
    <3>3. QED
      BY <1>2, <3>1, <3>2
  <2>6. CASE Pin(t)
    <3> DEFINE row == [thread[t] EXCEPT !.pinned = TRUE,
                         !.override = IF @ = "settled" THEN "active" ELSE @]
    <3>1. row \in ThreadType /\ RowOK(row) /\ row.override # "settled"
      BY <1>1, ShelfRows
    <3>2. thread[t].override = "settled" => row.override = "active"
      BY <1>1 DEF ThreadType
    <3>3. Shelf(t, row)
      BY <2>6 DEF Pin
    <3> HIDE DEF row
    <3>4. QED
      BY <1>2, <3>1, <3>2, <3>3
  <2>7. QED
    BY <2>1, <2>2, <2>3, <2>4, <2>5, <2>6 DEF Shelving
<1>3. /\ thread' \in [Threads -> ThreadType] /\ RowsOK'
      /\ thread'[t] = row /\ \A u \in Threads \ {t} : thread'[u] = thread[u]
  BY <1>1, <1>2, UpdateStep DEF Shelf
<1>4. TouchesOnly(t)
  BY <1>2, <1>3 DEF TouchesOnly
<1>5. RowsTyped' /\ KeepsRequests /\ ParkingTyped' /\ IntentsTyped' /\ RestTyped'
  BY <1>2, <1>3 DEF IInv, Typed, RowsTyped, Shelf, requests, history, provider,
     KeepsRequests, ParkingTyped, IntentsTyped, RestTyped
<1>6. Stands
  BY <1>2, <1>3, <1>4, StandsStep DEF Excused
<1>7. QED
  BY <1>3, <1>4, <1>5, <1>6, QuietStep

----------------------------------------------------------------------------
(* Archive and settle *)

LEMMA IntendStep ==
  ASSUME IntentsTyped, NEW i \in IntentType, Intend(i)
  PROVE  IntentsTyped' /\ Len(intents') > Len(intents)
<1>1. intents \in Seq(IntentType) /\ intents' = Append(intents, i) /\ Len(intents) < MaxIntents
  BY DEF IntentsTyped, Intend
<1>2. intents' \in Seq(IntentType) /\ Len(intents') = Len(intents) + 1
  BY <1>1
<1>3. QED
  BY <1>1, <1>2, Constants DEF IntentsTyped

LEMMA HandledStep ==
  ASSUME IntentsTyped, intents # <<>>, intents' = Tail(intents)
  PROVE  IntentsTyped'
<1>1. intents \in Seq(IntentType) /\ Len(intents) <= MaxIntents
  BY DEF IntentsTyped
<1>2. intents' \in Seq(IntentType) /\ Len(intents') = Len(intents) - 1
  BY <1>1
<1>3. Len(intents) \in Nat
  BY <1>1
<1>4. QED
  BY <1>1, <1>2, <1>3, Constants DEF IntentsTyped

LEMMA KindsOfIntents ==
  /\ \A t \in Threads : [kind |-> "stop", of |-> t] \in IntentType
                        /\ [kind |-> "turn", of |-> t] \in IntentType
  /\ \A r \in Requests : [kind |-> "answer", of |-> r] \in IntentType
BY DEF IntentType

\* A step that only moves the archive or settle of a thread, or the reactor's queue.
LEMMA BesideStep ==
  ASSUME IInv, UNCHANGED <<thread, requests, queued, history, provider, sweep>>,
         ParkingTyped', IntentsTyped'
  PROVE  IInv' /\ Stands
<1>1. RowsTyped' /\ RowsOK' /\ RequestsTyped' /\ RestTyped'
  BY DEF IInv, Typed, RowsTyped, RowsOK, RequestsTyped, RestTyped, requests, history, provider
<1>2. NoneOpen' /\ Known'
  BY DEF IInv, NoneOpen, QuietIn, Known, SameReading, RowFits, requests, history
<1>3. QED
  BY <1>1, <1>2, StandsSame DEF IInv, Typed

LEMMA NoParking == NotParking \in ParkType
BY DEF NotParking, ParkType

LEMMA ParkReadStep ==
  ASSUME IInv, NEW t \in Threads, NEW kind \in {"archive", "settle"}, ParkRead(t, kind)
  PROVE  IInv' /\ Stands
<1> DEFINE live == Active(t) /\ HasSession(t)
<1>1. live \in BOOLEAN
  BY Zenon DEF Active, HasSession
<1>2. parking' = [parking EXCEPT ![t] = [stage |-> "read", kind |-> kind, live |-> live]]
  BY DEF ParkRead
<1> HIDE DEF live
<1>3. ParkingTyped'
  BY <1>1, <1>2 DEF IInv, Typed, ParkingTyped, ParkType
<1>4. IntentsTyped'
  BY DEF ParkRead, IInv, Typed, IntentsTyped
<1>5. QED
  BY <1>3, <1>4, BesideStep DEF ParkRead

LEMMA ParkedStep ==
  ASSUME IInv, NEW t \in Threads, NEW row \in ThreadType, RowOK(row), Parked(t, row),
         row.override = "settled" =>
           thread[t].override = "settled" \/ QuietIn(t),
         thread[t].override = "settled" => row.override = "settled"
  PROVE  IInv' /\ Stands
<1>1. RowsTyped /\ RowsOK /\ queued' \in QueueType
  BY DEF IInv, Typed, RowsTyped, Parked
<1>2. RowsTyped' /\ RowsOK' /\ TouchesOnly(t) /\ thread'[t] = row
  <2>1. Update(t, row)
    BY DEF Parked
  <2>2. QED
    BY <1>1, <2>1, UpdateIsStep, UpdateStep
<1>3. ParkingTyped'
  <2>1. parking[t] \in ParkType
    BY DEF IInv, Typed, ParkingTyped
  <2>2. [parking[t] EXCEPT !.stage = "stop"] \in ParkType
    BY <2>1 DEF ParkType
  <2>3. PICK p \in ParkType : parking' = [parking EXCEPT ![t] = p]
    BY <2>2, NoParking DEF Parked
  <2>4. QED
    BY <2>3 DEF IInv, Typed, ParkingTyped
<1>4. KeepsRequests /\ IntentsTyped' /\ RestTyped'
  BY DEF IInv, Typed, Parked, requests, history, provider, KeepsRequests, IntentsTyped, RestTyped
<1>5. Stands
  BY <1>2, StandsStep
<1>6. QED
  BY <1>2, <1>3, <1>4, <1>5, QuietStep

LEMMA ArchiveStep ==
  ASSUME IInv, NEW t \in Threads, Archive(t)
  PROVE  IInv' /\ Stands
<1> DEFINE row == [thread[t] EXCEPT !.archived = TRUE]
<1>1. thread[t] \in ThreadType /\ RowOK(thread[t])
  BY DEF IInv, Typed, RowsTyped, RowsOK
<1>2. row \in ThreadType /\ RowOK(row) /\ row.override = thread[t].override
  BY <1>1, ShelfRows
<1>3. Parked(t, row)
  BY DEF Archive
<1> HIDE DEF row
<1>4. QED
  BY <1>2, <1>3, ParkedStep

LEMMA SettleStep ==
  ASSUME IInv, NEW t \in Threads, Settle(t)
  PROVE  IInv' /\ Stands
<1> DEFINE row == [thread[t] EXCEPT !.override = "settled", !.pinned = FALSE]
<1>1. thread[t] \in ThreadType /\ RowOK(thread[t])
  BY DEF IInv, Typed, RowsTyped, RowsOK
<1>2. /\ thread[t].state # "absent" /\ thread[t].session \notin Awake
      /\ QuietIn(t)
  BY DEF Settle, Settleable, NotArchived, Exists, HasOpenRequest, Open, AsOpen, QuietIn, Of
<1>3. row \in ThreadType /\ RowOK(row)
  BY <1>1, <1>2, ShelfRows
<1>4. row.override = "settled"
  BY <1>1 DEF ThreadType
<1>5. Parked(t, row)
  BY DEF Settle
<1> HIDE DEF row
<1>6. QED
  BY <1>2, <1>3, <1>4, <1>5, ParkedStep

LEMMA ParkStep ==
  ASSUME IInv, NEW t \in Threads, Park(t)
  PROVE  IInv' /\ Stands
<1>1. ParkingTyped /\ IntentsTyped
  BY DEF IInv, Typed
<1>2. ASSUME parking' = [parking EXCEPT ![t] = NotParking]  PROVE ParkingTyped'
  BY <1>1, <1>2, NoParking DEF ParkingTyped
<1>3. CASE ParkRefused(t)
  BY <1>1, <1>2, <1>3, BesideStep DEF ParkRefused, IntentsTyped
<1>4. CASE ParkStop(t)
  <2>1. IntentsTyped'
    <3>1. CASE UNCHANGED intents
      BY <1>1, <3>1 DEF IntentsTyped
    <3>2. CASE Intend([kind |-> "stop", of |-> t])
      BY <1>1, <3>2, IntendStep, KindsOfIntents
    <3>3. QED
      BY <1>4, <3>1, <3>2 DEF ParkStop
  <2>2. QED
    BY <1>2, <1>4, <2>1, BesideStep DEF ParkStop
<1>5. CASE Stop(t)
  <2>1. IntentsTyped'
    BY <1>1, <1>5, IntendStep, KindsOfIntents DEF Stop
  <2>2. ParkingTyped'
    BY <1>1, <1>5 DEF Stop, ParkingTyped
  <2>3. QED
    BY <1>5, <2>1, <2>2, BesideStep DEF Stop
<1>6. QED
  BY <1>3, <1>4, <1>5, ParkReadStep, ArchiveStep, SettleStep DEF Park

----------------------------------------------------------------------------
(* Turns and sessions *)

\* A step that writes a session status; the provider sessions and the queue may
\* change with it.
LEMMA StatusStep ==
  ASSUME IInv, NEW t \in Threads, NEW s \in Statuses, NEW turn \in BOOLEAN,
         SessionSet(t, s, turn), UNCHANGED <<requests, history, parking>>,
         held' \subseteq held, IntentsTyped', RestTyped'
  PROVE  IInv' /\ Stands
<1>1. RowsTyped /\ RowsOK
  BY DEF IInv, Typed
<1>2. /\ RowsTyped' /\ RowsOK' /\ TouchesOnly(t)
      /\ thread'[t].session = s
      /\ s \notin Awake => thread'[t].override = thread[t].override
  BY <1>1, SessionSetStep
<1>3. KeepsRequests /\ ParkingTyped'
  BY DEF IInv, Typed, requests, history, KeepsRequests, ParkingTyped
<1>4. Stands
  BY <1>2, StandsStep DEF Excused
<1>5. QED
  BY <1>2, <1>3, <1>4, QuietStep

\* The same step when it writes no status.
LEMMA NoStatusStep ==
  ASSUME IInv, UNCHANGED <<thread, queued, requests, history, parking>>,
         held' \subseteq held, IntentsTyped', RestTyped'
  PROVE  IInv' /\ Stands
<1>1. RowsTyped' /\ RowsOK' /\ ParkingTyped' /\ KeepsRequests
  BY DEF IInv, Typed, RowsTyped, RowsOK, ParkingTyped, KeepsRequests, requests, history
<1>2. RequestsTyped' /\ Known'
  BY <1>1, RequestsStep, KnownStep DEF IInv, Typed
<1>3. NoneOpen'
  BY DEF IInv, NoneOpen, QuietIn, requests
<1>4. QED
  BY <1>1, <1>2, <1>3, StandsSame DEF IInv, Typed

LEMMA TurnStartStep ==
  ASSUME IInv, NEW t \in Threads, TurnStart(t)
  PROVE  IInv' /\ Stands
<1> DEFINE row == [thread[t] EXCEPT !.override = "none"]
<1>1. /\ RowsTyped /\ RowsOK /\ thread[t] \in ThreadType /\ RowOK(thread[t])
      /\ IntentsTyped
  BY DEF IInv, Typed, RowsTyped, RowsOK
<1>2. row \in ThreadType /\ RowOK(row) /\ row.override = "none"
  BY <1>1, ShelfRows
<1>3. Update(t, row)
  BY DEF TurnStart
<1> HIDE DEF row
<1>4. queued' \in QueueType
  BY <1>1 DEF TurnStart, RowsTyped, QueueType
<1>5. RowsTyped' /\ RowsOK' /\ TouchesOnly(t)
  BY <1>1, <1>2, <1>3, <1>4, UpdateIsStep
<1>6. IntentsTyped' /\ Len(intents') > Len(intents)
  BY <1>1, IntendStep, KindsOfIntents DEF TurnStart
<1>7. KeepsRequests /\ ParkingTyped' /\ RestTyped'
  BY DEF IInv, Typed, TurnStart, requests, history, provider, KeepsRequests, ParkingTyped,
     RestTyped
<1>8. Stands
  BY <1>5, <1>6, StandsStep DEF Excused
<1>9. QED
  BY <1>5, <1>6, <1>7, <1>8, QuietStep

LEMMA GraceEndsStep ==
  ASSUME IInv, NEW t \in Threads, GraceEnds(t)
  PROVE  IInv' /\ Stands
<1>1. RowsTyped' /\ RowsOK' /\ TouchesOnly(t)
  BY DEF IInv, Typed, GraceEnds, RowsTyped, RowsOK, QueueType, TouchesOnly
<1>2. KeepsRequests /\ ParkingTyped' /\ RestTyped' /\ IntentsTyped'
  BY DEF IInv, Typed, GraceEnds, requests, history, provider, KeepsRequests, ParkingTyped,
     RestTyped, IntentsTyped
<1>3. QED
  BY <1>1, <1>2, QuietStep, StandsSame DEF GraceEnds

LEMMA ProviderStatusStep ==
  ASSUME IInv, NEW t \in Threads, NEW s \in Statuses, NEW turn \in BOOLEAN,
         ProviderStatus(t, s, turn)
  PROVE  IInv' /\ Stands
<1>1. /\ SessionSet(t, s, turn) /\ UNCHANGED <<requests, history, parking>>
      /\ held' \subseteq held
  BY DEF ProviderStatus, provider
<1>2. IntentsTyped' /\ RestTyped'
  BY DEF ProviderStatus, IInv, Typed, IntentsTyped, RestTyped, history, provider
<1>3. QED
  BY <1>1, <1>2, StatusStep

LEMMA ProviderExitsStep ==
  ASSUME IInv, NEW t \in Threads, ProviderExits(t)
  PROVE  IInv' /\ Stands
<1>1. /\ UNCHANGED <<requests, history, parking>> /\ held' \subseteq held
      /\ IntentsTyped' /\ RestTyped'
  BY DEF ProviderExits, IInv, Typed, IntentsTyped, RestTyped, history
<1>2. CASE Active(t)
  <2>1. SessionSet(t, "stopped", FALSE) /\ "stopped" \in Statuses
    BY <1>2 DEF ProviderExits, Statuses
  <2>2. QED
    BY <1>1, <2>1, StatusStep
<1>3. CASE ~Active(t)
  BY <1>1, <1>3, NoStatusStep DEF ProviderExits
<1>4. QED
  BY <1>2, <1>3

LEMMA HandleTurnStep ==
  ASSUME IInv, NEW t \in Threads, HandleTurn(t)
  PROVE  IInv' /\ Stands
<1>1. UNCHANGED <<requests, history, parking>> /\ held' \subseteq held
  BY DEF HandleTurn
<1>2. IntentsTyped'
  BY HandledStep DEF HandleTurn, IInv, Typed
<1>3. RestTyped'
  BY DEF HandleTurn, IInv, Typed, RestTyped, history
<1>4. CASE ~Active(t)
  BY <1>1, <1>2, <1>3, <1>4, NoStatusStep DEF HandleTurn
<1>5. CASE Active(t)
  <2>1. \E s \in Statuses : SessionSet(t, s, FALSE)
    BY <1>5 DEF HandleTurn, Statuses
  <2>2. QED
    BY <1>1, <1>2, <1>3, <2>1, StatusStep
<1>6. QED
  BY <1>4, <1>5

LEMMA HandleStopStep ==
  ASSUME IInv, NEW t \in Threads, HandleStop(t)
  PROVE  IInv' /\ Stands
<1>1. UNCHANGED <<requests, history, parking>> /\ held' \subseteq held
  BY DEF HandleStop, provider
<1>2. IntentsTyped'
  BY HandledStep DEF HandleStop, IInv, Typed
<1>3. RestTyped'
  BY DEF HandleStop, IInv, Typed, RestTyped, history, provider
<1>4. CASE SessionSet(t, "stopped", FALSE)
  BY <1>1, <1>2, <1>3, <1>4, StatusStep DEF Statuses
<1>5. CASE UNCHANGED <<thread, queued, provider>>
  BY <1>1, <1>2, <1>3, <1>5, NoStatusStep
<1>6. QED
  BY <1>4, <1>5 DEF HandleStop

LEMMA SessionStep ==
  ASSUME IInv, NEW t \in Threads, Session(t)
  PROVE  IInv' /\ Stands
BY TurnStartStep, GraceEndsStep, ProviderStatusStep, ProviderExitsStep, HandleTurnStep,
   HandleStopStep DEF Session

----------------------------------------------------------------------------
(* Parked requests *)

LEMMA ApprovalStep ==
  ASSUME approval \in ApprovalType, NEW r \in Requests,
         NEW status \in {"pending", "answered", "resolved"}, ApprovalBecomes(r, status)
  PROVE  /\ approval' \in ApprovalType
         /\ \A q \in Approvals : q # r => approval'[q] = approval[q]
         /\ r \in Approvals => approval'[r] = status
BY DEF ApprovalBecomes, ApprovalType

\* What the provider sends for a request, or a stale answer or the sweep for it,
\* closes it in both lists alike.
LEMMA ClosedStep ==
  ASSUME RequestsTyped, Known, NEW r \in Requests, NEW how \in {"resolved", "closed"},
         Closed(r, how), asked' = asked, held' \subseteq held
  PROVE  RequestsTyped' /\ Known' /\ OpensNothing
<1>1. /\ stored \in ListType /\ decider \in ListType /\ approval \in ApprovalType
      /\ stored' = Closing(stored, r, how) /\ decider' = Closing(decider, r, how)
      /\ ApprovalBecomes(r, "resolved") /\ failed' = failed
  BY DEF RequestsTyped, Closed
<1>2. /\ stored' \in ListType /\ decider' \in ListType
      /\ stored'[r] \in {"nothing", "closed", how}
      /\ decider'[r] \in {"nothing", "closed", how}
      /\ decider[r] = "nothing" => decider'[r] = "nothing"
      /\ decider[r] = stored[r] => decider'[r] = stored'[r]
      /\ \A q \in Requests \ {r} : stored'[q] = stored[q] /\ decider'[q] = decider[q]
  <2> DEFINE s == Closing(stored, r, how)
             d == Closing(decider, r, how)
  <2>1. /\ s \in ListType /\ s[r] \in {"nothing", "closed", how}
        /\ stored[r] = "nothing" => s[r] = "nothing"
        /\ stored[r] = "closed" => s[r] = "closed"
        /\ stored[r] \notin {"nothing", "closed"} => s[r] = how
        /\ \A q \in Requests \ {r} : s[q] = stored[q]
    <3>1. stored \in ListType
      BY <1>1
    <3>2. QED
      BY <3>1 DEF Closing, ListType, Readings
  <2>2. /\ d \in ListType /\ d[r] \in {"nothing", "closed", how}
        /\ decider[r] = "nothing" => d[r] = "nothing"
        /\ decider[r] = "closed" => d[r] = "closed"
        /\ decider[r] \notin {"nothing", "closed"} => d[r] = how
        /\ \A q \in Requests \ {r} : d[q] = decider[q]
    <3>1. decider \in ListType
      BY <1>1
    <3>2. QED
      BY <3>1 DEF Closing, ListType, Readings
  <2>3. stored' = s /\ decider' = d
    BY <1>1
  <2> HIDE DEF s, d
  <2>4. QED
    BY <2>1, <2>2, <2>3
<1>3. /\ approval' \in ApprovalType
      /\ \A q \in Approvals : q # r => approval'[q] = approval[q]
      /\ r \in Approvals => approval'[r] = "resolved"
  BY <1>1, ApprovalStep
<1>4. RequestsTyped' /\ OpensNothing
  BY <1>1, <1>2, <1>3 DEF RequestsTyped, OpensNothing
<1>5. ASSUME NEW q \in Requests  PROVE SameReading(q)'
  BY <1>2 DEF Known, SameReading
<1>6. ASSUME NEW q \in Approvals  PROVE RowFits(q)'
  BY <1>2, <1>3, Constants DEF Known, RowFits
<1>7. QED
  BY <1>4, <1>5, <1>6 DEF Known

\* A step that changes what the readers know of requests, and no thread.
LEMMA ReadersStep ==
  ASSUME IInv, UNCHANGED <<thread, queued, parking>>, RequestsTyped', Known',
         OpensNothing, IntentsTyped', RestTyped'
  PROVE  IInv' /\ Stands
<1>1. RowsTyped' /\ RowsOK' /\ ParkingTyped'
  BY DEF IInv, Typed, RowsTyped, RowsOK, ParkingTyped
<1>2. NoneOpen'
  BY DEF IInv, NoneOpen, QuietIn, Of, OpensNothing
<1>3. QED
  BY <1>1, <1>2, StandsSame DEF IInv, Typed

\* The lists after a request opened.
LEMMA OpenedLists ==
  ASSUME RequestsTyped, Known, NEW r \in Requests, RequestOpened(r)
  PROVE  RequestsTyped' /\ Known' /\ \A q \in Requests \ {r} : decider'[q] = decider[q]
<1>1. /\ stored \in ListType /\ decider \in ListType /\ approval \in ApprovalType
      /\ stored' = [stored EXCEPT ![r] = "open"] /\ decider' = [decider EXCEPT ![r] = "open"]
      /\ ApprovalBecomes(r, "pending") /\ failed' = failed
      /\ asked' = asked \cup {r} /\ held' = held \cup {r}
  BY DEF RequestsTyped, RequestOpened
<1>2. /\ stored' \in ListType /\ decider' \in ListType
      /\ stored'[r] = "open" /\ decider'[r] = "open"
      /\ \A q \in Requests \ {r} : stored'[q] = stored[q] /\ decider'[q] = decider[q]
  BY <1>1 DEF ListType, Readings
<1>3. /\ approval' \in ApprovalType
      /\ \A q \in Approvals : q # r => approval'[q] = approval[q]
      /\ r \in Approvals => approval'[r] = "pending"
  BY <1>1, ApprovalStep
<1>4. RequestsTyped'
  BY <1>1, <1>2, <1>3 DEF RequestsTyped
<1>5. ASSUME NEW q \in Requests  PROVE SameReading(q)'
  BY <1>2 DEF Known, SameReading
<1>6. ASSUME NEW q \in Approvals  PROVE RowFits(q)'
  BY <1>2, <1>3, Constants DEF Known, RowFits
<1>7. QED
  BY <1>2, <1>4, <1>5, <1>6 DEF Known

LEMMA RequestOpenedStep ==
  ASSUME IInv, NEW r \in Requests, RequestOpened(r)
  PROVE  IInv' /\ Stands
<1> DEFINE t == ThreadOf[r]
           row == [thread[t] EXCEPT !.override = "none"]
<1>1. /\ t \in Threads /\ RowsTyped /\ RowsOK /\ RequestsTyped /\ Known /\ NoneOpen
      /\ thread[t] \in ThreadType /\ RowOK(thread[t])
  BY Constants DEF IInv, Typed, RowsTyped, RowsOK
<1>2. row \in ThreadType /\ RowOK(row) /\ row.override = "none"
  BY <1>1, ShelfRows
<1>3. Update(t, row) /\ r \notin asked /\ asked' = asked \cup {r}
  BY DEF RequestOpened
<1> HIDE DEF row
<1>4. queued' \in QueueType
  BY <1>1 DEF RequestOpened, RowsTyped
<1>5. /\ RowsTyped' /\ RowsOK' /\ TouchesOnly(t) /\ thread'[t].override = "none"
      /\ \A u \in Threads \ {t} : thread'[u] = thread[u]
  BY <1>1, <1>2, <1>3, <1>4, UpdateIsStep, UpdateStep
<1>6. RequestsTyped' /\ Known' /\ \A q \in Requests \ {r} : decider'[q] = decider[q]
  BY <1>1, OpenedLists
<1>7. NoneOpen'
  <2> SUFFICES ASSUME NEW u \in Threads, thread'[u].override = "settled", NEW q \in Of(u)
               PROVE  decider'[q] # "open"
    BY DEF NoneOpen, QuietIn, Of
  <2>1. u # t
    BY <1>5
  <2>2. thread[u].override = "settled" /\ q # r
    BY <1>5, <2>1 DEF Of
  <2>3. QED
    BY <1>1, <1>6, <2>2 DEF NoneOpen, QuietIn, Of
<1>8. ParkingTyped' /\ IntentsTyped' /\ RestTyped'
  BY DEF IInv, Typed, RequestOpened, ParkingTyped, IntentsTyped, RestTyped
<1>9. Stands
  <2>1. r \in Of(t) /\ r \in asked' \ asked
    BY <1>3 DEF Of
  <2>2. QED
    BY <1>1, <1>5, <2>1, StandsStep DEF Excused
<1>10. QED
  BY <1>5, <1>6, <1>7, <1>8, <1>9 DEF IInv, Typed

LEMMA RequestResolvedStep ==
  ASSUME IInv, NEW r \in Requests, RequestResolved(r)
  PROVE  IInv' /\ Stands
<1>1. /\ UNCHANGED <<thread, queued, parking>> /\ asked' = asked /\ restarts' = restarts
      /\ held' \subseteq held
  BY DEF RequestResolved, history
<1>2. IntentsTyped' /\ RestTyped'
  BY DEF RequestResolved, IInv, Typed, IntentsTyped, RestTyped, history
<1>3. CASE Closed(r, "resolved")
  BY <1>1, <1>2, <1>3, ClosedStep, ReadersStep DEF IInv, Typed
<1>4. CASE UNCHANGED requests
  BY <1>1, <1>2, <1>4, NoStatusStep DEF RequestResolved, history
<1>5. QED
  BY <1>3, <1>4 DEF RequestResolved

LEMMA PushedOutStep ==
  ASSUME IInv, NEW r \in Requests, PushedOut(r)
  PROVE  IInv' /\ Stands
<1>1. RequestsTyped /\ Known /\ decider \in ListType
  BY DEF IInv, Typed, RequestsTyped
<1>2. /\ UNCHANGED <<thread, queued, parking>>
      /\ UNCHANGED <<approval, stored, failed, asked, held>>
      /\ decider' = [decider EXCEPT ![r] = "nothing"]
  BY DEF PushedOut, history, provider
<1>3. IntentsTyped' /\ RestTyped'
  BY DEF PushedOut, IInv, Typed, IntentsTyped, RestTyped, history, provider
<1>4. /\ decider' \in ListType
      /\ \A q \in Requests : decider'[q] \in {"nothing", decider[q]}
  BY <1>1, <1>2 DEF ListType, Readings
<1>5. RequestsTyped' /\ OpensNothing
  BY <1>1, <1>2, <1>4 DEF RequestsTyped, OpensNothing
<1>6. Known'
  BY <1>1, <1>2, <1>4 DEF Known, SameReading, RowFits
<1>7. QED
  BY <1>2, <1>3, <1>5, <1>6, ReadersStep

\* The lists after a revert: what is left of a request is in the database, and the
\* decider holds that or nothing.
LEMMA RevertedLists ==
  ASSUME RequestsTyped, Known, NEW t \in Threads,
         UNCHANGED <<approval, failed, asked, held>>,
         NEW now \in [Of(t) -> Readings], NEW forgotten \in SUBSET Of(t),
         \A r \in Of(t) : now[r] \in Left(stored[r]),
         stored' = [r \in Requests |-> IF r \in Of(t) THEN now[r] ELSE stored[r]],
         decider' = [r \in Requests |->
            IF r \notin Of(t) \/ decider[r] = "nothing" THEN decider[r]
            ELSE IF r \in forgotten THEN "nothing" ELSE now[r]]
  PROVE  RequestsTyped' /\ Known' /\ OpensNothing
<1>1. stored \in ListType /\ decider \in ListType /\ approval' = approval
  BY DEF RequestsTyped
<1>2. \A r \in Requests : stored'[r] \in Readings /\ decider'[r] \in Readings
  BY <1>1 DEF ListType, Readings
<1>3. stored' \in ListType /\ decider' \in ListType
  BY <1>2 DEF ListType
<1>4. \A r \in Requests : decider'[r] \in {"nothing", stored'[r]}
  BY DEF Known, SameReading
<1>5. \A r \in Requests : stored'[r] \in Left(stored[r])
  BY DEF Left
<1>6. \A r \in Requests :
        /\ stored'[r] = "open" => stored[r] = "open"
        /\ stored'[r] \in {"resolved", "closed"} => stored[r] = stored'[r]
  BY <1>5 DEF Left
<1>7. RequestsTyped'
  BY <1>1, <1>3 DEF RequestsTyped
<1>8. Known'
  BY <1>1, <1>4, <1>6, Constants DEF Known, SameReading, RowFits
<1>9. ASSUME NEW r \in Requests, decider'[r] = "open"  PROVE decider[r] = "open"
  <2>1. decider[r] # "nothing" /\ stored'[r] = "open"
    BY <1>4, <1>9
  <2>2. QED
    BY <1>6, <2>1 DEF Known, SameReading
<1>10. QED
  BY <1>7, <1>8, <1>9 DEF OpensNothing

LEMMA RevertStep ==
  ASSUME IInv, NEW t \in Threads, Revert(t)
  PROVE  IInv' /\ Stands
<1>1. /\ RowsTyped /\ RowsOK /\ NoneOpen /\ RequestsTyped /\ Known
      /\ thread[t] \in ThreadType /\ RowOK(thread[t])
  BY DEF IInv, Typed, RowsTyped, RowsOK
<1>2. PICK turn \in {FALSE, thread[t].turn} : Update(t, [thread[t] EXCEPT !.turn = turn])
  BY DEF Revert
<1> DEFINE row == [thread[t] EXCEPT !.turn = turn]
<1>3. row \in ThreadType /\ row.override = thread[t].override /\ RowOK(row)
  BY <1>1, <1>2 DEF ThreadType, RowOK
<1>4. Update(t, row)
  BY <1>2
<1> HIDE DEF row
<1>5. PICK age \in {"no", "fresh"} : queued' = [queued EXCEPT ![t] = age]
  BY DEF Revert
<1>6. queued' \in QueueType
  BY <1>1, <1>5 DEF RowsTyped, QueueType
<1>7. RowsTyped' /\ RowsOK' /\ TouchesOnly(t) /\ thread'[t] = row
  BY <1>1, <1>3, <1>4, <1>6, UpdateIsStep, UpdateStep
<1>8. UNCHANGED <<approval, failed, asked, held>>
  BY DEF Revert, history, provider
<1>9. RequestsTyped' /\ Known' /\ OpensNothing
  <2>1. PICK now \in [Of(t) -> Readings], forgotten \in SUBSET Of(t) :
          /\ \A r \in Of(t) : now[r] \in Left(stored[r])
          /\ stored' = [r \in Requests |-> IF r \in Of(t) THEN now[r] ELSE stored[r]]
          /\ decider' = [r \in Requests |->
               IF r \notin Of(t) \/ decider[r] = "nothing" THEN decider[r]
               ELSE IF r \in forgotten THEN "nothing" ELSE now[r]]
    BY DEF Revert
  <2>2. QED
    BY <1>1, <1>8, <2>1, RevertedLists
<1>10. NoneOpen'
  BY <1>1, <1>7, <1>9, NoneOpenStep
<1>11. ParkingTyped' /\ IntentsTyped' /\ RestTyped'
  BY DEF IInv, Typed, Revert, history, provider, ParkingTyped, IntentsTyped, RestTyped
<1>12. Stands
  BY <1>3, <1>7, StandsStep
<1>13. QED
  BY <1>7, <1>9, <1>10, <1>11, <1>12 DEF IInv, Typed

LEMMA RespondStep ==
  ASSUME IInv, NEW r \in Requests, Respond(r)
  PROVE  IInv' /\ Stands
<1>1. RequestsTyped /\ Known /\ approval \in ApprovalType
  BY DEF IInv, Typed, RequestsTyped
<1>2. /\ UNCHANGED <<thread, queued, parking>>
      /\ UNCHANGED <<stored, decider, failed, asked, held>>
      /\ ApprovalBecomes(r, "answered")
  BY DEF Respond, history, provider
<1>3. IntentsTyped' /\ RestTyped'
  BY IntendStep, KindsOfIntents DEF Respond, IInv, Typed, RestTyped, provider, history
<1>4. /\ approval' \in ApprovalType
      /\ \A q \in Approvals : q # r => approval'[q] = approval[q]
      /\ r \in Approvals => approval'[r] = "answered"
  BY <1>1, <1>2, ApprovalStep
<1>5. RequestsTyped' /\ OpensNothing
  BY <1>1, <1>2, <1>4 DEF RequestsTyped, OpensNothing
<1>6. Known'
  BY <1>1, <1>2, <1>4 DEF Known, SameReading, RowFits
<1>7. QED
  BY <1>2, <1>3, <1>5, <1>6, ReadersStep

LEMMA HandleAnswerStep ==
  ASSUME IInv, NEW r \in Requests, HandleAnswer(r)
  PROVE  IInv' /\ Stands
<1>1. /\ UNCHANGED <<thread, queued, parking>> /\ asked' = asked /\ restarts' = restarts
      /\ held' \subseteq held
  BY DEF HandleAnswer, history, provider
<1>2. IntentsTyped'
  BY HandledStep DEF HandleAnswer, IInv, Typed
<1>3. RestTyped'
  BY DEF HandleAnswer, IInv, Typed, RestTyped, history, provider
<1>4. CASE UNCHANGED requests
  BY <1>1, <1>2, <1>3, <1>4, NoStatusStep DEF HandleAnswer
<1>5. CASE Closed(r, "closed")
  BY <1>1, <1>2, <1>3, <1>5, ClosedStep, ReadersStep DEF IInv, Typed
<1>6. CASE failed' = failed \cup {r} /\ UNCHANGED <<approval, stored, decider>>
  <2>1. RequestsTyped' /\ Known' /\ OpensNothing
    BY <1>1, <1>6 DEF IInv, Typed, RequestsTyped, Known, SameReading, RowFits, OpensNothing
  <2>2. QED
    BY <1>1, <1>2, <1>3, <2>1, ReadersStep
<1>7. QED
  BY <1>4, <1>5, <1>6 DEF HandleAnswer

----------------------------------------------------------------------------
(* Restart and sweep *)

LEMMA RestartStep ==
  ASSUME IInv, Restart
  PROVE  IInv' /\ Stands
<1>1. RowsTyped' /\ RowsOK' /\ ParkingTyped'
  BY NoParking DEF IInv, Typed, Restart, RowsTyped, RowsOK, QueueType, ParkingTyped
<1>2. RequestsTyped' /\ IntentsTyped'
  <2>1. decider' \in ListType
    BY DEF Restart, ListType, Readings
  <2>2. QED
    BY <2>1, Constants DEF IInv, Typed, Restart, RequestsTyped, IntentsTyped
<1>3. RestTyped'
  <2>1. NoRead \in ReadType
    BY DEF NoRead, ReadType
  <2>2. sweep' \in SweepType
    BY <2>1 DEF Restart, SweepType
  <2>3. restarts' \in 0..MaxRestarts
    BY Constants DEF IInv, Typed, Restart, RestTyped
  <2>4. QED
    BY <2>2, <2>3 DEF Restart, RestTyped
<1>4. NoneOpen' /\ Known'
  BY DEF IInv, Restart, NoneOpen, QuietIn, Of, Known, SameReading, RowFits
<1>5. QED
  BY <1>1, <1>2, <1>3, <1>4, StandsSame DEF IInv, Typed, Restart

\* What every step of the sweep leaves alone.
LEMMA SweepingStep ==
  ASSUME IInv, NEW s \in SweepType, Sweeping(s)
  PROVE  /\ UNCHANGED <<asked, restarts, parking, intents, provider>>
         /\ held' \subseteq held /\ IntentsTyped' /\ RestTyped'
BY DEF IInv, Typed, Sweeping, IntentsTyped, RestTyped, provider, history

LEMMA SweepIdleStep ==
  ASSUME IInv, NEW s \in SweepType, Sweeping(s), UNCHANGED <<thread, requests, queued>>
  PROVE  IInv' /\ Stands
BY SweepingStep, NoStatusStep DEF history

LEMMA SweepRows ==
  /\ NoRead \in ReadType
  /\ \A phase \in {"none", "due", "on"}, todo \in SUBSET Threads :
       [phase |-> phase, todo |-> todo, read |-> NoRead] \in SweepType
  /\ \A s \in SweepType :
       /\ s.phase \in {"none", "due", "on"}
       /\ s.todo \subseteq Threads /\ s.read \in ReadType
       /\ \A phase \in {"none", "due", "on"} :
            [s EXCEPT !.phase = phase] \in SweepType
       /\ \A read \in ReadType : [s EXCEPT !.read = read] \in SweepType
       /\ \A read \in ReadType, todo \in SUBSET Threads :
            [s EXCEPT !.todo = todo, !.read = read] \in SweepType
BY DEF NoRead, ReadType, SweepType

LEMMA SweepReadStep ==
  ASSUME IInv, NEW t \in Threads, SweepRead(t)
  PROVE  IInv' /\ Stands
<1> DEFINE read == IF Active(t) THEN [thread |-> {t}, close |-> Dangling \cap Of(t),
                                      stop |-> HasSession(t)] ELSE NoRead
           todo == sweep.todo \ {t}
<1>1. HasSession(t) \in BOOLEAN /\ Dangling \cap Of(t) \subseteq Requests
  BY DEF HasSession, Of
<1>2. read \in ReadType
  BY <1>1, SweepRows DEF ReadType
<1>3. sweep \in SweepType
  BY DEF IInv, Typed, RestTyped
<1>4. todo \in SUBSET Threads
  BY <1>3, SweepRows
<1>5. Sweeping([sweep EXCEPT !.todo = todo, !.read = read])
  BY DEF SweepRead
<1> HIDE DEF read, todo
<1>6. [sweep EXCEPT !.todo = todo, !.read = read] \in SweepType
  BY <1>2, <1>3, <1>4, SweepRows
<1>7. QED
  BY <1>5, <1>6, SweepIdleStep DEF SweepRead

LEMMA SweepCloseStep ==
  ASSUME IInv, NEW r \in Requests, SweepClose(r)
  PROVE  IInv' /\ Stands
<1> DEFINE s == [sweep EXCEPT !.read.close = @ \ {r}]
<1>1. sweep \in SweepType
  BY DEF IInv, Typed, RestTyped
<1>2. s \in SweepType
  BY <1>1 DEF SweepType, ReadType
<1>3. Sweeping(s)
  BY DEF SweepClose
<1> HIDE DEF s
<1>4. /\ UNCHANGED <<asked, restarts, parking, intents, provider>>
      /\ held' \subseteq held /\ IntentsTyped' /\ RestTyped'
  BY <1>2, <1>3, SweepingStep
<1>5. RequestsTyped' /\ Known' /\ OpensNothing
  BY <1>4, ClosedStep DEF IInv, Typed, SweepClose
<1>6. QED
  BY <1>4, <1>5, ReadersStep DEF SweepClose

LEMMA SweepStopStep ==
  ASSUME IInv, NEW t \in Threads, SweepStop(t)
  PROVE  IInv' /\ Stands
<1> DEFINE s == [sweep EXCEPT !.read = NoRead]
<1>1. s \in SweepType
  BY SweepRows DEF IInv, Typed, RestTyped
<1>2. Sweeping(s) /\ UNCHANGED requests
  BY DEF SweepStop
<1> HIDE DEF s
<1>3. /\ UNCHANGED <<asked, restarts, parking, intents, provider>>
      /\ held' \subseteq held /\ IntentsTyped' /\ RestTyped'
  BY <1>1, <1>2, SweepingStep
<1>4. CASE SessionSet(t, "stopped", FALSE)
  BY <1>2, <1>3, <1>4, StatusStep DEF Statuses, history
<1>5. CASE UNCHANGED <<thread, queued>>
  BY <1>2, <1>3, <1>5, NoStatusStep DEF history
<1>6. QED
  BY <1>4, <1>5 DEF SweepStop

LEMMA SweepStep ==
  ASSUME IInv, Sweep
  PROVE  IInv' /\ Stands
<1>1. sweep \in SweepType
  BY DEF IInv, Typed, RestTyped
<1>2. CASE SweepBegin
  <2> DEFINE todo == {t \in Swept : thread[t].session # "none"}
  <2>1. todo \in SUBSET Threads
    BY Constants
  <2>2. Sweeping([phase |-> "on", todo |-> todo, read |-> NoRead])
    BY <1>2 DEF SweepBegin
  <2> HIDE DEF todo
  <2>3. [phase |-> "on", todo |-> todo, read |-> NoRead] \in SweepType
    BY <2>1, SweepRows
  <2>4. QED
    BY <1>2, <2>2, <2>3, SweepIdleStep DEF SweepBegin
<1>3. CASE SweepEnd
  BY <1>1, <1>3, SweepRows, SweepIdleStep DEF SweepEnd
<1>4. CASE SweepFails
  BY <1>4, SweepRows, SweepIdleStep DEF SweepFails
<1>5. QED
  BY <1>2, <1>3, <1>4, SweepReadStep, SweepStopStep, SweepCloseStep DEF Sweep

----------------------------------------------------------------------------
(* Theorems *)

LEMMA InitSteps == Init => IInv
<1> SUFFICES ASSUME Init PROVE IInv
  OBVIOUS
<1>1. RowsTyped /\ RowsOK /\ NoneOpen
  BY FreshRow DEF Init, RowsTyped, RowsOK, NoneOpen, QueueType
<1>2. RequestsTyped /\ Known
  BY Constants
     DEF Init, RequestsTyped, ApprovalType, ListType, Readings, Known, SameReading, RowFits
<1>3. ParkingTyped /\ IntentsTyped
  BY NoParking, Constants DEF Init, ParkingTyped, IntentsTyped
<1>4. RestTyped
  <2>1. sweep \in SweepType
    BY SweepRows, Zenon DEF Init
  <2>2. restarts \in 0..MaxRestarts
    BY Constants DEF Init
  <2>3. QED
    BY <2>1, <2>2 DEF Init, RestTyped
<1>5. QED
  BY <1>1, <1>2, <1>3, <1>4 DEF IInv, Typed

LEMMA NextSteps == IInv /\ [Next]_vars => IInv' /\ Stands
<1> SUFFICES ASSUME IInv, [Next]_vars PROVE IInv' /\ Stands
  OBVIOUS
<1>1. CASE UNCHANGED vars
  BY <1>1, NoStatusStep DEF vars, history, provider, IInv, Typed, IntentsTyped, RestTyped
<1>2. CASE \E t \in Threads : Shelving(t) \/ Park(t) \/ Session(t) \/ Revert(t)
  BY <1>2, ShelvingStep, ParkStep, SessionStep, RevertStep
<1>3. CASE Asking
  BY <1>3, RequestOpenedStep, RequestResolvedStep, PushedOutStep, RespondStep,
     HandleAnswerStep DEF Asking
<1>4. QED
  BY <1>1, <1>2, <1>3, RestartStep, SweepStep DEF Next

LEMMA Inductive == Spec => []IInv
<1>1. Init => IInv
  BY InitSteps
<1>2. IInv /\ [Next]_vars => IInv'
  BY NextSteps
<1>3. QED
  BY <1>1, <1>2, PTL DEF Spec

\* Every variable keeps the type the code gives it, and a provider waits on nothing
\* it did not ask.
THEOREM TypeCorrect == Spec => []TypeOK
<1>1. IInv => TypeOK
  BY TypedIsTypeOK DEF IInv
<1>2. QED
  BY <1>1, Inductive, PTL

\* A settled thread is neither working, nor pinned, nor does the decider know of a
\* request waiting in it, whatever order settles, pins, turns, sessions, answers,
\* reverts, restarts and sweeps come in; but for one that a revert has brought back.
THEOREM SettledThreadsAreQuiet == Spec => []SettledIsQuiet
<1>1. IInv => SettledIsQuiet
  BY DEF IInv, RowsOK, RowOK, NoneOpen, QuietIn, SettledIsQuiet
<1>2. QED
  BY <1>1, Inductive, PTL

\* Only the user, a turn start, a session coming alive or a parked request takes a
\* thread out of "settled".
THEOREM SettlesStand == Spec => SettleStands
<1>1. IInv /\ [Next]_vars =>
        [\A t \in Threads :
           thread[t].override = "settled" /\ thread'[t].override # "settled" =>
             \/ thread'[t].override = "active"
             \/ thread'[t].session \in Awake
             \/ \E r \in Of(t) : r \in asked' \ asked
             \/ Len(intents') > Len(intents)]_vars
  BY NextSteps DEF Stands, Excused
<1>2. QED
  BY <1>1, Inductive, PTL DEF Spec, SettleStands

\* What the shell counts as waiting is open to the decider if its activities still hold
\* the request; what is open to the decider the shell counts, but for an approval that is
\* answered and not yet confirmed, or one that a revert brought back.
THEOREM PendingIsKnownToTheDecider == Spec => []PendingIsKnown
<1>1. ASSUME IInv  PROVE PendingIsKnown
  <2>1. Known /\ approval \in ApprovalType /\ stored \in ListType /\ decider \in ListType
    BY <1>1 DEF IInv, Typed, RequestsTyped
  <2>2. ASSUME NEW r \in Pending  PROVE r \in Open \/ decider[r] = "nothing"
    <3>1. r \in Requests /\ decider[r] \in {"nothing", stored[r]}
      BY <2>1, Constants DEF Pending, AsOpen, Known, SameReading
    <3>2. CASE r \in Approvals /\ approval[r] = "pending"
      <4>1. stored[r] \in Readings \ {"resolved", "closed"}
        BY <2>1, <3>1, <3>2 DEF Known, RowFits, ListType
      <4>2. QED
        BY <3>1, <4>1 DEF Open, AsOpen, Readings
    <3>3. CASE r \in AsOpen(stored)
      BY <3>1, <3>3 DEF Open, AsOpen
    <3>4. QED
      BY <3>2, <3>3 DEF Pending
  <2>3. ASSUME NEW r \in Open \ Pending
        PROVE  r \in Approvals /\ (approval[r] = "answered" \/ decider[r] = "reopened")
    <3>1. /\ r \in Requests /\ decider[r] \in {"open", "reopened"}
          /\ stored[r] = decider[r]
      BY <2>1 DEF Open, AsOpen, Known, SameReading
    <3>2. r \in Approvals /\ approval[r] # "pending"
      BY <2>3, <3>1 DEF Pending, AsOpen
    <3>3. QED
      BY <2>1, <3>1, <3>2 DEF Known, RowFits
  <2>4. QED
    BY <2>2, <2>3 DEF PendingIsKnown
<1>2. QED
  BY <1>1, Inductive, PTL
============================================================================
