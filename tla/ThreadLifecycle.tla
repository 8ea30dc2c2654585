-------------------------- MODULE ThreadLifecycle --------------------------
(***************************************************************************)
(* The lifecycle of a thread: what the decider accepts (archive, settle,   *)
(* pin, turn start, session status, parked requests), what the             *)
(* projections make of it, the clean-up the socket server appends to an    *)
(* archive or a settle, the reactor that serves turn starts, stops and     *)
(* answers from a queue, the provider sessions, and the sweep of a         *)
(* restarted server.  Three readers tell from a thread's activities what   *)
(* still waits for the user: the decider, the pipeline and the sweep.      *)
(*                                                                         *)
(* A command that is accepted is one step: CommandEngine shows that        *)
(* commands are decided one at a time on the whole log.  A command that is *)
(* refused changes nothing.                                                *)
(***************************************************************************)
EXTENDS Naturals, Sequences, FiniteSets

CONSTANTS
  Threads,        \* thread ids
  Requests,       \* approval and user-input requests, each of one thread
  ThreadOf,       \* the thread of a request
  Approvals,      \* the requests that are approvals; the others are questions
  Swept,          \* the threads of the qwen provider, which the sweep looks after
  MaxIntents, MaxRestarts     \* bounds: events waiting for the reactor, restarts

ASSUME ThreadOfAssumption == ThreadOf \in [Requests -> Threads]
ASSUME ApprovalsAssumption == Approvals \subseteq Requests
ASSUME SweptAssumption == Swept \subseteq Threads
ASSUME BoundsAssumption == MaxIntents \in Nat /\ MaxRestarts \in Nat

VARIABLES
  thread,     \* the fields database rows and decider model both hold
  \* parked requests: the rows of pending approvals, what the activities of the database
  \* and of the decider say of each request, the requests with a failed answer
  approval, stored, decider, failed,
  queued,     \* whether the decider's newest user message waits for a turn, within the grace
  asked,      \* requests ever opened
  parking,    \* the socket server's archive or settle of a thread in progress
  intents,    \* events the reactor has still to handle, oldest first
  alive, held,   \* threads with a provider session; requests a provider waits on
  sweep,      \* the sweep: its phase, the threads to visit, what it read of the current
  restarts

requests == <<approval, stored, decider, failed>>
history  == <<asked, restarts>>
provider == <<alive, held>>
vars == <<thread, requests, queued, history, parking, intents, provider, sweep>>

NoRead == [thread |-> {}, close |-> {}, stop |-> FALSE]
NotParking == [stage |-> "none", kind |-> "none", live |-> FALSE]
Awake == {"starting", "running"}
Statuses == {"starting", "running", "ready", "stopped", "error"}
Fresh == [state |-> "live", archived |-> FALSE, override |-> "none",
          pinned |-> FALSE, session |-> "none", turn |-> FALSE]
Absent == [Fresh EXCEPT !.state = "absent"]
Of(t) == {r \in Requests : ThreadOf[r] = t}
\* What a list of activities says of a request.  A provider's resolution belongs to a
\* turn, as the request does; a stale answer and the sweep close it outside of any.  It
\* is open again when a revert took its resolution and left its beginning.
Readings == {"nothing", "open", "resolved", "closed", "reopened"}
AsOpen(list) == {r \in Requests : list[r] \in {"open", "reopened"}}

Exists(t) == thread[t].state # "absent"                    \* requireThread
NotArchived(t) == Exists(t) /\ ~thread[t].archived         \* requireThreadNotArchived
\* The lookups of the socket server, the reactor, the ingestion and the sweep find a
\* thread that is neither deleted nor archived.
Active(t) == thread[t].state = "live" /\ ~thread[t].archived
HasSession(t) == thread[t].session \notin {"none", "stopped"}
\* hasOpenBlockingRequest and threadHasQueuedTurnStart, on the decider's model.
Open == AsOpen(decider)
HasOpenRequest(t) == Of(t) \cap Open # {}
HasQueuedTurnStart(t) == queued[t] = "fresh" /\ thread[t].session # "error"
\* What the shell's pending flags count.
Pending ==
  {r \in Approvals : approval[r] = "pending"}
    \cup (AsOpen(stored) \ Approvals)
\* What the sweep closes: to it every failed answer has closed its request.
Dangling == AsOpen(stored) \ failed
----------------------------------------------------------------------------
Init ==
  /\ thread = [t \in Threads |-> Absent]
  /\ approval = [r \in Approvals |-> "none"]
  /\ stored = [r \in Requests |-> "nothing"] /\ decider = stored /\ failed = {}
  /\ queued = [t \in Threads |-> "no"]
  /\ asked = {}
  /\ parking = [t \in Threads |-> NotParking] /\ intents = <<>>
  /\ alive = {} /\ held = {}
  /\ sweep = [phase |-> "none", todo |-> {}, read |-> NoRead]
  /\ restarts = 0

Update(t, row) == thread' = [thread EXCEPT ![t] = row]
\* Variant: an event reaches the reactor's queue twice.
IntendTwice(i) == Len(intents) < MaxIntents /\ intents' = intents \o <<i, i>>
\* An event the reactor handles is enqueued.
Intend(i) == Len(intents) < MaxIntents /\ intents' = Append(intents, i)
----------------------------------------------------------------------------
(* Client commands on the thread's shelf state.                             *)

\* A command that only changes the row of t.
Shelf(t, row) ==
  /\ Update(t, row)
  /\ UNCHANGED <<requests, queued, history, parking, intents, provider, sweep>>

Create(t)    == ~Exists(t) /\ Shelf(t, Fresh)
Delete(t)    == Exists(t) /\ Shelf(t, [thread[t] EXCEPT !.state = "deleted"])
Unarchive(t) == Exists(t) /\ thread[t].archived
                /\ Shelf(t, [thread[t] EXCEPT !.archived = FALSE])
Unsettle(t) == NotArchived(t) /\ Shelf(t, [thread[t] EXCEPT !.override = "active"])
Unpin(t)    == NotArchived(t) /\ Shelf(t, [thread[t] EXCEPT !.pinned = FALSE])

\* Pinning promotes: a settled thread becomes active.
Pin(t) ==
  /\ NotArchived(t)
  /\ Shelf(t, [thread[t] EXCEPT !.pinned = TRUE,
                                !.override = IF @ = "settled" THEN "active" ELSE @])

Shelving(t) ==
  \/ Create(t) \/ Delete(t) \/ Unarchive(t) \/ Unsettle(t) \/ Unpin(t) \/ Pin(t)
----------------------------------------------------------------------------
(* Archive and settle as the socket server runs them: it reads whether the  *)
(* thread has a session, dispatches the command, then a session stop.       *)

ParkRead(t, kind) ==
  /\ Exists(t) /\ parking[t].stage = "none"
  /\ parking' = [parking EXCEPT ![t] = [stage |-> "read", kind |-> kind,
                                        live |-> Active(t) /\ HasSession(t)]]
  /\ UNCHANGED <<thread, requests, queued, history, intents, provider, sweep>>

\* A thread that works, waits for the user or is about to start a turn is not settled.
Settleable(t) ==
  /\ NotArchived(t) /\ thread[t].session \notin Awake
  /\ ~HasOpenRequest(t) /\ ~HasQueuedTurnStart(t)

\* After the command: the stop follows if the first read saw a session.
Parked(t, row) ==
  /\ Update(t, row)
  /\ parking' = [parking EXCEPT ![t] = IF @.live THEN [@ EXCEPT !.stage = "stop"]
                                       ELSE NotParking]
  /\ UNCHANGED <<requests, queued, history, intents, provider, sweep>>

Archive(t) ==
  /\ parking[t].stage = "read" /\ parking[t].kind = "archive" /\ NotArchived(t)
  /\ Parked(t, [thread[t] EXCEPT !.archived = TRUE])

\* Settling also unpins the thread.
Settle(t) ==
  /\ parking[t].stage = "read" /\ parking[t].kind = "settle" /\ Settleable(t)
  /\ Parked(t, [thread[t] EXCEPT !.override = "settled", !.pinned = FALSE])

\* The decider refuses, and so does the command's caller see it.
ParkRefused(t) ==
  /\ parking[t].stage = "read"
  /\ IF parking[t].kind = "settle" THEN ~Settleable(t) ELSE ~NotArchived(t)
  /\ parking' = [parking EXCEPT ![t] = NotParking]
  /\ UNCHANGED <<thread, requests, queued, history, intents, provider, sweep>>

\* thread.session.stop; after a settle only if the thread was not re-engaged.
ParkStop(t) ==
  /\ parking[t].stage = "stop"
  /\ IF /\ parking[t].kind = "settle"
        /\ \/ thread[t].override # "settled" \/ thread[t].session \in Awake
           \/ HasQueuedTurnStart(t)
     THEN UNCHANGED intents
     ELSE Intend([kind |-> "stop", of |-> t])
  /\ parking' = [parking EXCEPT ![t] = NotParking]
  /\ UNCHANGED <<thread, requests, queued, history, provider, sweep>>

\* A client's own thread.session.stop.
Stop(t) ==
  /\ Exists(t) /\ Intend([kind |-> "stop", of |-> t])
  /\ UNCHANGED <<thread, requests, queued, history, parking, provider, sweep>>

Park(t) ==
  \/ \E kind \in {"archive", "settle"} : ParkRead(t, kind)
  \/ Archive(t) \/ Settle(t) \/ ParkRefused(t) \/ ParkStop(t) \/ Stop(t)
----------------------------------------------------------------------------
(* Turns and sessions.                                                      *)

\* thread.turn.start: the user re-engages.  The message's client clock may put it
\* outside the grace window at once.
TurnStart(t) ==
  /\ Exists(t) /\ Intend([kind |-> "turn", of |-> t])
  /\ Update(t, [thread[t] EXCEPT !.override = "none"])
  /\ \E age \in {"fresh", "no"} : queued' = [queued EXCEPT ![t] = age]
  /\ UNCHANGED <<requests, history, parking, provider, sweep>>

\* The grace window of a queued message passes.
GraceEnds(t) ==
  /\ queued[t] = "fresh" /\ queued' = [queued EXCEPT ![t] = "no"]
  /\ UNCHANGED <<thread, requests, history, parking, intents, provider, sweep>>

\* A session that leaves "starting" and "running" ends the turn.
TurnAfter(t, s, turn) == s \in Awake /\ (thread[t].turn \/ turn)

\* Variant: a session coming alive leaves the override in place.
WithSessionSettled(t, s, turn) ==
  [thread[t] EXCEPT !.session = s, !.turn = TurnAfter(t, s, turn)]
\* Variant: every status write resets the override.
WithSessionAwaking(t, s, turn) ==
  [thread[t] EXCEPT !.session = s, !.turn = TurnAfter(t, s, turn), !.override = "none"]
\* thread.session.set: only a session coming alive resets the override.
WithSession(t, s, turn) ==
  [thread[t] EXCEPT !.session = s, !.turn = TurnAfter(t, s, turn),
                    !.override = IF s \in Awake THEN "none" ELSE @]

\* The beginning or end of a turn is stamped later than the queued message, unless the
\* client's clock runs ahead.
SessionSet(t, s, turn) ==
  /\ Update(t, WithSession(t, s, turn))
  /\ \E q \in IF thread[t].turn = TurnAfter(t, s, turn) THEN {queued[t]} ELSE {"no", queued[t]} :
       queued' = [queued EXCEPT ![t] = q]

\* The provider reports a status of its session, a turn it began or one that failed;
\* the ingestion ignores what concerns no active thread.
ProviderStatus(t, s, turn) ==
  /\ t \in alive /\ Active(t)
  /\ turn => s = "running"
  /\ SessionSet(t, s, turn)
  /\ UNCHANGED <<requests, history, parking, intents, provider, sweep>>

\* The session ends: by itself, for idleness, because the thread was deleted.
ProviderExits(t) ==
  /\ t \in alive
  /\ alive' = alive \ {t} /\ held' = held \ Of(t)
  /\ IF Active(t) THEN SessionSet(t, "stopped", FALSE) ELSE UNCHANGED <<thread, queued>>
  /\ UNCHANGED <<requests, history, parking, intents, sweep>>

\* The reactor starts a session, or fails to.
HandleTurn(t) ==
  /\ intents # <<>> /\ Head(intents) = [kind |-> "turn", of |-> t]
  /\ intents' = Tail(intents)
  /\ IF ~Active(t) THEN UNCHANGED <<thread, queued, alive>>
     ELSE \/ /\ alive' = alive \cup {t}
             /\ SessionSet(t, IF thread[t].session = "running" THEN "running" ELSE "starting", FALSE)
          \/ /\ UNCHANGED alive
             /\ SessionSet(t, IF thread[t].session = "stopped" THEN "stopped" ELSE "error", FALSE)
  /\ UNCHANGED <<requests, history, parking, held, sweep>>

\* The reactor stops the session of an active thread, if its row says there is one,
\* and sets the row; a stop that fails is logged.
HandleStop(t) ==
  /\ intents # <<>> /\ Head(intents) = [kind |-> "stop", of |-> t]
  /\ intents' = Tail(intents)
  /\ \/ /\ Active(t) /\ SessionSet(t, "stopped", FALSE)
        /\ IF HasSession(t) THEN alive' = alive \ {t} /\ held' = held \ Of(t)
                            ELSE UNCHANGED provider
     \/ /\ ~Active(t) \/ HasSession(t)
        /\ UNCHANGED <<thread, queued, provider>>
  /\ UNCHANGED <<requests, history, parking, sweep>>

Session(t) ==
  \/ TurnStart(t) \/ GraceEnds(t) \/ ProviderExits(t) \/ HandleTurn(t) \/ HandleStop(t)
  \/ \E s \in Statuses \ {"stopped"}, turn \in BOOLEAN : ProviderStatus(t, s, turn)
----------------------------------------------------------------------------
(* Parked requests.                                                         *)

\* "answered" and "resolved" are one status of the row; the model tells them apart.
ApprovalBecomes(r, status) ==
  approval' = IF r \in Approvals THEN [approval EXCEPT ![r] = status] ELSE approval

\* An activity {approval,user-input}.requested resets the override; the pipeline, the
\* decider's model and the stored activities each learn of the request.
RequestOpened(r) ==
  LET t == ThreadOf[r]
  IN /\ t \in alive /\ Active(t) /\ r \notin asked
     /\ Update(t, [thread[t] EXCEPT !.override = "none"])
     /\ asked' = asked \cup {r} /\ held' = held \cup {r}
     /\ stored' = [stored EXCEPT ![r] = "open"] /\ decider' = [decider EXCEPT ![r] = "open"]
     /\ ApprovalBecomes(r, "pending")
     /\ UNCHANGED <<failed, queued, restarts, parking, intents, alive, sweep>>

\* An activity that closes a request says nothing to a list that lacks its beginning.
Closing(list, r, how) ==
  [list EXCEPT ![r] = IF @ \in {"nothing", "closed"} THEN @ ELSE how]
Closed(r, how) ==
  /\ stored' = Closing(stored, r, how) /\ decider' = Closing(decider, r, how)
  /\ ApprovalBecomes(r, "resolved") /\ UNCHANGED failed

\* The provider's {approval,user-input}.resolved, recorded for an active thread.
RequestResolved(r) ==
  /\ r \in held /\ held' = held \ {r}
  /\ IF Active(ThreadOf[r]) THEN Closed(r, "resolved") ELSE UNCHANGED requests
  /\ UNCHANGED <<thread, queued, history, parking, intents, alive, sweep>>

\* The decider keeps the newest 500 activities: 500 later ones of a thread that works
\* on push a request out.
PushedOut(r) ==
  /\ ThreadOf[r] \in alive /\ Active(ThreadOf[r]) /\ decider[r] # "nothing"
  /\ decider' = [decider EXCEPT ![r] = "nothing"]
  /\ UNCHANGED <<thread, approval, stored, failed, queued, history, parking, intents,
                 provider, sweep>>

\* What a revert leaves of a request: all, its beginning, or nothing but what belongs
\* to no turn.
Left(reading) ==
  {reading, "nothing"} \cup (IF reading = "resolved" THEN {"reopened"} ELSE {})

\* thread.reverted: database and decider drop the activities of the turns that went.
\* The decider, which may lack the checkpoint of a turn that stays, may drop more; the
\* rows of pending approvals stay as they are.  The thread and its session may have
\* changed since the reactor looked.
Revert(t) ==
  /\ Exists(t) /\ thread[t].session # "none"
  /\ \E turn \in {FALSE, thread[t].turn} : Update(t, [thread[t] EXCEPT !.turn = turn])
  /\ \E now \in [Of(t) -> Readings], forgotten \in SUBSET Of(t) :
       /\ \A r \in Of(t) : now[r] \in Left(stored[r])
       /\ stored' = [r \in Requests |-> IF r \in Of(t) THEN now[r] ELSE stored[r]]
       /\ decider' = [r \in Requests |->
            IF r \notin Of(t) \/ decider[r] = "nothing" THEN decider[r]
            ELSE IF r \in forgotten THEN "nothing" ELSE now[r]]
  /\ \E age \in {"no", "fresh"} : queued' = [queued EXCEPT ![t] = age]
  /\ UNCHANGED <<approval, failed, history, parking, intents, provider, sweep>>

\* A client answers.  The pipeline resolves an approval's row at once; nothing else
\* changes until the provider confirms.
Respond(r) ==
  /\ r \in asked /\ Intend([kind |-> "answer", of |-> r])
  /\ ApprovalBecomes(r, "answered")
  /\ UNCHANGED <<thread, stored, decider, failed, queued, history, parking, provider, sweep>>

\* Variant: a failed answer closes the request for the decider and asks the user again.
HandleAnswerClosing(r) ==
  /\ intents # <<>> /\ Head(intents) = [kind |-> "answer", of |-> r]
  /\ intents' = Tail(intents)
  /\ failed' = failed \cup {r} /\ decider' = Closing(decider, r, "closed")
  /\ ApprovalBecomes(r, "pending") /\ UNCHANGED stored
  /\ UNCHANGED <<thread, queued, history, parking, provider, sweep>>
\* The reactor delivers the answer.  A request the session does not know, or a session
\* that is gone, closes it as stale; any other failure closes it for the sweep alone.
HandleAnswer(r) ==
  /\ intents # <<>> /\ Head(intents) = [kind |-> "answer", of |-> r]
  /\ intents' = Tail(intents)
  /\ \/ /\ ~Active(ThreadOf[r]) \/ (HasSession(ThreadOf[r]) /\ r \in held)
        /\ UNCHANGED requests
     \/ /\ Active(ThreadOf[r]) /\ (~HasSession(ThreadOf[r]) \/ r \notin held)
        /\ Closed(r, "closed")
     \/ /\ Active(ThreadOf[r]) /\ HasSession(ThreadOf[r])
        /\ failed' = failed \cup {r} /\ UNCHANGED <<approval, stored, decider>>
  /\ UNCHANGED <<thread, queued, history, parking, provider, sweep>>

Asking ==
  \E r \in Requests :
    RequestOpened(r) \/ RequestResolved(r) \/ PushedOut(r) \/ Respond(r) \/ HandleAnswer(r)
----------------------------------------------------------------------------
(* A restart, and the sweep that runs beside the first commands.            *)

\* Providers, queues and socket handlers die.  getCommandReadModel loads every thread
\* with no messages and no activities.
Restart ==
  /\ restarts < MaxRestarts /\ restarts' = restarts + 1
  /\ alive' = {} /\ held' = {} /\ intents' = <<>>
  /\ parking' = [t \in Threads |-> NotParking]
  /\ decider' = [r \in Requests |-> "nothing"] /\ queued' = [t \in Threads |-> "no"]
  /\ sweep' = [phase |-> "due", todo |-> {}, read |-> NoRead]
  /\ UNCHANGED <<thread, approval, stored, failed, asked>>

Sweeping(s) ==
  sweep' = s /\ UNCHANGED <<history, parking, intents, provider>>

\* listBindings: the threads that ever had a session.
SweepBegin ==
  /\ sweep.phase = "due"
  /\ Sweeping([phase |-> "on", todo |-> {t \in Swept : thread[t].session # "none"}, read |-> NoRead])
  /\ UNCHANGED <<thread, requests, queued>>

\* One read per thread, acted on by the dispatches that follow.
SweepRead(t) ==
  /\ sweep.phase = "on" /\ t \in sweep.todo /\ sweep.read = NoRead
  /\ Sweeping([sweep EXCEPT !.todo = @ \ {t},
                 !.read = IF Active(t) THEN [thread |-> {t}, close |-> Dangling \cap Of(t),
                                             stop |-> HasSession(t)] ELSE NoRead])
  /\ UNCHANGED <<thread, requests, queued>>

\* A parked request is closed with the resolved activity a provider would send.
SweepClose(r) ==
  /\ r \in sweep.read.close
  /\ Sweeping([sweep EXCEPT !.read.close = @ \ {r}])
  /\ Closed(r, "closed") /\ UNCHANGED <<thread, queued>>

\* Then the session row is set to "stopped", as the Stop handler would.
SweepStop(t) ==
  /\ t \in sweep.read.thread /\ sweep.read.close = {}
  /\ Sweeping([sweep EXCEPT !.read = NoRead])
  /\ IF sweep.read.stop THEN SessionSet(t, "stopped", FALSE) ELSE UNCHANGED <<thread, queued>>
  /\ UNCHANGED requests

SweepEnd ==
  /\ sweep.phase = "on" /\ sweep.todo = {} /\ sweep.read = NoRead
  /\ Sweeping([sweep EXCEPT !.phase = "none"])
  /\ UNCHANGED <<thread, requests, queued>>

\* A read or a dispatch fails: the rest of the sweep is skipped until the next start.
SweepFails ==
  /\ sweep.phase \in {"due", "on"}
  /\ Sweeping([phase |-> "none", todo |-> {}, read |-> NoRead])
  /\ UNCHANGED <<thread, requests, queued>>

Sweep ==
  \/ SweepBegin \/ SweepEnd \/ SweepFails
  \/ \E t \in Threads : SweepRead(t) \/ SweepStop(t)
  \/ \E r \in Requests : SweepClose(r)

Next ==
  \/ \E t \in Threads : Shelving(t) \/ Park(t) \/ Session(t) \/ Revert(t)
  \/ Asking \/ Restart \/ Sweep
Spec == Init /\ [][Next]_vars
----------------------------------------------------------------------------
ThreadType ==
  [state : {"absent", "live", "deleted"}, archived : BOOLEAN,
   override : {"none", "active", "settled"}, pinned : BOOLEAN,
   session : Statuses \cup {"none"}, turn : BOOLEAN]
IntentType == [kind : {"turn", "stop"}, of : Threads] \cup [kind : {"answer"}, of : Requests]

\* Types; and a provider waits on nothing it did not ask.
TypeOK ==
  /\ thread \in [Threads -> ThreadType]
  /\ approval \in [Approvals -> {"none", "pending", "answered", "resolved"}]
  /\ asked \subseteq Requests /\ held \subseteq asked /\ failed \subseteq Requests
  /\ stored \in [Requests -> Readings] /\ decider \in [Requests -> Readings]
  /\ queued \in [Threads -> {"no", "fresh"}]
  /\ parking \in [Threads -> [stage : {"none", "read", "stop"},
                              kind : {"none", "archive", "settle"}, live : BOOLEAN]]
  /\ intents \in Seq(IntentType) /\ Len(intents) <= MaxIntents
  /\ alive \subseteq Threads
  /\ sweep \in [phase : {"none", "due", "on"}, todo : SUBSET Threads,
                read : [thread : SUBSET Threads, close : SUBSET Requests, stop : BOOLEAN]]
  /\ restarts \in 0..MaxRestarts

\* A settled thread is neither working, nor pinned, nor does the decider know of a
\* request waiting in it, whatever order settles, pins, turns, sessions, answers,
\* reverts and restarts came in; but for one that a revert has brought back.
SettledIsQuiet ==
  \A t \in Threads : thread[t].override = "settled" =>
    /\ thread[t].session \notin Awake /\ ~thread[t].turn
    /\ ~thread[t].pinned /\ \A r \in Of(t) : decider[r] # "open"

\* Only the user, a turn start, a session coming alive or a parked request takes a
\* thread out of "settled": late status writes do not fight the user's settle.
SettleStands ==
  [][\A t \in Threads :
       thread[t].override = "settled" /\ thread'[t].override # "settled" =>
         \/ thread'[t].override = "active"
         \/ thread'[t].session \in Awake
         \/ \E r \in Of(t) : r \in asked' \ asked
         \/ Len(intents') > Len(intents)]_vars

\* Decider and shell agree on what waits for the user, in both directions.  What the
\* shell counts is open to the decider, if its activities (capped, reverted, gone with
\* a restart) still hold the request; what is open to the decider the shell counts, but
\* for an approval that is answered and not yet confirmed, or one a revert brought back.
PendingIsKnown ==
  /\ \A r \in Pending : r \in Open \/ decider[r] = "nothing"
  /\ \A r \in Open \ Pending :
       r \in Approvals /\ (approval[r] = "answered" \/ decider[r] = "reopened")

----------------------------------------------------------------------------
(* What comments of the code say, and the runs show to fail.                *)

\* "An approval or user-input request is blocked-on-you work - it must never stay
\* hidden inside a settled slim row."
NothingPendingIsSettled ==
  \A t \in Threads : thread[t].override = "settled" => Pending \cap Of(t) = {}

\* "The clearing rules MUST match [...] or settle would be rejected on threads whose
\* shell flags read as clear."
OpenIsShown == Open \subseteq Pending

\* "A request that has scrolled out of the window is one whose turn kept running, i.e.
\* it was resolved or went stale": until a restart the decider knows what is pending.
PendingIsOpen == restarts = 0 => Pending \subseteq Open

\* "A live provider session must not keep running background work after either
\* [archive or settle] lands": the stop of an archive leaves no session.
StopEndsSession ==
  [][\A t \in Threads :
       /\ intents # <<>> /\ intents' = Tail(intents) /\ Head(intents) = [kind |-> "stop", of |-> t]
       /\ thread[t].state = "live" /\ thread[t].archived
       => t \notin alive']_vars
============================================================================
