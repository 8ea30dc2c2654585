----------------------------- MODULE ThreadFeed -----------------------------
(* One thread as a client shows it, and the subscription that keeps it true. *)
(*                                                                           *)
(* The server commits events, publishes them afterwards, and answers a       *)
(* subscription either with the events after the client's cursor or with a   *)
(* snapshot; events published meanwhile wait in a buffer behind a marker.    *)
(* The client folds what it is sent into the thread it holds, drops what it  *)
(* has seen by sequence, fetches older turns over HTTP beside the stream,    *)
(* saves what it holds and starts from the save when the view is reopened.   *)
(*                                                                           *)
(* A turn is named by the sequence of the event that opened it, and its text *)
(* is the sequence of events folded into it: a lost, repeated or swapped     *)
(* event is a different text.                                                *)
EXTENDS Integers, Sequences, FiniteSetsExt, Functions

CONSTANTS
  InitialLogs,      \* the event logs a run may start from
  MaxEvents,        \* bound: events in the log
  MaxGap,           \* THREAD_RESUME_MAX_GAP
  Window,           \* turns in one page (INITIAL_THREAD_USER_TURN_LIMIT)
  Servers,          \* the capabilities a connection may meet
  MaxSubscriptions, \* bound: connections and foreground resubscriptions
  MaxViews          \* bound: times the view is opened

ASSUME FeedAssumption ==
  /\ MaxEvents \in Nat /\ MaxGap \in Nat /\ Window \in Nat \ {0}
  /\ Servers \subseteq [marker: BOOLEAN, paging: BOOLEAN]
  /\ MaxSubscriptions \in Nat /\ MaxViews \in Nat

VARIABLES
  log,        \* the event store: [kind, of] records, numbered from 1
  published,  \* how many of them the engine has published
  conn,       \* the connection: phase and the server it reaches
  sub,        \* the server's side of the subscription
  wire,       \* items sent and not yet applied
  cl,         \* the client's view of the thread
  cache,      \* the snapshot on the client's disk
  used,       \* the bounds spent: subscriptions and views
  unheard     \* history: events published to a subscription that did not listen

vars == <<log, published, conn, sub, wire, cl, cache, used, unheard>>

-----------------------------------------------------------------------------
(* Threads and their events *)

\* What the subscription delivers, of all the events of the thread.
Detail == {"turn", "delta", "reverted"}

\* A thread: the texts of its turns.
EmptyThread == [t \in {} |-> <<>>]

\* The thread in which turn `t` has this text.
Put(thread, t, text) ==
  [u \in DOMAIN thread \cup {t} |-> IF u = t THEN text ELSE thread[u]]

\* The reducer: `s` is the sequence of event `e`.
Reduce(thread, s, e) ==
  CASE e.kind = "turn" -> Put(thread, s, <<s>>)
    [] e.kind = "delta" ->
         Put(thread, e.of,
             IF e.of \in DOMAIN thread THEN Append(thread[e.of], s) ELSE <<s>>)
    [] e.kind = "reverted" -> Restrict(thread, {t \in DOMAIN thread : t <= e.of})
    [] OTHER -> thread

\* The thread after the first `n` events of a log.
ThreadOf(events, n) ==
  LET after[m \in 0 .. n] ==
        IF m = 0 THEN EmptyThread ELSE Reduce(after[m - 1], m, events[m])
  IN  after[n]

ThreadAt(n) == ThreadOf(log, n)

\* After `n` events turn `t` may be sent a delta, be it the newest or not.
Streams(events, t, n) == t \in DOMAIN ThreadOf(events, n)

Kinds == {"other", "created", "turn", "delta", "reverted", "deleted"}

\* What the initial logs are taken to be.
Orderly(events) ==
  /\ events \in Seq([kind: Kinds, of: 0 .. MaxEvents]) /\ Len(events) <= MaxEvents
  /\ \A s \in DOMAIN events :
       events[s].kind = "delta" => Streams(events, events[s].of, s - 1)

ASSUME LogAssumption == \A events \in InitialLogs : Orderly(events)

Happened(kind, n) == \E i \in 1 .. n : log[i].kind = kind
Exists(n) == Happened("created", n) /\ ~Happened("deleted", n)

\* The last event of the thread, of the kinds a subscription delivers.
Watermark(n) == Max({0} \cup {i \in 1 .. n : log[i].kind \in Detail})

\* The members of a set of numbers up to `n`, in their order.
Ascending(S, n) ==
  LET upto[m \in 0 .. n] ==
        IF m = 0 THEN <<>>
        ELSE IF m \in S THEN Append(upto[m - 1], m) ELSE upto[m - 1]
  IN  upto[n]

-----------------------------------------------------------------------------
(* Snapshots *)

NoPage == [windowed |-> FALSE, cursor |-> 0, more |-> FALSE, loading |-> FALSE]
NoSnapshot ==
  [seq |-> 0, thread |-> EmptyThread, page |-> NoPage, watermark |-> 0]

\* listTurnWindowRows: the newest `Window` turns before `cursor` (0: before none).
TurnWindow(thread, cursor) ==
  LET before == {t \in DOMAIN thread : cursor = 0 \/ t < cursor}
      shown  == {t \in before : Cardinality({u \in before : u >= t}) <= Window}
      more   == before # shown
  IN  [thread |-> Restrict(thread, shown),
       page   |-> [windowed |-> TRUE, loading |-> FALSE, more |-> more,
                   cursor |-> IF more THEN Min(shown) ELSE 0]]

\* Variant: a page is held back until the view has seen the whole store.
PageOfStore(cursor) ==
  LET n      == Len(log)
      window == TurnWindow(ThreadAt(n), cursor)
  IN  [seq |-> n, watermark |-> n, thread |-> window.thread, page |-> window.page]

\* A page is read in one transaction with the sequence the projections have
\* reached and the thread's own watermark.
Page(cursor) ==
  LET n      == Len(log)
      window == TurnWindow(ThreadAt(n), cursor)
  IN  [seq |-> n, watermark |-> Watermark(n),
       thread |-> window.thread, page |-> window.page]

Whole ==
  [NoSnapshot EXCEPT !.seq = Len(log), !.thread = ThreadAt(Len(log))]

\* getThreadDetailSnapshot as a server with these capabilities serves it first.
FirstPage(server) == IF server.paging THEN Page(0) ELSE Whole

-----------------------------------------------------------------------------
(* The client's state machine: operators on the record `cl` *)

NoFetch == [phase |-> "none", cursor |-> 0, fresh |-> TRUE, snapshot |-> NoSnapshot]
NoParked == [on |-> FALSE, fresh |-> TRUE, snapshot |-> NoSnapshot]

StatusWithoutLiveData(c) == IF c.has THEN "cached" ELSE "empty"

SetSynchronizing(c) == [c EXCEPT !.status = "synchronizing"]
SetReady(c) == IF c.status = "live" THEN c ELSE SetSynchronizing(c)
SetDisconnected(c) ==
  [c EXCEPT !.awaiting = FALSE, !.paging = FALSE,
            !.status = StatusWithoutLiveData(c)]
SetStreamError(c) ==
  [c EXCEPT !.awaiting = FALSE, !.status = StatusWithoutLiveData(c),
            !.phase = "failed"]

\* historyEpoch: what was fetched before this point is not merged after it.
BumpEpoch(c) == [c EXCEPT !.asked.fresh = FALSE, !.parked.fresh = FALSE]

\* Variant: the boundary of the window is not saved with its content.
PersistRows(c) ==
  [c EXCEPT !.saving = [NoSnapshot EXCEPT !.seq = c.seq, !.thread = c.thread]]

\* What is offered to the sliding queue the debounced save takes from.
Persist(c) ==
  [c EXCEPT !.saving = [NoSnapshot EXCEPT
     !.seq = c.seq, !.thread = c.thread,
     !.page = [c.page EXCEPT !.loading = FALSE]]]

SetThread(c, thread, page) ==
  Persist([c EXCEPT !.has = TRUE, !.thread = thread, !.page = page,
                    !.status = IF c.awaiting THEN "synchronizing" ELSE "live"])

\* Rows the view already shows win over the page's.
MergeRows(shown, older) ==
  [t \in DOMAIN shown \cup DOMAIN older |->
     IF t \in DOMAIN shown THEN shown[t] ELSE older[t]]

MergeOlderPage(c, snapshot) ==
  IF ~c.has THEN c
  ELSE Persist([c EXCEPT !.thread = MergeRows(c.thread, snapshot.thread),
                         !.page = snapshot.page])

TryMergePending(c) ==
  IF ~c.parked.on THEN c
  ELSE IF ~c.parked.fresh
       THEN [c EXCEPT !.parked = NoParked, !.page.loading = FALSE]
  ELSE IF c.parked.snapshot.watermark > c.seq THEN c
  ELSE MergeOlderPage([c EXCEPT !.parked = NoParked], c.parked.snapshot)

ApplySnapshot(c, snapshot) ==
  SetThread([BumpEpoch(c) EXCEPT !.seq = snapshot.seq],
            snapshot.thread, snapshot.page)

ApplyEvent(c, s) ==
  IF s <= c.seq THEN c
  ELSE LET seen    == [c EXCEPT !.seq = s]
           current == IF log[s].kind = "reverted" THEN BumpEpoch(seen) ELSE seen
       IN  IF ~c.has THEN seen
           ELSE TryMergePending(
                  SetThread(current, Reduce(c.thread, s, log[s]), c.page))

ApplyMarker(c) ==
  [c EXCEPT !.awaiting = FALSE, !.status = IF c.has THEN "live" ELSE @]

ApplyItem(c, item) ==
  CASE item.kind = "synchronized" -> ApplyMarker(c)
    [] item.kind = "snapshot" -> ApplySnapshot(c, item.snapshot)
    [] item.kind = "event" -> ApplyEvent(c, item.seq)

\* Variant: a view that resumes does not wait for the marker.
BeginLive(c, server) ==
  [SetSynchronizing(c) EXCEPT !.paging = server.paging, !.phase = "loading",
                              !.awaiting = server.marker /\ ~c.has]

\* The first half of makeSubscribeInput, up to the HTTP load: a windowed view
\* on a server that serves no pages is dropped.
Begin(c, server) ==
  LET told == [SetSynchronizing(c) EXCEPT !.paging = server.paging,
                                          !.awaiting = server.marker]
      kept == IF ~server.paging /\ c.page.windowed
              THEN [BumpEpoch(told) EXCEPT !.has = FALSE, !.seq = 0,
                      !.thread = EmptyThread, !.page = NoPage, !.status = "empty"]
              ELSE told
  IN  [kept EXCEPT !.phase = "loading"]

\* The second half: without a marker to wait for, a resuming view is live.
Ask(c, server) ==
  [c EXCEPT !.phase = "subscribed",
            !.status = IF ~server.marker /\ c.has THEN "live" ELSE @]

-----------------------------------------------------------------------------
(* Events *)

\* What the engine may commit next about the thread, or about another.
Commits ==
  LET turns    == DOMAIN ThreadAt(Len(log))
      streamed == {t \in turns : Streams(log, t, Len(log))}
      of(kind, values) == {[kind |-> kind, of |-> v] : v \in values}
      thread == of("turn", {0}) \cup of("delta", streamed)
                  \cup of("reverted", turns) \cup of("deleted", {0})
  IN  of("other", {0})
        \cup (IF Exists(Len(log)) THEN thread ELSE {})
        \cup (IF Happened("created", Len(log)) THEN {} ELSE of("created", {0}))

\* One worker commits a command and publishes it before it takes the next.
Commit ==
  /\ Len(log) < MaxEvents /\ published = Len(log)
  /\ \E e \in Commits : log' = Append(log, e)
  /\ UNCHANGED <<published, conn, sub, wire, cl, cache, used, unheard>>

EventItem(s) == [kind |-> "event", seq |-> s]
Marker == [kind |-> "synchronized"]

\* The engine publishes in order; an attached subscriber is offered the event.
Publish ==
  /\ published < Len(log)
  /\ published' = published + 1
  /\ LET item   == EventItem(published + 1)
         detail == log[published + 1].kind \in Detail
         told   == sub.attached /\ detail
         missed == sub.phase \in {"replay", "live"} /\ ~sub.attached /\ detail
     IN  /\ wire' = IF told /\ sub.phase = "live" THEN Append(wire, item) ELSE wire
         /\ sub' = IF told /\ sub.phase # "live"
                   THEN [sub EXCEPT !.buffer = Append(@, item)] ELSE sub
         /\ unheard' = IF missed THEN unheard \cup {published + 1} ELSE unheard
  /\ UNCHANGED <<log, conn, cl, cache, used>>

-----------------------------------------------------------------------------
(* The server's side: subscribeThread *)

\* after: the client's cursor (0: none); head: the store's tail when it was read.
NoSub == [phase |-> "none", after |-> 0, head |-> 0, attached |-> FALSE,
          marker |-> FALSE, buffer |-> <<>>]

Opened(c, server) ==
  [NoSub EXCEPT !.phase = "open",
                !.marker = server.marker, !.after = IF c.has THEN c.seq ELSE 0]

\* The forked fiber reaches its PubSub subscription, before or after the handler
\* reads on: the fork does not ask for an immediate start.
Attach ==
  /\ sub.phase # "none" /\ ~sub.attached
  /\ sub' = [sub EXCEPT !.attached = TRUE]
  /\ UNCHANGED <<log, published, conn, wire, cl, cache, used, unheard>>

\* Everything the buffer holds goes before the marker, and the marker before
\* what is published next.
GoLive(items, head) ==
  /\ wire' = wire \o items \o sub.buffer
               \o (IF sub.marker THEN <<Marker>> ELSE <<>>)
  /\ sub' = [sub EXCEPT !.phase = "live", !.buffer = <<>>, !.head = head]

\* The handler reads the tail of the store: a small gap will be replayed, a
\* large one, like a missing cursor, is answered with a snapshot.
ReadHead ==
  /\ sub.phase = "open"
  /\ IF sub.after > 0 /\ Len(log) - sub.after \in 0 .. MaxGap
     THEN /\ sub' = [sub EXCEPT !.phase = "replay", !.head = Len(log)]
          /\ UNCHANGED <<wire, cl>>
     ELSE IF Exists(Len(log))
     THEN /\ GoLive(<<[kind |-> "snapshot", snapshot |-> FirstPage(conn.server)]>>,
                    Len(log))
          /\ UNCHANGED cl
     ELSE /\ sub' = NoSub
          /\ cl' = SetStreamError(cl)
          /\ UNCHANGED wire
  /\ UNCHANGED <<log, published, conn, cache, used, unheard>>

\* readStreamEvents: at most as many events of the thread as the gap was wide,
\* read when the stream is drained, then filtered.
Replay ==
  /\ sub.phase = "replay"
  /\ LET stream == {i \in sub.after + 1 .. Len(log) : log[i].kind # "other"}
         read   == {i \in stream : Cardinality({j \in stream : j <= i})
                                      <= sub.head - sub.after}
         sent   == Ascending({i \in read : log[i].kind \in Detail}, Len(log))
     IN  GoLive([i \in 1 .. Len(sent) |-> EventItem(sent[i])], sub.head)
  /\ UNCHANGED <<log, published, conn, cl, cache, used, unheard>>

-----------------------------------------------------------------------------
(* The connection *)

\* The supervisor opens a connection: its address is known before its session.
Connect ==
  /\ conn.phase = "down" /\ used.subscriptions < MaxSubscriptions
  /\ \E server \in Servers : conn' = [phase |-> "prepared", server |-> server]
  /\ used' = [used EXCEPT !.subscriptions = @ + 1]
  /\ cl' = SetSynchronizing(cl)
  /\ UNCHANGED <<log, published, sub, wire, cache, unheard>>

\* The session is there: every view subscribes, and is told it is ready.
Establish ==
  /\ conn.phase = "prepared"
  /\ conn' = [conn EXCEPT !.phase = "up"]
  /\ cl' = SetReady(Begin(cl, conn.server))
  /\ UNCHANGED <<log, published, sub, wire, cache, used, unheard>>

\* A lost connection ends the subscription with what it had under way.
Disconnect ==
  /\ conn.phase # "down"
  /\ conn' = [conn EXCEPT !.phase = "down"]
  /\ cl' = [SetDisconnected(cl) EXCEPT !.phase = "idle"]
  /\ sub' = NoSub /\ wire' = <<>>
  /\ UNCHANGED <<log, published, cache, used, unheard>>

\* An attempt that is interrupted (a retry, a return to the foreground) goes
\* straight to the next one: no disconnected phase is published in between.
Reconnect ==
  /\ conn.phase = "up" /\ used.subscriptions < MaxSubscriptions
  /\ \E server \in Servers : conn' = [phase |-> "prepared", server |-> server]
  /\ used' = [used EXCEPT !.subscriptions = @ + 1]
  /\ cl' = [SetSynchronizing(cl) EXCEPT !.phase = "idle"]
  /\ sub' = NoSub /\ wire' = <<>>
  /\ UNCHANGED <<log, published, cache, unheard>>

-----------------------------------------------------------------------------
(* The client's steps *)

\* makeSubscribeInput runs to its end: an empty view first loads the newest
\* page over HTTP, which may fail, and asks from what it then holds.
Subscribe ==
  /\ conn.phase = "up" /\ cl.phase = "loading"
  /\ \E loaded \in {cl} \cup
          (IF ~cl.has /\ Exists(Len(log))
           THEN {ApplySnapshot(cl, FirstPage(conn.server))} ELSE {}) :
       /\ cl' = Ask(loaded, conn.server)
       /\ sub' = Opened(loaded, conn.server)
  /\ UNCHANGED <<log, published, conn, wire, cache, used, unheard>>

\* A wakeup in the foreground, or the delay after an expected failure.
Resubscribe ==
  /\ conn.phase = "up"
  /\ \/ cl.phase = "failed" /\ UNCHANGED used
     \/ /\ cl.phase = "subscribed" /\ used.subscriptions < MaxSubscriptions
        /\ used' = [used EXCEPT !.subscriptions = @ + 1]
  /\ cl' = Begin(cl, conn.server)
  /\ sub' = NoSub /\ wire' = <<>>
  /\ UNCHANGED <<log, published, conn, cache, unheard>>

Deliver ==
  /\ wire # <<>>
  /\ cl' = ApplyItem(cl, Head(wire))
  /\ wire' = Tail(wire)
  /\ UNCHANGED <<log, published, conn, sub, cache, used, unheard>>

\* loadOlderTurns, up to the request.
LoadOlderTurns ==
  /\ cl.asked.phase = "none" /\ cl.paging /\ conn.phase # "down"
  /\ cl.page.windowed /\ ~cl.page.loading /\ cl.page.more
  /\ cl' = [cl EXCEPT !.page.loading = TRUE,
                      !.asked = [NoFetch EXCEPT !.phase = "asked",
                                                !.cursor = cl.page.cursor]]
  /\ UNCHANGED <<log, published, conn, sub, wire, cache, used, unheard>>

\* The server reads the page, or the request fails.
AnswerOlderTurns ==
  /\ cl.asked.phase = "asked"
  /\ \E snapshot \in {NoSnapshot} \cup
          (IF Exists(Len(log)) /\ conn.phase # "down" /\ conn.server.paging
           THEN {Page(cl.asked.cursor)} ELSE {}) :
       cl' = [cl EXCEPT !.asked.phase = "answered", !.asked.snapshot = snapshot]
  /\ UNCHANGED <<log, published, conn, sub, wire, cache, used, unheard>>

\* Variant: the response is merged whatever happened since it was asked for.
TakeUnchecked ==
  /\ cl.asked.phase = "answered"
  /\ LET done == [cl EXCEPT !.asked = NoFetch]
     IN  cl' = IF cl.asked.snapshot = NoSnapshot
               THEN [done EXCEPT !.page.loading = FALSE]
               ELSE MergeOlderPage(done, cl.asked.snapshot)
  /\ UNCHANGED <<log, published, conn, sub, wire, cache, used, unheard>>

\* loadOlderTurns, after the response, under the lock that applies items.
TakeOlderTurns ==
  /\ cl.asked.phase = "answered"
  /\ LET snapshot == cl.asked.snapshot
         done     == [cl EXCEPT !.asked = NoFetch]
         stale    == ~cl.asked.fresh \/ snapshot.seq < cl.seq
     IN  cl' = IF snapshot = NoSnapshot \/ stale
               THEN [done EXCEPT !.page.loading = FALSE]
               ELSE IF snapshot.watermark > cl.seq
               THEN [done EXCEPT !.parked = [on |-> TRUE, fresh |-> TRUE,
                                             snapshot |-> snapshot]]
               ELSE MergeOlderPage(done, snapshot)
  /\ UNCHANGED <<log, published, conn, sub, wire, cache, used, unheard>>

\* The debounced save takes the newest snapshot offered. It may fail; a thread
\* whose session runs is not offered, which saves no more than a failure does.
Save ==
  /\ cl.saving # NoSnapshot
  /\ cl' = [cl EXCEPT !.saving = NoSnapshot]
  /\ cache' \in {cache, cl.saving}
  /\ UNCHANGED <<log, published, conn, sub, wire, used, unheard>>

\* Variant: the cursor is taken for the next event to read.
FreshNext(snapshot) ==
  [has |-> snapshot # NoSnapshot, thread |-> snapshot.thread,
   page |-> snapshot.page, status |-> "synchronizing",
   seq |-> IF snapshot = NoSnapshot THEN 0 ELSE snapshot.seq + 1,
   awaiting |-> FALSE, paging |-> FALSE, phase |-> "idle",
   asked |-> NoFetch, parked |-> NoParked, saving |-> NoSnapshot]

Fresh(snapshot) ==
  [has |-> snapshot # NoSnapshot, thread |-> snapshot.thread,
   page |-> snapshot.page, seq |-> snapshot.seq, status |-> "synchronizing",
   awaiting |-> FALSE, paging |-> FALSE, phase |-> "idle",
   asked |-> NoFetch, parked |-> NoParked, saving |-> NoSnapshot]

\* The view is closed, its finalizer saving what it holds, or the process
\* dies; a later view starts from the cache.
Reopen ==
  /\ used.views < MaxViews
  /\ used' = [used EXCEPT !.views = @ + 1]
  /\ cache' \in {cache} \cup
       (IF cl.has THEN {Persist(cl).saving} ELSE {})
  /\ cl' = IF conn.phase = "up" THEN SetReady(Begin(Fresh(cache'), conn.server))
           ELSE IF conn.phase = "down" THEN SetDisconnected(Fresh(cache'))
           ELSE Fresh(cache')
  /\ sub' = NoSub /\ wire' = <<>>
  /\ UNCHANGED <<log, published, conn, unheard>>

-----------------------------------------------------------------------------
(* The specification *)

Init ==
  /\ log \in InitialLogs
  /\ published = Len(log)
  /\ \E server \in Servers : conn = [phase |-> "down", server |-> server]
  /\ sub = NoSub
  /\ wire = <<>>
  /\ cl = SetDisconnected(Fresh(NoSnapshot))
  /\ cache = NoSnapshot
  /\ used = [subscriptions |-> 0, views |-> 0]
  /\ unheard = {}

ServerStep == Publish \/ Attach \/ ReadHead \/ Replay
ClientStep ==
  \/ Establish \/ Subscribe \/ Deliver
  \/ AnswerOlderTurns \/ TakeOlderTurns

Next ==
  \/ Commit \/ ServerStep
  \/ Connect \/ Disconnect \/ Reconnect
  \/ ClientStep \/ Resubscribe \/ LoadOlderTurns \/ Save \/ Reopen

\* The engine's worker, the handlers and the client's fibers are not starved,
\* and the delay after an expected failure ends.
Fairness ==
  /\ WF_vars(Publish) /\ WF_vars(Attach) /\ WF_vars(ReadHead) /\ WF_vars(Replay)
  /\ WF_vars(Establish) /\ WF_vars(Subscribe) /\ WF_vars(Deliver)
  /\ WF_vars(AnswerOlderTurns) /\ WF_vars(TakeOlderTurns)
  /\ WF_vars(cl.phase = "failed" /\ Resubscribe)

Spec == Init /\ [][Next]_vars
FairSpec == Spec /\ Fairness

-----------------------------------------------------------------------------
(* Properties *)

IsThread(t) ==
  /\ DOMAIN t \subseteq 1 .. MaxEvents
  /\ \A r \in DOMAIN t : t[r] \in Seq(1 .. MaxEvents)

IsSnapshot(s) ==
  /\ s.seq \in 0 .. MaxEvents /\ s.watermark \in 0 .. MaxEvents
  /\ IsThread(s.thread)
  /\ s.page \in [windowed: BOOLEAN, cursor: 0 .. MaxEvents,
                 more: BOOLEAN, loading: BOOLEAN]

\* Every variable has the shape the code gives it.
TypeOK ==
  /\ Len(log) <= MaxEvents /\ published \in 0 .. Len(log)
  /\ conn \in [phase: {"down", "prepared", "up"}, server: Servers]
  /\ sub.phase \in {"none", "open", "replay", "live"}
  /\ sub.after \in 0 .. Len(log) /\ sub.head \in 0 .. Len(log)
  /\ \A i \in DOMAIN wire : wire[i].kind \in {"event", "snapshot", "synchronized"}
  /\ cl.status \in {"empty", "cached", "synchronizing", "live"}
  /\ cl.phase \in {"idle", "loading", "subscribed", "failed"}
  /\ cl.seq \in 0 .. Len(log) /\ IsThread(cl.thread)
  /\ cl.asked.phase \in {"none", "asked", "answered"}
  /\ \A s \in {cache, cl.saving, cl.asked.snapshot, cl.parked.snapshot} : IsSnapshot(s)
  /\ unheard \subseteq 1 .. MaxEvents

\* The turns that were sent a delta after a later turn was opened. A window that
\* ends above such a turn shows a row made of the delta alone, and keeps it when
\* the older page comes: rows already shown win.
Late(n) ==
  {log[i].of : i \in {j \in 1 .. n :
     /\ log[j].kind = "delta"
     /\ \E k \in log[j].of + 1 .. j - 1 : log[k].kind = "turn"}}

\* Two threads agree on every turn but those of `late`.
Agree(thread, other, late) ==
  /\ DOMAIN thread \ late = DOMAIN other \ late
  /\ \A t \in DOMAIN thread \ late : thread[t] = other[t]

\* The turns of a thread from the cursor of a page on, or all of them.
Cut(thread, page) ==
  Restrict(thread, {t \in DOMAIN thread : page.more => t >= page.cursor})

\* `thread` is the fold of the first `seq` events, cut where `page` says.
IsFold(thread, seq, page) ==
  Agree(thread, Cut(ThreadAt(seq), page), IF page.windowed THEN Late(seq) ELSE {})

\* As long as no event was published to a live fiber that did not listen yet, what
\* the view shows is the thread as it was at the sequence the view claims: nothing
\* lost between replay and live delivery, nothing folded twice, no turn brought
\* back by an older page after a revert or a newer snapshot removed it; in a
\* windowed view, but for the turns that stream late
\* (threads.ts: applyItemLocked, loadOlderTurns; ws.ts: subscribeThread).
ThreadIsFold == unheard = {} /\ cl.has => IsFold(cl.thread, cl.seq, cl.page)

\* Under the same condition what is saved, or waits to be saved, is such a thread
\* with the sequence and the page boundary that belong to it: resuming from it
\* skips and repeats nothing (threads.ts: setThread, mergeOlderPage, the finalizer).
CacheIsFold ==
  unheard = {} =>
    \A s \in {cache, cl.saving} : s # NoSnapshot => IsFold(s.thread, s.seq, s.page)

\* A view that says it is live, on a server that sends the marker, shows every
\* event that was committed when the server took up its subscription.
LiveIsCaughtUp ==
  cl.status = "live" /\ sub.phase = "live" /\ sub.marker
    => cl.seq >= Watermark(sub.head)

\* A live view to which nothing is under way shows all there is: live delivery is
\* attached before the replay or the snapshot is read, so that no event published
\* meanwhile is lost (ws.ts: subscribeThread, bufferedLiveStream).
LiveShowsAll ==
  /\ cl.status = "live" /\ sub.phase = "live" /\ sub.attached /\ conn.phase = "up"
  /\ wire = <<>> /\ published = Len(log)
  => cl.seq >= Watermark(Len(log))

\* Once the log and the connection are quiet, a connected view of a thread that
\* exists is live. Unless an event was published to a live fiber that did not
\* listen yet, it shows all of the thread that is not older than its page, and
\* waits for no older page but one it has a request out for: a parked page is
\* merged or discarded (threads.ts: tryMergePendingOlderPage, makeSubscribeInput).
CatchesUp ==
  <>[](conn.phase = "up" /\ Exists(Len(log))
         => /\ cl.status = "live"
            /\ unheard = {} => /\ cl.seq >= Watermark(Len(log))
                               /\ cl.page.loading => cl.asked.phase # "none")

\* A view that says it is live shows a thread that existed when the server took
\* up the subscription: the stream surfaces the deletion of a thread
\* (threadSnapshotHttp.ts: threadSnapshotLoaderLayer).
LiveThreadExists ==
  cl.status = "live" /\ sub.phase = "live" /\ sub.marker /\ conn.phase = "up"
    => ~Happened("deleted", sub.head)

\* A page is only asked of a server that serves pages
\* (threads.ts: setDisconnected, loadOlderTurns).
WindowsAreAdvertised == [][LoadOlderTurns => conn.server.paging]_vars

=============================================================================
