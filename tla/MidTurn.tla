------------------------------ MODULE MidTurn ------------------------------
(***************************************************************************)
(* One thread of the qwen adapter: its turns, the messages sent while a    *)
(* turn runs, and the end of its sessions.  A second session/prompt aborts *)
(* the first, so a send that finds a turn is queued; the agent drains the  *)
(* queue in the middle of a turn, a turn that completes forks a flush that *)
(* sends the rest as the next turn, and everything that prompts claims the *)
(* session first.  A stop drops the queue and settles the turn.            *)
(*                                                                         *)
(* A step ends where a fiber waits for something, and also where the code  *)
(* provides for what another fiber may do: between the look at the turn,   *)
(* the claim and the registration of the turn, and between the end of a    *)
(* turn and the release of its claim.  The interruption of a whole layer   *)
(* (shutdown) and the time-out of the wait for a turn's end are left out.  *)
(***************************************************************************)
EXTENDS Naturals, Sequences

CONSTANTS
  Msgs,          \* messages the user sends, each in a fiber of its own
  Attached,      \* those with an attachment, which has to be read first
  Flushers,      \* names for the fibers of turn-end flushes
  DrainCap,      \* messages one drain may take
  MaxSessions, MaxCompactions,     \* bounds of the model
  None, Compaction                 \* no fiber; the owner of a claim that is no turn

Fibers == Msgs \cup Flushers
Sessions == 1 .. MaxSessions
NoSession == 0

ASSUME FibersAssumption ==
  /\ Attached \subseteq Msgs /\ Msgs \cap Flushers = {}
  /\ None \notin Fibers \cup {Compaction} /\ Compaction \notin Fibers
ASSUME BoundsAssumption ==
  DrainCap \in Nat \ {0} /\ MaxSessions \in Nat /\ MaxCompactions \in Nat

VARIABLES
  current,       \* the entry of the thread in the map of sessions
  ctx,           \* the session contexts; shared: a turn without its claim was in it
  fiber,         \* where each fiber is and what it holds
  queue, mark,   \* the mid-turn queue; the delivery mark of each message
  forks,         \* flushes that are forked and have not begun
  compactions    \* compactions so far

vars == <<current, ctx, fiber, queue, mark, forks, compactions>>

Unborn ==
  [born |-> FALSE, alive |-> FALSE, stopped |-> FALSE, cancel |-> FALSE, exited |-> FALSE,
   owner |-> None, active |-> None, prompt |-> None, barrier |-> None, wait |-> None,
   down |-> "no", shared |-> FALSE]
Resting(stage) ==
  [stage |-> stage, on |-> NoSession, in |-> NoSession, items |-> <<>>, end |-> "none"]

Init ==
  /\ current = NoSession /\ ctx = [s \in Sessions |-> Unborn]
  /\ fiber = [f \in Fibers |-> Resting(IF f \in Msgs THEN "idle" ELSE "off")]
  /\ queue = <<>> /\ mark = [m \in Msgs |-> "none"]
  /\ forks = 0 /\ compactions = 0

Elements(q) == {q[i] : i \in DOMAIN q}
Stage(f) == fiber[f].stage
To(f, stage) == fiber' = [fiber EXCEPT ![f].stage = stage]
MarkAll(ms, state) == mark' = [m \in Msgs |-> IF m \in ms THEN state ELSE mark[m]]
Listed == current # NoSession
----------------------------------------------------------------------------
(* Sends.                                                                   *)

\* A turn runs from the claim on; a compaction is not a turn.
TurnRuns ==
  /\ Listed /\ ctx[current].owner # Compaction
  /\ ctx[current].active # None \/ ctx[current].owner # None

\* The message waits for the drain or the flush.
Enqueue(m) ==
  /\ queue' = Append(queue, m) /\ mark' = [mark EXCEPT ![m] = "pending"] /\ To(m, "done")

\* tryQueueMidTurnMessage, in a turn: an attachment is read before the message is queued.
QueueUp(m) ==
  IF m \in Attached THEN To(m, "reading") /\ UNCHANGED <<queue, mark>> ELSE Enqueue(m)

\* A message is sent: to the queue in a turn, else on to the claim.
Send(m) ==
  /\ Stage(m) = "idle"
  /\ IF TurnRuns THEN QueueUp(m) ELSE To(m, "checked") /\ UNCHANGED <<queue, mark>>
  /\ UNCHANGED <<current, ctx, forks, compactions>>

\* The attachment has been read, or cannot be.
Read(m) ==
  /\ Stage(m) = "reading"
  /\ \/ Enqueue(m)
     \/ To(m, "done") /\ MarkAll({m}, "undelivered") /\ UNCHANGED queue
  /\ UNCHANGED <<current, ctx, forks, compactions>>

\* Variant: the refusal of the claim is ignored.
ClaimHeld(f) ==
  /\ Listed /\ ctx[current].owner # Compaction
  /\ ctx' = [ctx EXCEPT ![current].owner = f]
  /\ fiber' = [fiber EXCEPT ![f].stage = "claimed", ![f].on = current]
\* claimDispatchSlot: check and set.
ClaimSlot(f) ==
  /\ Listed /\ ctx[current].owner = None
  /\ ctx' = [ctx EXCEPT ![current].owner = f]
  /\ fiber' = [fiber EXCEPT ![f].stage = "claimed", ![f].on = current]

\* The send claims the session.  It goes on without a claim if there is none or a
\* compaction runs, and to the queue if it lost.
Claim(m) ==
  /\ Stage(m) = "checked"
  /\ \/ ClaimSlot(m) /\ UNCHANGED <<queue, mark>>
     \/ /\ Listed => ctx[current].owner = Compaction
        /\ To(m, "unclaimed") /\ UNCHANGED <<ctx, queue, mark>>
     \/ /\ Listed /\ ctx[current].owner \notin {None, Compaction}
        /\ QueueUp(m) /\ UNCHANGED ctx
  /\ UNCHANGED <<current, forks, compactions>>
----------------------------------------------------------------------------
(* Turns.                                                                   *)

\* Variant: the turn runs in the session of its claim, without another look.
BeginInClaim(f) ==
  /\ Stage(f) \in {"claimed", "unclaimed"}
  /\ fiber' = [fiber EXCEPT ![f].stage = "begun", ![f].in = fiber[f].on]
  /\ UNCHANGED <<current, ctx, queue, mark, forks, compactions>>
\* turn.started; then the session is required, and the turn registers with it.
Begin(f) ==
  /\ Stage(f) \in {"claimed", "unclaimed"}
  /\ IF Listed /\ ~ctx[current].stopped /\ ctx[current].owner # Compaction
     THEN /\ fiber' = [fiber EXCEPT ![f].stage = "begun", ![f].in = current]
          /\ ctx' = [ctx EXCEPT ![current].active = f, ![current].barrier = f,
                                ![current].cancel = FALSE,
                                ![current].shared = @ \/ fiber[f].on # current]
     ELSE To(f, "failed") /\ UNCHANGED ctx
  /\ UNCHANGED <<current, queue, mark, forks, compactions>>

\* Attachments, mode and model are set up; the prompt is forked.  Whoever stopped the
\* session before saw no prompt to interrupt, so the turn does it itself.
Prompt(f) ==
  /\ Stage(f) = "begun"
  /\ \/ /\ ~ctx[fiber[f].in].stopped
        /\ To(f, "prompting") /\ ctx' = [ctx EXCEPT ![fiber[f].in].prompt = f]
     \/ /\ ctx[fiber[f].in].stopped
        /\ To(f, "interrupted") /\ ctx' = [ctx EXCEPT ![fiber[f].in].prompt = None]
     \/ f \in Attached /\ To(f, "failed") /\ UNCHANGED ctx
  /\ UNCHANGED <<current, queue, mark, forks, compactions>>

\* The agent answers, or the request fails; it does when the process is gone.
PromptEnds(f) ==
  /\ Stage(f) = "prompting"
  /\ \/ ctx[fiber[f].in].alive /\ To(f, "answered")
     \/ To(f, "failed")
  /\ ctx' = [ctx EXCEPT ![fiber[f].in].prompt = None]
  /\ UNCHANGED <<current, queue, mark, forks, compactions>>

\* finalize: the turn is no longer active and turn.completed is published.
Complete(f) ==
  /\ Stage(f) \in {"answered", "failed", "interrupted"}
  /\ LET s == fiber[f].in
         end == IF Stage(f) = "answered" THEN "completed"
                ELSE IF Stage(f) = "interrupted" \/ (s # NoSession /\ ctx[s].cancel)
                THEN "cancelled" ELSE "failed"
     IN /\ fiber' = [fiber EXCEPT ![f].stage = "settling", ![f].end = end]
        /\ ctx' = IF s = NoSession THEN ctx ELSE [ctx EXCEPT ![s].active = None]
  /\ UNCHANGED <<current, queue, mark, forks, compactions>>

\* Variant: a claim is released through the session the turn registered with.
SettledContext(f) ==
  [s \in Sessions |->
     [ctx[s] EXCEPT !.owner = IF @ = f /\ fiber[f].in = s THEN None ELSE @,
                    !.barrier = IF @ = f THEN None ELSE @,
                    !.wait = IF @ = f THEN None ELSE @]]
\* The claim is released if it is still f's, and the barrier of the turn falls.
Released(f) ==
  [s \in Sessions |->
     [ctx[s] EXCEPT !.owner = IF @ = f /\ fiber[f].on = s THEN None ELSE @,
                    !.barrier = IF @ = f THEN None ELSE @,
                    !.wait = IF @ = f THEN None ELSE @]]

\* Variant: a turn that fails leaves the queue alone.
SettleKeeps(f) ==
  /\ Stage(f) = "settling"
  /\ ctx' = Released(f)
  /\ fiber' = [fiber EXCEPT ![f] = Resting(IF f \in Msgs THEN "done" ELSE "off")]
  /\ MarkAll(Elements(fiber[f].items),
             IF fiber[f].end = "completed" THEN "delivered" ELSE "undelivered")
  /\ forks' = forks + (IF fiber[f].end = "completed" THEN 1 ELSE 0)
  /\ UNCHANGED <<current, queue, compactions>>
\* The rest of finalize: what the turn carried follows its outcome; unless it completed,
\* the queue is dropped; if it did, a flush is forked.
Settle(f) ==
  /\ Stage(f) = "settling"
  /\ ctx' = Released(f)
  /\ fiber' = [fiber EXCEPT ![f] = Resting(IF f \in Msgs THEN "done" ELSE "off")]
  /\ IF fiber[f].end = "completed"
     THEN /\ MarkAll(Elements(fiber[f].items), "delivered")
          /\ forks' = forks + 1 /\ UNCHANGED queue
     ELSE /\ MarkAll(Elements(fiber[f].items) \cup Elements(queue), "undelivered")
          /\ queue' = <<>> /\ UNCHANGED forks
  /\ UNCHANGED <<current, compactions>>

\* Variant: a flush that may not prompt drops what it took.
FlushDrops(f) ==
  /\ forks > 0 /\ Stage(f) = "off" /\ queue # <<>>
  /\ forks' = forks - 1 /\ queue' = <<>>
  /\ IF Listed /\ ctx[current].owner # None THEN UNCHANGED <<ctx, fiber>>
     ELSE IF Listed
     THEN /\ ctx' = [ctx EXCEPT ![current].owner = f]
          /\ fiber' = [fiber EXCEPT ![f].stage = "claimed", ![f].on = current,
                                    ![f].items = queue]
     ELSE fiber' = [fiber EXCEPT ![f].stage = "unclaimed", ![f].items = queue] /\ UNCHANGED ctx
  /\ UNCHANGED <<current, mark, compactions>>
\* flushMidTurnQueue: everything queued is the next turn; beside a turn or a compaction
\* it goes back to the head of the queue.
Flush(f) ==
  /\ forks > 0 /\ Stage(f) = "off" /\ queue # <<>>
  /\ forks' = forks - 1
  /\ IF Listed /\ ctx[current].owner # None THEN UNCHANGED <<ctx, fiber, queue>>
     ELSE /\ queue' = <<>>
          /\ IF Listed
             THEN /\ ctx' = [ctx EXCEPT ![current].owner = f]
                  /\ fiber' = [fiber EXCEPT ![f].stage = "claimed", ![f].on = current,
                                            ![f].items = queue]
             ELSE /\ fiber' = [fiber EXCEPT ![f].stage = "unclaimed", ![f].items = queue]
                  /\ UNCHANGED ctx
  /\ UNCHANGED <<current, mark, compactions>>

\* A flush with nothing to do.
FlushNothing ==
  /\ forks > 0 /\ queue = <<>> /\ forks' = forks - 1
  /\ UNCHANGED <<current, ctx, fiber, queue, mark, compactions>>
----------------------------------------------------------------------------
(* The agent.                                                               *)

Prompting(f, s) == Stage(f) = "prompting" /\ fiber[f].in = s

\* The oldest messages, as many as one drain may take.
TakeForDrain == SubSeq(queue, 1, IF Len(queue) < DrainCap THEN Len(queue) ELSE DrainCap)
\* At a tool round of a turn the agent takes them; the rest waits.
Drain(s) ==
  /\ ctx[s].alive /\ queue # <<>> /\ \E f \in Fibers : Prompting(f, s)
  /\ MarkAll(Elements(TakeForDrain), "delivered")
  /\ queue' = SubSeq(queue, Len(TakeForDrain) + 1, Len(queue))
  /\ UNCHANGED <<current, ctx, fiber, forks, compactions>>

\* compactContext: the third that prompts; refused while a turn runs.
Compact ==
  /\ Listed /\ ~ctx[current].stopped /\ compactions < MaxCompactions
  /\ ctx[current].active = None /\ ctx[current].owner = None
  /\ ctx' = [ctx EXCEPT ![current].owner = Compaction] /\ compactions' = compactions + 1
  /\ UNCHANGED <<current, fiber, queue, mark, forks>>
CompactEnds(s) ==
  /\ ctx[s].owner = Compaction
  /\ ctx' = [ctx EXCEPT ![s].owner = None]
  /\ UNCHANGED <<current, fiber, queue, mark, forks, compactions>>

\* The process dies on its own.
Die(s) ==
  /\ ctx[s].alive /\ ctx' = [ctx EXCEPT ![s].alive = FALSE]
  /\ UNCHANGED <<current, fiber, queue, mark, forks, compactions>>
\* Variant: only while a turn is active.
SeeExitInTurn(s) ==
  /\ ctx[s].born /\ ~ctx[s].alive /\ ~ctx[s].stopped /\ ~ctx[s].exited
  /\ ctx[s].active # None
  /\ ctx' = [ctx EXCEPT ![s].exited = TRUE]
  /\ UNCHANGED <<current, fiber, queue, mark, forks, compactions>>
\* The watcher of the session sees that its process is gone.
SeeExit(s) ==
  /\ ctx[s].born /\ ~ctx[s].alive /\ ~ctx[s].stopped /\ ~ctx[s].exited
  /\ ctx' = [ctx EXCEPT ![s].exited = TRUE]
  /\ UNCHANGED <<current, fiber, queue, mark, forks, compactions>>
----------------------------------------------------------------------------
(* Sessions.                                                                *)

\* The latch of a session that was settled while its process goes on dying.
Latched == \E s \in Sessions : ctx[s].down = "gone" /\ ctx[s].alive

\* startSession registers a session: the previous one has been stopped, its latch is open.
Start(s) ==
  /\ ~ctx[s].born /\ \A r \in Sessions : r < s => ctx[r].born
  /\ Listed => ctx[current].stopped
  /\ ~Latched
  /\ current' = s /\ ctx' = [ctx EXCEPT ![s].born = TRUE, ![s].alive = TRUE]
  /\ UNCHANGED <<fiber, queue, mark, forks, compactions>>

\* abortSession: a user's stop, a restart, maintenance or the exit of the process claims
\* the end of the session and drops the queue.
Stop(s) ==
  /\ ctx[s].born /\ ~ctx[s].stopped /\ (current = s \/ ctx[s].exited)
  /\ \E intent \in {ctx[s].cancel, TRUE} :
       ctx' = [ctx EXCEPT ![s].stopped = TRUE, ![s].cancel = intent, ![s].down = "claimed"]
  /\ MarkAll(Elements(queue), "undelivered") /\ queue' = <<>>
  /\ UNCHANGED <<current, fiber, forks, compactions>>

\* A prompt in flight is interrupted and the process left to die in its grace; before and
\* after a prompt, and after a crash, the process is killed.
AtPrompt(s) == ctx[s].active # None /\ ctx[s].prompt # None /\ ~ctx[s].exited
TearDown(s) ==
  /\ ctx[s].down = "claimed"
  /\ IF AtPrompt(s)
     THEN /\ fiber' = [fiber EXCEPT ![ctx[s].prompt].stage = "interrupted"]
          /\ ctx' = [ctx EXCEPT ![s].prompt = None, ![s].wait = ctx[s].barrier,
                                ![s].down = "waiting"]
     ELSE /\ ctx' = [ctx EXCEPT ![s].alive = FALSE, ![s].down = "waiting",
                                ![s].wait = IF ctx[s].active # None THEN ctx[s].barrier ELSE None]
          /\ UNCHANGED fiber
  /\ UNCHANGED <<current, queue, mark, forks, compactions>>

\* Variant: the session goes without waiting for its turn.
UnlistEarly(s) ==
  /\ ctx[s].down = "waiting"
  /\ current' = NoSession /\ ctx' = [ctx EXCEPT ![s].down = "gone"]
  /\ UNCHANGED <<fiber, queue, mark, forks, compactions>>
\* The turn has been finalized: the thread's entry goes, session.exited is published.
Unlist(s) ==
  /\ ctx[s].down = "waiting" /\ ctx[s].wait = None
  /\ current' = NoSession /\ ctx' = [ctx EXCEPT ![s].down = "gone"]
  /\ UNCHANGED <<fiber, queue, mark, forks, compactions>>

\* finishSessionTeardown: the grace is over.
Kill(s) ==
  /\ ctx[s].down = "gone" /\ ctx[s].alive /\ ctx' = [ctx EXCEPT ![s].alive = FALSE]
  /\ UNCHANGED <<current, fiber, queue, mark, forks, compactions>>
----------------------------------------------------------------------------
Sending(m) == Send(m) \/ Read(m) \/ Claim(m)
Turn(f) == Begin(f) \/ Prompt(f) \/ PromptEnds(f) \/ Complete(f) \/ Settle(f)
Ending(s) == TearDown(s) \/ Unlist(s) \/ Kill(s) \/ SeeExit(s) \/ (ctx[s].exited /\ Stop(s))
Next ==
  \/ \E m \in Msgs : Sending(m)
  \/ \E f \in Fibers : Turn(f)
  \/ (\E f \in Flushers : Flush(f)) \/ FlushNothing
  \/ \E s \in Sessions : Drain(s) \/ CompactEnds(s) \/ Die(s) \/ Start(s) \/ Stop(s) \/ Ending(s)
  \/ Compact
Spec == Init /\ [][Next]_vars

\* Fibers run; reads, answers to a dead process and teardowns end.  An agent at work need
\* not ever answer.
FairSpec ==
  /\ Spec
  /\ \A m \in Msgs : WF_vars(Read(m) \/ Claim(m))
  /\ \A f \in Fibers :
       WF_vars(Begin(f) \/ Prompt(f) \/ Complete(f) \/ Settle(f)
               \/ (PromptEnds(f) /\ ~ctx[fiber[f].in].alive))
  /\ \A f \in Flushers : WF_vars(Flush(f) \/ FlushNothing)
  /\ \A s \in Sessions : WF_vars(Ending(s))
----------------------------------------------------------------------------
Marks == {"none", "pending", "delivered", "undelivered"}
Holding == {"claimed", "begun", "prompting", "answered", "failed", "interrupted", "settling"}
Stages == Holding \cup {"idle", "reading", "checked", "unclaimed", "done", "off"}
Owners == Fibers \cup {None, Compaction}
Turns == Fibers \cup {None}
CtxType ==
  [born : BOOLEAN, alive : BOOLEAN, stopped : BOOLEAN, cancel : BOOLEAN, exited : BOOLEAN,
   owner : Owners, active : Turns, prompt : Turns, barrier : Turns, wait : Turns,
   down : {"no", "claimed", "waiting", "gone"}, shared : BOOLEAN]
FiberType ==
  [stage : Stages, on : Sessions \cup {NoSession}, in : Sessions \cup {NoSession},
   items : Seq(Msgs), end : {"none", "completed", "cancelled", "failed"}]

\* Types; a fiber past the registration of its turn has a session.
TypeOK ==
  /\ current \in Sessions \cup {NoSession}
  /\ ctx \in [Sessions -> CtxType] /\ fiber \in [Fibers -> FiberType]
  /\ queue \in Seq(Msgs) /\ mark \in [Msgs -> Marks]
  /\ forks \in Nat /\ compactions \in Nat
  /\ \A f \in Fibers : Stage(f) \in {"begun", "prompting"} => fiber[f].in # NoSession

Once(q) == \A i, j \in DOMAIN q : q[i] = q[j] => i = j
Apart(q, r) == Elements(q) \cap Elements(r) = {}

\* No message is lost or sent twice: one that is pending is in the queue or with one flush,
\* once; one that has been decided, or was never queued, is nowhere.
PendingIsOnce ==
  /\ \A m \in Msgs : mark[m] = "pending" <=>
       m \in Elements(queue) \/ \E f \in Fibers : m \in Elements(fiber[f].items)
  /\ Once(queue) /\ \A f \in Fibers : Once(fiber[f].items) /\ Apart(fiber[f].items, queue)
  /\ \A f, g \in Fibers : f # g => Apart(fiber[f].items, fiber[g].items)

\* The claim of a session is held by a turn that will release it, and every turn that
\* claimed holds it still: no early exit leaks the claim or frees another's.
ClaimIsHeld ==
  \A s \in Sessions, f \in Fibers :
    ctx[s].owner = f <=> fiber[f].on = s /\ Stage(f) \in Holding

\* Turns that claimed the session they run in never have two prompts there at once.
ClaimsExclude ==
  \A s \in Sessions, f, g \in Fibers :
    Prompting(f, s) /\ Prompting(g, s) /\ fiber[f].on = s /\ fiber[g].on = s => f = g

\* A message does not wait for nothing: some turn or flush will come to it, unless it was
\* queued late, its attachment being read, or its flush met a compaction.
NothingStranded ==
  \A m \in Msgs : mark[m] = "pending" =>
    \/ m \in Attached \/ compactions > 0 \/ forks > 0
    \/ \E f \in Fibers : Stage(f) \in Holding \cup {"unclaimed"}

\* session.exited comes after the turn.completed of every turn of the session, if every one
\* held its claim.
ExitAfterTurn ==
  \A s \in Sessions, f \in Fibers :
    ctx[s].down = "gone" /\ fiber[f].in = s /\ ~ctx[s].shared =>
      Stage(f) \notin {"begun", "prompting", "answered", "failed", "interrupted"}

\* A stop ends, and so does the session of a process that died, with its turn.
SessionsEnd ==
  \A s \in Sessions :
    ctx[s].stopped \/ (ctx[s].born /\ ~ctx[s].alive) ~> ctx[s].down = "gone" \/ ctx[s].shared
\* A message that is queued is decided, if agents answer; one queued late, or whose flush
\* met a compaction, waits for the next turn.
PendingIsDecided ==
  (\A f \in Fibers : []<>(Stage(f) # "prompting")) =>
    \A m \in Msgs \ Attached :
      mark[m] = "pending" ~> mark[m] # "pending" \/ compactions > 0
----------------------------------------------------------------------------
(* What a comment of the code says, and a run shows to fail.               *)

\* "When it returns, every child this adapter spawned is dead": stopAll finds the sessions
\* that live in the map.
LiveIsListed ==
  \A s \in Sessions : ctx[s].born /\ ~ctx[s].stopped => current = s
============================================================================
