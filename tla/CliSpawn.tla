------------------------------ MODULE CliSpawn ------------------------------
(***************************************************************************)
(* The CLI spawn scheduler and the reload that kills every CLI process.    *)
(* A client (an ACP session start or a one-shot text generation) queues    *)
(* for the gate before it may spawn its process: while no CLI has proved   *)
(* the token there is one permit, ACP first, FIFO within a class; once one *)
(* has, everyone goes unguarded.  A reload shuts the gate and kills in     *)
(* passes until no process is registered and no granted client is out.     *)
(*                                                                         *)
(* One qwen instance with a warm pool of one slot.  What runs between two  *)
(* suspensions of a fiber is one step.  A second press of Reload changes   *)
(* nothing here: it waits for the result of the first.                     *)
(***************************************************************************)
EXTENDS Naturals, FiniteSets

CONSTANTS
  Clients, Acp,   \* spawn clients; the ones that are session starts
  Slot,           \* the process of the warm pool's slot
  MaxArrivals, MaxTurns, MaxReloads     \* bounds of the model

ASSUME ClientsAssumption == Acp \subseteq Clients /\ Slot \notin Clients
ASSUME BoundsAssumption == MaxArrivals \in Nat /\ MaxTurns \in Nat /\ MaxReloads \in Nat

VARIABLES
  gate,       \* the scheduler: state, authOk, taken (the permit), the queue and arrival
              \* numbers, who was granted what, who is outstanding, who reserved
  stage,      \* where each client is
  live,       \* registered processes, each named for its client, or the slot's
  sessions,   \* clients whose session the adapter has registered
  pool,       \* the pool: active or not, a refill armed, a warm spare parked
  seen,       \* the pool state observed last
  reload,     \* where the reload is and the processes it is killing
  changed,    \* a change the reload holds a handle for has happened
  turns, reloads     \* turn starts and reloads so far

vars == <<gate, stage, live, sessions, pool, seen, reload, changed, turns, reloads>>

Reloading == reload.pc # "idle"
Drained == [active |-> FALSE, armed |-> FALSE, spare |-> FALSE]
----------------------------------------------------------------------------
(* The gate.                                                                *)

\* The clients cs leave the queue, granted the permit or waved through.
Admit(g, cs, as) ==
  [g EXCEPT !.queue = @ \ cs, !.out = @ \cup cs,
            !.seq = [c \in Clients |-> IF c \in cs THEN 0 ELSE g.seq[c]],
            !.granted = [c \in Clients |-> IF c \in cs THEN as ELSE g.granted[c]]]

\* A session start that queues, or is announced by a reservation, holds back the others.
Eligible(g) ==
  IF g.reserved # {} \/ g.queue \cap Acp # {} THEN g.queue \cap Acp ELSE g.queue
First(g) == CHOOSE c \in Eligible(g) : \A d \in Eligible(g) : g.seq[c] <= g.seq[d]

\* serve: the only place a waiter is woken.
Serve(g) ==
  IF g.shut THEN g
  ELSE IF g.authOk THEN Admit(g, g.queue, "free")
  ELSE IF g.taken \/ Eligible(g) = {} THEN g
  ELSE Admit([g EXCEPT !.taken = TRUE], {First(g)}, "permit")

\* Variant: a permit that is given back is not passed on.
ReleaseUnserved(g, c) ==
  [g EXCEPT !.out = @ \ {c}, !.granted[c] = "free",
            !.taken = IF g.granted[c] = "permit" THEN FALSE ELSE @]
\* Variant: a permit given back early is given back once more at the end.
ReleaseTwice(g, c) ==
  IF g.granted[c] = "permit" THEN Serve([g EXCEPT !.out = @ \ {c}, !.taken = FALSE])
  ELSE [g EXCEPT !.out = @ \ {c}]
\* releaseIfHeld (and abandon after a hand-off): c is no longer outstanding.
Release(g, c) ==
  IF g.granted[c] = "permit"
  THEN Serve([g EXCEPT !.out = @ \ {c}, !.granted[c] = "free", !.taken = FALSE])
  ELSE [g EXCEPT !.out = @ \ {c}]

\* markAuthOk: not while a reload owns the fleet.
MarkAuthOk(g) == IF g.shut \/ g.authOk THEN g ELSE Serve([g EXCEPT !.authOk = TRUE])

\* observeIdleExpiry: the pool fell idle since the last look, and not for a reload.
Observe(g) ==
  IF seen = "active" /\ ~pool.active /\ ~Reloading THEN [g EXCEPT !.authOk = FALSE] ELSE g
PoolState == IF pool.active THEN "active" ELSE "expired"

\* Variant: a client that leaves without having had a process is not announced.
SignalRegistry ==
  changed' = (reload.pc \in {"check", "wait"} /\ (changed \/ live' # live))
\* Both change signals: a mutation completes the handle the reload holds, if any.
Signal ==
  changed' = (reload.pc \in {"check", "wait"}
              /\ (changed \/ gate'.out # gate.out \/ live' # live))
----------------------------------------------------------------------------
Init ==
  /\ gate = [shut |-> FALSE, authOk |-> FALSE, taken |-> FALSE, queue |-> {},
             seq |-> [c \in Clients |-> 0], next |-> 0,
             granted |-> [c \in Clients |-> "none"], out |-> {}, reserved |-> {}]
  /\ stage = [c \in Clients |-> "idle"]
  /\ live = {} /\ sessions = {} /\ pool = Drained /\ seen = "none"
  /\ reload = [pc |-> "idle", doomed |-> {}] /\ changed = FALSE
  /\ turns = 0 /\ reloads = 0

Move(c, s) == stage' = [stage EXCEPT ![c] = s]
----------------------------------------------------------------------------
(* Clients.                                                                 *)

\* A turn start announces the session it may need, until its handler returns.
Reserve(c) ==
  /\ stage[c] = "idle" /\ c \in Acp \ gate.reserved /\ turns < MaxTurns
  /\ gate' = [gate EXCEPT !.reserved = @ \cup {c}] /\ turns' = turns + 1
  /\ UNCHANGED <<stage, live, sessions, pool, seen, reload, changed, reloads>>

\* Variant: the end of a reservation wakes no one.
UnreserveUnserved(c) ==
  /\ stage[c] = "idle" /\ c \in gate.reserved
  /\ gate' = [gate EXCEPT !.reserved = @ \ {c}]
  /\ UNCHANGED <<stage, live, sessions, pool, seen, reload, changed, turns, reloads>>
Unreserve(c) ==
  /\ stage[c] = "idle" /\ c \in gate.reserved
  /\ gate' = Serve([gate EXCEPT !.reserved = @ \ {c}])
  /\ UNCHANGED <<stage, live, sessions, pool, seen, reload, turns, reloads>>
  /\ Signal

\* withCliSpawnPermit: look at the pool, queue up, let the scheduler decide.
Arrive(c) ==
  /\ stage[c] = "idle" /\ gate.next < MaxArrivals
  /\ Move(c, "asked") /\ seen' = PoolState
  /\ gate' = Serve([Observe(gate) EXCEPT !.queue = @ \cup {c}, !.seq[c] = gate.next,
                                         !.next = @ + 1])
  /\ UNCHANGED <<live, sessions, pool, reload, turns, reloads>>
  /\ Signal

\* Variant: an interrupted waiter stays in the queue.
AbandonQueued(c) ==
  /\ stage[c] = "asked" /\ c \in gate.queue
  /\ Move(c, "leaving")
  /\ UNCHANGED <<gate, live, sessions, pool, seen, reload, changed, turns, reloads>>
\* Interrupted while it waits.
Abandon(c) ==
  /\ stage[c] = "asked" /\ c \in gate.queue
  /\ Move(c, "leaving")
  /\ gate' = [gate EXCEPT !.queue = @ \ {c}, !.seq[c] = 0]
  /\ UNCHANGED <<live, sessions, pool, seen, reload, changed, turns, reloads>>

\* registerLiveCliChild: p has a new process, which no kill under way has seen; if its
\* old one lived until now, it is dead.
Register(p) ==
  /\ live' = live \cup {p} /\ reload' = [reload EXCEPT !.doomed = @ \ {p}]
  /\ changed' = (changed \/ reload.pc \in {"check", "wait"})

MaySpawn(c) == stage[c] \in {"asked", "cold"} /\ c \notin gate.queue

\* The process is spawned and registered; a session start has found no spare, ends
\* the thread's previous session and has made the pool active.
Spawn(c) ==
  /\ MaySpawn(c) /\ Move(c, "auth")
  /\ Register(c) /\ sessions' = sessions \ {c}
  /\ pool' = [pool EXCEPT !.active = @ \/ c \in Acp]
  /\ UNCHANGED <<gate, seen, turns, reloads>>

\* A session start takes over the process of the parked spare.
TakeSpare(c) ==
  /\ MaySpawn(c) /\ c \in Acp /\ stage[c] = "asked" /\ pool.spare /\ Move(c, "bind")
  /\ LET Renamed(S) == IF Slot \in S THEN (S \ {Slot}) \cup {c} ELSE S \ {c}
     IN live' = Renamed(live) /\ reload' = [reload EXCEPT !.doomed = Renamed(@)]
  /\ sessions' = sessions \ {c}
  /\ pool' = [pool EXCEPT !.active = TRUE, !.spare = FALSE]
  /\ changed' = (changed \/ (reload.pc \in {"check", "wait"} /\ c \in live))
  /\ UNCHANGED <<gate, seen, turns, reloads>>

\* The settings cannot be copied to the spare it took: it is killed, the start goes cold.
DiscardSpare(c) ==
  /\ MaySpawn(c) /\ c \in Acp /\ stage[c] = "asked" /\ pool.spare /\ Move(c, "cold")
  /\ live' = live \ {Slot, c} /\ sessions' = sessions \ {c}
  /\ pool' = [pool EXCEPT !.active = TRUE, !.spare = FALSE]
  /\ UNCHANGED <<gate, seen, reload, turns, reloads>>
  /\ Signal

\* The authenticate reply: the permit goes back before the start goes on.
AuthReply(c) ==
  /\ stage[c] = "auth" /\ c \in Acp \cap live
  /\ \/ Move(c, "bind") /\ gate' = MarkAuthOk(Release(gate, c))
     \/ Move(c, "failed") /\ gate' = Release(gate, c)
  /\ UNCHANGED <<live, sessions, pool, seen, reload, turns, reloads>>
  /\ Signal

\* A text generation exits with 0.
Generated(c) ==
  /\ stage[c] = "auth" /\ c \in live \ Acp
  /\ Move(c, "leaving")
  /\ gate' = Release(MarkAuthOk(gate), c) /\ live' = live \ {c}
  /\ UNCHANGED <<sessions, pool, seen, reload, turns, reloads>>
  /\ Signal

\* The session is set up and registered.
Bind(c) ==
  /\ stage[c] = "bind" /\ c \in live
  /\ Move(c, "bound") /\ sessions' = sessions \cup {c}
  /\ UNCHANGED <<gate, live, pool, seen, reload, changed, turns, reloads>>

\* ensureAfterSuccess arms a refill, whatever has become of the session; the start returns.
Finish(c) ==
  /\ stage[c] = "bound"
  /\ Move(c, "leaving")
  /\ pool' = [pool EXCEPT !.active = TRUE, !.armed = TRUE]
  /\ gate' = Release(gate, c)
  /\ UNCHANGED <<live, sessions, seen, reload, turns, reloads>>
  /\ Signal

\* A granted client fails, times out, is interrupted or finds its process dead; a
\* process it has spawned is killed with its scope.
Fail(c) ==
  /\ MaySpawn(c) \/ stage[c] \in {"auth", "bind", "failed"}
  /\ Move(c, "leaving")
  /\ gate' = Release(gate, c)
  /\ live' = IF MaySpawn(c) THEN live ELSE live \ {c}
  /\ UNCHANGED <<sessions, pool, seen, reload, turns, reloads>>
  /\ Signal

\* The second look at the pool; the client's place in the gate is forgotten.
Leave(c) ==
  /\ stage[c] = "leaving"
  /\ Move(c, "idle") /\ seen' = PoolState
  /\ gate' = [Observe(gate) EXCEPT !.granted[c] = "none"]
  /\ UNCHANGED <<live, sessions, pool, reload, changed, turns, reloads>>

\* A session is stopped or its process dies.
SessionEnds(c) ==
  /\ c \in sessions
  /\ sessions' = sessions \ {c} /\ live' = live \ {c}
  /\ UNCHANGED <<gate, stage, pool, seen, reload, turns, reloads>>
  /\ Signal

\* What a client does without anyone asking it to.
Proceed(c) ==
  \/ Spawn(c) \/ TakeSpare(c) \/ DiscardSpare(c) \/ AuthReply(c) \/ Generated(c) \/ Bind(c)
  \/ Finish(c) \/ Fail(c) \/ Leave(c)
----------------------------------------------------------------------------
(* The warm pool, as the adapter uses it.                                   *)

\* The armed refill spawns the slot's process, past the gate.
SlotSpawn ==
  /\ pool.armed /\ Slot \notin live
  /\ Register(Slot) /\ pool' = [pool EXCEPT !.armed = FALSE]
  /\ UNCHANGED <<gate, stage, sessions, seen, turns, reloads>>

\* It authenticates and is parked as a spare.
SlotWarm ==
  /\ Slot \in live /\ ~pool.spare
  /\ pool' = [pool EXCEPT !.spare = TRUE] /\ gate' = MarkAuthOk(gate)
  /\ UNCHANGED <<stage, live, sessions, seen, reload, turns, reloads>>
  /\ Signal

\* The pool was idle for hours: spare and refill go.
PoolExpires ==
  /\ pool.active /\ \A c \in Acp : stage[c] \in {"idle", "asked"}
  /\ pool' = Drained /\ live' = live \ {Slot}
  /\ UNCHANGED <<gate, stage, sessions, seen, reload, turns, reloads>>
  /\ Signal
----------------------------------------------------------------------------
(* The reload.                                                              *)

At(from, to) == reload.pc = from /\ reload' = [reload EXCEPT !.pc = to]

Press ==
  /\ At("idle", "start") /\ reloads < MaxReloads /\ reloads' = reloads + 1
  /\ UNCHANGED <<gate, stage, live, sessions, pool, seen, changed, turns>>

ShutGate ==
  /\ At("start", "clear") /\ gate' = [gate EXCEPT !.shut = TRUE]
  /\ UNCHANGED <<stage, live, sessions, pool, seen, changed, turns, reloads>>

ClearAuthOk ==
  /\ At("clear", "stop") /\ gate' = [gate EXCEPT !.authOk = FALSE]
  /\ UNCHANGED <<stage, live, sessions, pool, seen, changed, turns, reloads>>

\* stopAll: drain the pool; then, within the shared grace, the sessions it found die.
StopAll ==
  /\ reload.pc = "stop" /\ reload' = [pc |-> "grace", doomed |-> sessions]
  /\ pool' = Drained /\ live' = live \ {Slot}
  /\ UNCHANGED <<gate, stage, sessions, seen, changed, turns, reloads>>
StopAllEnds ==
  /\ At("grace", "kill")
  /\ live' = live \ reload.doomed /\ sessions' = sessions \ reload.doomed
  /\ UNCHANGED <<gate, stage, pool, seen, changed, turns, reloads>>
\* It fails: a defect that ends the reload.
StopAllFails ==
  /\ At("stop", "end") \/ At("grace", "end")
  /\ UNCHANGED <<gate, stage, live, sessions, pool, seen, changed, turns, reloads>>

\* killAllLiveCliChildren: kill what is registered now, wait for the exits.
KillAll ==
  /\ reload.pc = "kill"
  /\ reload' = [pc |-> IF live = {} THEN "check" ELSE "dying", doomed |-> live]
  /\ UNCHANGED <<gate, stage, live, sessions, pool, seen, changed, turns, reloads>>
\* The handles are taken as soon as the last one is dead.
Killed ==
  /\ reload.pc = "dying" /\ reload' = [pc |-> "check", doomed |-> {}]
  /\ live' = live \ reload.doomed
  /\ pool' = [pool EXCEPT !.spare = @ /\ Slot \notin reload.doomed]
  /\ UNCHANGED <<gate, stage, sessions, seen, changed, turns, reloads>>

\* Variant: only processes count, not clients that were granted and have none yet.
QuiescentProcesses == live = {}
\* No process is registered and no granted client is outstanding.
Quiescent == live = {} /\ gate.out = {}

\* Quiescent: claim the drain and go on.  Otherwise sleep until a handle completes.
Check ==
  /\ IF Quiescent THEN At("check", "sweep") /\ seen' = "expired"
     ELSE At("check", "wait") /\ UNCHANGED seen
  /\ changed' = (changed /\ ~Quiescent)
  /\ UNCHANGED <<gate, stage, live, sessions, pool, turns, reloads>>
Woken ==
  /\ changed /\ At("wait", "stop") /\ changed' = FALSE
  /\ UNCHANGED <<gate, stage, live, sessions, pool, seen, turns, reloads>>

\* The sweep; then the configured deletions, which may fail: the reload ends either way.
SweepRows ==
  /\ At("sweep", "delete") \/ At("delete", "end")
  /\ UNCHANGED <<gate, stage, live, sessions, pool, seen, changed, turns, reloads>>

\* The gate opens and serves who has queued up; the latch is released.
End ==
  /\ At("end", "idle") /\ gate' = Serve([gate EXCEPT !.shut = FALSE])
  /\ UNCHANGED <<stage, live, sessions, pool, seen, changed, turns, reloads>>

ReloadStep ==
  \/ ShutGate \/ ClearAuthOk \/ StopAll \/ StopAllEnds \/ StopAllFails \/ KillAll \/ Killed
  \/ Check \/ Woken \/ SweepRows \/ End
----------------------------------------------------------------------------
Client(c) ==
  Reserve(c) \/ Unreserve(c) \/ Arrive(c) \/ Abandon(c) \/ Proceed(c) \/ SessionEnds(c)
Next ==
  (\E c \in Clients : Client(c)) \/ SlotSpawn \/ SlotWarm \/ PoolExpires \/ Press \/ ReloadStep

Spec == Init /\ [][Next]_vars
\* Session starts and text generations time out, handlers return and the reload waits
\* for nothing but a change, so something of this goes on while it can.
FairSpec ==
  Spec /\ WF_vars(ReloadStep \/ \E c \in Clients : Proceed(c) \/ Unreserve(c))
----------------------------------------------------------------------------
GateType ==
  [shut : BOOLEAN, authOk : BOOLEAN, taken : BOOLEAN, queue : SUBSET Clients,
   seq : [Clients -> Nat], next : Nat, granted : [Clients -> {"none", "permit", "free"}],
   out : SUBSET Clients, reserved : SUBSET Acp]
Stages == {"idle", "asked", "cold", "auth", "bind", "failed", "bound", "leaving"}
ReloadStages ==
  {"idle", "start", "clear", "stop", "grace", "kill", "dying", "check", "wait", "sweep",
   "delete", "end"}

\* Types; a client in the queue waits there and was granted nothing.
TypeOK ==
  /\ gate \in GateType /\ stage \in [Clients -> Stages]
  /\ \A c \in gate.queue : stage[c] = "asked" /\ gate.granted[c] = "none"
  /\ live \subseteq Clients \cup {Slot} /\ sessions \subseteq Clients
  /\ pool \in [active : BOOLEAN, armed : BOOLEAN, spare : BOOLEAN]
  /\ seen \in {"none", "active", "expired"}
  /\ reload \in [pc : ReloadStages, doomed : SUBSET (Clients \cup {Slot})]
  /\ changed \in BOOLEAN /\ turns \in Nat /\ reloads \in Nat

\* The permit is taken exactly while one client holds it, and that client is still
\* out to spawn or to finish: no interrupt, failure, early release or reload leaks or
\* doubles it.
PermitIsExclusive ==
  /\ gate.taken <=> \E c \in Clients : gate.granted[c] = "permit"
  /\ \A c, d \in Clients : gate.granted[c] = "permit" /\ gate.granted[d] = "permit" => c = d
  /\ \A c \in Clients : gate.granted[c] = "permit" =>
       c \in gate.out /\ stage[c] \in {"asked", "cold", "auth", "bind", "bound"}

\* No wake-up is lost: while the gate is open nobody who may go is left in the queue.
NoWaiterForgotten ==
  ~gate.shut => IF gate.authOk THEN gate.queue = {} ELSE gate.taken \/ Eligible(gate) = {}

\* Once the kill pass is through, no client has a process or will get one before the
\* reload ends, and the gate is armed, whatever authenticated meanwhile.
ReloadLeavesNothing ==
  reload.pc \in {"sweep", "delete"} =>
    /\ live \cap Clients = {} /\ gate.out = {}
    /\ \A c \in Clients : ~MaySpawn(c) /\ stage[c] # "auth"
    /\ ~gate.authOk

\* The reload sleeps on a process that came up behind the kill: nothing will end it.
SleepsOnALateProcess == reload.pc = "wait" /\ live # {} /\ gate.out = {}

\* But for that the reload ends: it misses no change, and a client that is out reports one.
ReloadEndsOrSleeps == Reloading ~> ~Reloading \/ SleepsOnALateProcess

\* But for that every client that asks is let through, fails or is interrupted.
ClientsLeave ==
  \A c \in Clients : stage[c] # "idle" ~> stage[c] = "idle" \/ SleepsOnALateProcess
----------------------------------------------------------------------------
(* What a comment of the code says, and a run shows to fail.                *)

\* "It terminates": the kill pass comes to an end.
ReloadEnds == Reloading ~> ~Reloading
============================================================================
