--------------------------- MODULE MidTurnProofs ---------------------------
(* Proofs about MidTurn.                                                    *)
EXTENDS MidTurn, TLAPS

\* A session context stays one when a field takes a value of the field's type.
LEMMA CtxFlag ==
  ASSUME NEW c \in CtxType, NEW b \in BOOLEAN
  PROVE  /\ [c EXCEPT !.born = b] \in CtxType
         /\ [c EXCEPT !.alive = b] \in CtxType
         /\ [c EXCEPT !.stopped = b] \in CtxType
         /\ [c EXCEPT !.cancel = b] \in CtxType
         /\ [c EXCEPT !.exited = b] \in CtxType
         /\ [c EXCEPT !.shared = b] \in CtxType
  BY DEF CtxType
LEMMA CtxDown ==
  ASSUME NEW c \in CtxType, NEW d \in {"no", "claimed", "waiting", "gone"}
  PROVE  [c EXCEPT !.down = d] \in CtxType
  BY DEF CtxType
LEMMA CtxOwner ==
  ASSUME NEW c \in CtxType, NEW w \in Owners
  PROVE  [c EXCEPT !.owner = w] \in CtxType
  BY DEF CtxType
LEMMA CtxTurn ==
  ASSUME NEW c \in CtxType, NEW t \in Turns
  PROVE  /\ [c EXCEPT !.active = t] \in CtxType
         /\ [c EXCEPT !.prompt = t] \in CtxType
         /\ [c EXCEPT !.barrier = t] \in CtxType
         /\ [c EXCEPT !.wait = t] \in CtxType
  BY DEF CtxType
LEMMA CtxParts ==
  ASSUME NEW c \in CtxType
  PROVE  /\ c.owner \in Owners /\ c.active \in Turns /\ c.prompt \in Turns
         /\ c.barrier \in Turns /\ c.wait \in Turns
         /\ c.shared \in BOOLEAN /\ c.cancel \in BOOLEAN
  BY DEF CtxType

\* The same for what a fiber holds.
LEMMA FiberStage ==
  ASSUME NEW r \in FiberType, NEW st \in Stages
  PROVE  [r EXCEPT !.stage = st] \in FiberType
  BY DEF FiberType
LEMMA FiberSession ==
  ASSUME NEW r \in FiberType, NEW s \in Sessions \cup {NoSession}
  PROVE  /\ [r EXCEPT !.on = s] \in FiberType
         /\ [r EXCEPT !.in = s] \in FiberType
  BY DEF FiberType
LEMMA FiberItems ==
  ASSUME NEW r \in FiberType, NEW q \in Seq(Msgs)
  PROVE  [r EXCEPT !.items = q] \in FiberType
  BY DEF FiberType
LEMMA FiberEnd ==
  ASSUME NEW r \in FiberType, NEW e \in {"none", "completed", "cancelled", "failed"}
  PROVE  [r EXCEPT !.end = e] \in FiberType
  BY DEF FiberType
LEMMA FiberParts ==
  ASSUME NEW r \in FiberType
  PROVE  /\ r.stage \in Stages
         /\ r.on \in Sessions \cup {NoSession} /\ r.in \in Sessions \cup {NoSession}
         /\ r.items \in Seq(Msgs)
  BY DEF FiberType

\* The type invariant in parts: contexts, fibers, the rest.
CtxOK == ctx \in [Sessions -> CtxType]
Placed(r) == r.stage \in {"begun", "prompting"} => r.in # NoSession
FiberOK == fiber \in [Fibers -> FiberType] /\ \A f \in Fibers : Placed(fiber[f])
RestOK ==
  /\ current \in Sessions \cup {NoSession} /\ queue \in Seq(Msgs) /\ mark \in [Msgs -> Marks]
  /\ forks \in Nat /\ compactions \in Nat
LEMMA TypeParts == TypeOK <=> CtxOK /\ FiberOK /\ RestOK
  BY DEF TypeOK, CtxOK, FiberOK, RestOK, Placed, Stage

LEMMA TypeAgain ==
  ASSUME CtxOK', FiberOK', RestOK'
  PROVE  TypeOK'
  BY DEF TypeOK, CtxOK, FiberOK, RestOK, Placed, Stage

\* One context, or one fiber, changes.
LEMMA CtxMoves ==
  ASSUME CtxOK, NEW s \in Sessions, NEW c \in CtxType, ctx' = [ctx EXCEPT ![s] = c]
  PROVE  CtxOK'
  BY DEF CtxOK
LEMMA FiberMoves ==
  ASSUME FiberOK, NEW f \in Fibers, NEW r \in FiberType, Placed(r),
         fiber' = [fiber EXCEPT ![f] = r]
  PROVE  FiberOK'
  BY DEF FiberOK, Placed
LEMMA Marking ==
  ASSUME RestOK, NEW ms, NEW st \in Marks, MarkAll(ms, st)
  PROVE  mark' \in [Msgs -> Marks]
  BY DEF RestOK, MarkAll

LEMMA CtxStays ==
  ASSUME CtxOK, ctx' = ctx
  PROVE  CtxOK'
  BY DEF CtxOK
LEMMA FibersStay ==
  ASSUME FiberOK, fiber' = fiber
  PROVE  FiberOK'
  BY DEF FiberOK, Placed

\* A fiber goes on to a stage at which it needs no session, or has one.
LEMMA Staged ==
  ASSUME FiberOK, NEW f \in Fibers, NEW st \in Stages,
         st \in {"begun", "prompting"} => fiber[f].in # NoSession, To(f, st)
  PROVE  FiberOK'
<1>1. fiber[f] \in FiberType
  BY DEF FiberOK
<1>. DEFINE r == [fiber[f] EXCEPT !.stage = st]
<1>2. r \in FiberType
  BY <1>1, FiberStage
<1>3. Placed(r)
  BY <1>1 DEF Placed, FiberType
<1>4. fiber' = [fiber EXCEPT ![f] = r]
  BY DEF To, FiberOK
<1>. QED BY <1>2, <1>3, <1>4, FiberMoves

LEMMA Enqueued ==
  ASSUME TypeOK, NEW m \in Msgs, Enqueue(m)
  PROVE  FiberOK' /\ queue' \in Seq(Msgs) /\ mark' \in [Msgs -> Marks]
<1>1. FiberOK /\ RestOK /\ m \in Fibers /\ "done" \in Stages
  BY TypeParts DEF Fibers, Stages
<1>2. FiberOK'
  BY <1>1, Staged DEF Enqueue
<1>3. queue' \in Seq(Msgs) /\ mark' \in [Msgs -> Marks]
  BY <1>1 DEF Enqueue, RestOK, Marks
<1>. QED BY <1>2, <1>3

LEMMA QueuedUp ==
  ASSUME TypeOK, NEW m \in Msgs, QueueUp(m)
  PROVE  FiberOK' /\ queue' \in Seq(Msgs) /\ mark' \in [Msgs -> Marks]
<1>1. FiberOK /\ RestOK /\ m \in Fibers /\ "reading" \in Stages
  BY TypeParts DEF Fibers, Stages
<1>2. CASE m \in Attached
  <2>1. To(m, "reading") /\ UNCHANGED <<queue, mark>>
    BY <1>2 DEF QueueUp
  <2>2. FiberOK'
    BY <1>1, <2>1, Staged
  <2>. QED BY <1>1, <2>1, <2>2 DEF RestOK
<1>3. CASE m \notin Attached
  BY <1>3, Enqueued DEF QueueUp
<1>. QED BY <1>2, <1>3

\* The claim of the session.
LEMMA Claimed ==
  ASSUME TypeOK, NEW f \in Fibers, ClaimSlot(f)
  PROVE  CtxOK' /\ FiberOK'
<1>1. CtxOK /\ FiberOK /\ current \in Sessions
  BY TypeParts DEF RestOK, ClaimSlot, Listed
<1>2. [ctx[current] EXCEPT !.owner = f] \in CtxType
  BY <1>1, CtxOwner DEF CtxOK, Owners
<1>3. CtxOK'
  BY <1>1, <1>2 DEF ClaimSlot, CtxOK
<1>. DEFINE r == [fiber[f] EXCEPT !.stage = "claimed", !.on = current]
<1>4. fiber[f] \in FiberType /\ "claimed" \in Stages
  BY <1>1 DEF FiberOK, Stages, Holding
<1>5. [fiber[f] EXCEPT !.stage = "claimed"] \in FiberType
  BY <1>4, FiberStage
<1>6. r \in FiberType
  BY <1>1, <1>5, FiberSession
<1>7. Placed(r)
  BY <1>4 DEF Placed, FiberType
<1>8. fiber' = [fiber EXCEPT ![f] = r]
  BY <1>1 DEF ClaimSlot, FiberOK
<1>9. FiberOK'
  BY <1>1, <1>6, <1>7, <1>8, FiberMoves
<1>. QED BY <1>3, <1>9

\* The steps of a turn.
LEMMA TurnTypes ==
  ASSUME TypeOK, NEW f \in Fibers, Turn(f)
  PROVE  TypeOK'
<1>1. CtxOK /\ FiberOK /\ RestOK /\ fiber[f] \in FiberType
  BY TypeParts DEF FiberOK
<1>. DEFINE s == fiber[f].in
<1>2. s \in Sessions \cup {NoSession} /\ f \in Turns /\ None \in Turns
  BY <1>1, FiberParts DEF Turns
<1>3. CASE Begin(f)
  <2>1. CASE Listed /\ ~ctx[current].stopped /\ ctx[current].owner # Compaction
    <3>. DEFINE b == ctx[current].shared \/ fiber[f].on # current
                r == [fiber[f] EXCEPT !.stage = "begun", !.in = current]
                c == [ctx[current] EXCEPT !.active = f, !.barrier = f, !.cancel = FALSE, !.shared = b]
    <3>1. current \in Sessions /\ current # NoSession /\ ctx[current] \in CtxType
      BY <1>1, <2>1 DEF Listed, RestOK, CtxOK
    <3>2. [ctx[current] EXCEPT !.active = f] \in CtxType
      BY <1>2, <3>1, CtxTurn
    <3>3. [ctx[current] EXCEPT !.active = f, !.barrier = f] \in CtxType
      BY <1>2, <3>2, CtxTurn
    <3>4. [ctx[current] EXCEPT !.active = f, !.barrier = f, !.cancel = FALSE] \in CtxType
      BY <3>3, CtxFlag, Zenon
    <3>5. b \in BOOLEAN
      BY Zenon
    <3>6. c \in CtxType
      BY <3>4, <3>5, CtxFlag, Zenon
    <3>7. ctx' = [ctx EXCEPT ![current] = c]
      BY <1>1, <1>3, <2>1, <3>1 DEF Begin, CtxOK
    <3>8. CtxOK'
      BY <1>1, <3>1, <3>6, <3>7, CtxMoves
    <3>9. [fiber[f] EXCEPT !.stage = "begun"] \in FiberType
      BY <1>1, FiberStage DEF Stages, Holding
    <3>10. r \in FiberType
      BY <3>1, <3>9, FiberSession
    <3>11. Placed(r)
      BY <1>1, <3>1 DEF Placed, FiberType
    <3>12. fiber' = [fiber EXCEPT ![f] = r]
      BY <1>1, <1>3, <2>1 DEF Begin, FiberOK
    <3>13. FiberOK'
      BY <1>1, <3>10, <3>11, <3>12, FiberMoves
    <3>14. RestOK'
      BY <1>1, <1>3 DEF Begin, RestOK
    <3>. QED BY <3>8, <3>13, <3>14, TypeAgain
  <2>2. CASE ~(Listed /\ ~ctx[current].stopped /\ ctx[current].owner # Compaction)
    <3>1. To(f, "failed") /\ UNCHANGED ctx
      BY <1>3, <2>2 DEF Begin
    <3>2. FiberOK'
      BY <1>1, <3>1, Staged DEF Stages, Holding
    <3>3. CtxOK' /\ RestOK'
      BY <1>1, <1>3, <3>1 DEF Begin, CtxOK, RestOK
    <3>. QED BY <3>2, <3>3, TypeAgain
  <2>. QED BY <2>1, <2>2
<1>4. CASE Prompt(f)
  <2>1. Stage(f) = "begun" /\ s # NoSession /\ s \in Sessions
    BY <1>1, <1>2, <1>4 DEF Prompt, Stage, FiberOK, Placed
  <2>2. ctx[s] \in CtxType /\ RestOK'
    BY <1>1, <1>4, <2>1 DEF CtxOK, Prompt, RestOK
  <2>3. [ctx[s] EXCEPT !.prompt = f] \in CtxType /\ [ctx[s] EXCEPT !.prompt = None] \in CtxType
    BY <1>2, <2>2, CtxTurn
  <2>4. CtxOK'
    BY <1>1, <1>4, <2>1, <2>3, CtxMoves, CtxStays DEF Prompt, CtxOK
  <2>5. PICK st \in {"prompting", "interrupted", "failed"} : To(f, st)
    BY <1>4 DEF Prompt
  <2>6. st \in Stages
    BY <2>5 DEF Stages, Holding
  <2>7. FiberOK'
    BY <1>1, <2>1, <2>5, <2>6, Staged
  <2>. QED BY <2>2, <2>4, <2>7, TypeAgain
<1>5. CASE PromptEnds(f)
  <2>1. Stage(f) = "prompting" /\ s # NoSession /\ s \in Sessions
    BY <1>1, <1>2, <1>5 DEF PromptEnds, Stage, FiberOK, Placed
  <2>2. ctx[s] \in CtxType /\ RestOK'
    BY <1>1, <1>5, <2>1 DEF CtxOK, PromptEnds, RestOK
  <2>3. [ctx[s] EXCEPT !.prompt = None] \in CtxType
    BY <1>2, <2>2, CtxTurn
  <2>4. CtxOK'
    BY <1>1, <1>5, <2>1, <2>3, CtxMoves DEF PromptEnds, CtxOK
  <2>5. PICK st \in {"answered", "failed"} : To(f, st)
    BY <1>5 DEF PromptEnds
  <2>6. st \in Stages
    BY <2>5 DEF Stages, Holding
  <2>7. FiberOK'
    BY <1>1, <2>5, <2>6, Staged
  <2>. QED BY <2>2, <2>4, <2>7, TypeAgain
<1>6. CASE Complete(f)
  <2>1. CtxOK'
    <3>1. CASE s = NoSession
      BY <1>1, <1>6, <3>1, CtxStays DEF Complete
    <3>2. CASE s # NoSession
      <4>1. s \in Sessions /\ [ctx[s] EXCEPT !.active = None] \in CtxType
        BY <1>1, <1>2, <3>2, CtxTurn DEF CtxOK
      <4>2. ctx' = [ctx EXCEPT ![s] = [ctx[s] EXCEPT !.active = None]]
        BY <1>1, <1>6, <3>2 DEF Complete, CtxOK
      <4>. QED BY <1>1, <4>1, <4>2, CtxMoves
    <3>. QED BY <3>1, <3>2
  <2>2. PICK e \in {"completed", "cancelled", "failed"} :
          fiber' = [fiber EXCEPT ![f].stage = "settling", ![f].end = e]
    BY <1>6 DEF Complete
  <2>. DEFINE r == [fiber[f] EXCEPT !.stage = "settling", !.end = e]
  <2>3. [fiber[f] EXCEPT !.stage = "settling"] \in FiberType
    BY <1>1, FiberStage DEF Stages, Holding
  <2>4. r \in FiberType
    BY <2>2, <2>3, FiberEnd
  <2>5. Placed(r)
    BY <1>1 DEF Placed, FiberType
  <2>6. fiber' = [fiber EXCEPT ![f] = r]
    BY <1>1, <2>2 DEF FiberOK
  <2>7. FiberOK'
    BY <1>1, <2>4, <2>5, <2>6, FiberMoves
  <2>8. RestOK'
    BY <1>1, <1>6 DEF Complete, RestOK
  <2>. QED BY <2>1, <2>7, <2>8, TypeAgain
<1>7. CASE Settle(f)
  <2>1. CtxOK'
    <3>. DEFINE c(t) == [ctx[t] EXCEPT
                           !.owner = IF @ = f /\ fiber[f].on = t THEN None ELSE @,
                           !.barrier = IF @ = f THEN None ELSE @,
                           !.wait = IF @ = f THEN None ELSE @]
    <3>1. ASSUME NEW t \in Sessions PROVE c(t) \in CtxType
      <4>. DEFINE o == IF ctx[t].owner = f /\ fiber[f].on = t THEN None ELSE ctx[t].owner
                  b == IF ctx[t].barrier = f THEN None ELSE ctx[t].barrier
                  w == IF ctx[t].wait = f THEN None ELSE ctx[t].wait
      <4>1. ctx[t] \in CtxType
        BY <1>1, <3>1 DEF CtxOK
      <4>2. o \in Owners /\ b \in Turns /\ w \in Turns
        BY <4>1, CtxParts DEF Owners, Turns
      <4>. HIDE DEF o, b, w
      <4>3. [ctx[t] EXCEPT !.owner = o] \in CtxType
        BY <4>1, <4>2, CtxOwner
      <4>4. [ctx[t] EXCEPT !.owner = o, !.barrier = b] \in CtxType
        BY <4>2, <4>3, CtxTurn
      <4>5. [ctx[t] EXCEPT !.owner = o, !.barrier = b, !.wait = w] \in CtxType
        BY <4>2, <4>4, CtxTurn
      <4>. QED BY <4>1, <4>5 DEF o, b, w, CtxType
    <3>2. ctx' = [t \in Sessions |-> c(t)]
      BY <1>7, Zenon DEF Settle, Released
    <3>. QED BY <3>1, <3>2 DEF CtxOK
  <2>2. PICK st \in {"done", "off"} : fiber' = [fiber EXCEPT ![f] = Resting(st)]
    BY <1>7 DEF Settle
  <2>3. Resting(st) \in FiberType /\ Placed(Resting(st))
    BY <2>2 DEF Resting, FiberType, Placed, Stages
  <2>4. FiberOK'
    BY <1>1, <2>2, <2>3, FiberMoves
  <2>5. RestOK'
    <3>1. CASE fiber[f].end = "completed"
      <4>1. /\ MarkAll(Elements(fiber[f].items), "delivered")
            /\ forks' = forks + 1 /\ UNCHANGED <<queue, current, compactions>>
        BY <1>7, <3>1 DEF Settle
      <4>2. mark' \in [Msgs -> Marks]
        BY <1>1, <4>1, Marking DEF Marks
      <4>. QED BY <1>1, <4>1, <4>2 DEF RestOK
    <3>2. CASE fiber[f].end # "completed"
      <4>1. /\ MarkAll(Elements(fiber[f].items) \cup Elements(queue), "undelivered")
            /\ queue' = <<>> /\ UNCHANGED <<forks, current, compactions>>
        BY <1>7, <3>2 DEF Settle
      <4>2. mark' \in [Msgs -> Marks]
        BY <1>1, <4>1, Marking DEF Marks
      <4>. QED BY <1>1, <4>1, <4>2 DEF RestOK
    <3>. QED BY <3>1, <3>2
  <2>. QED BY <2>1, <2>4, <2>5, TypeAgain
<1>. QED BY <1>3, <1>4, <1>5, <1>6, <1>7 DEF Turn

\* The steps of a send.
LEMMA SendingTypes ==
  ASSUME TypeOK, NEW m \in Msgs, Sending(m)
  PROVE  TypeOK'
<1>1. CtxOK /\ FiberOK /\ RestOK /\ m \in Fibers /\ fiber[m] \in FiberType
  BY TypeParts DEF FiberOK, Fibers
<1>2. CASE Send(m)
  <2>1. CtxOK' /\ current' = current /\ forks' = forks /\ compactions' = compactions
    BY <1>1, <1>2, CtxStays DEF Send
  <2>2. CASE TurnRuns
    <3>1. QueueUp(m)
      BY <1>2, <2>2 DEF Send
    <3>2. FiberOK' /\ queue' \in Seq(Msgs) /\ mark' \in [Msgs -> Marks]
      BY <3>1, QueuedUp
    <3>. QED BY <1>1, <2>1, <3>2, TypeAgain DEF RestOK
  <2>3. CASE ~TurnRuns
    <3>1. To(m, "checked") /\ UNCHANGED <<queue, mark>>
      BY <1>2, <2>3 DEF Send
    <3>2. FiberOK'
      BY <1>1, <3>1, Staged DEF Stages
    <3>. QED BY <1>1, <2>1, <3>1, <3>2, TypeAgain DEF RestOK
  <2>. QED BY <2>2, <2>3
<1>3. CASE Read(m)
  <2>1. CtxOK' /\ current' = current /\ forks' = forks /\ compactions' = compactions
    BY <1>1, <1>3, CtxStays DEF Read
  <2>2. CASE Enqueue(m)
    <3>1. FiberOK' /\ queue' \in Seq(Msgs) /\ mark' \in [Msgs -> Marks]
      BY <2>2, Enqueued
    <3>. QED BY <1>1, <2>1, <3>1, TypeAgain DEF RestOK
  <2>3. CASE To(m, "done") /\ MarkAll({m}, "undelivered") /\ UNCHANGED queue
    <3>1. FiberOK'
      BY <1>1, <2>3, Staged DEF Stages
    <3>2. mark' \in [Msgs -> Marks]
      BY <1>1, <2>3, Marking DEF Marks
    <3>. QED BY <1>1, <2>1, <2>3, <3>1, <3>2, TypeAgain DEF RestOK
  <2>. QED BY <1>3, <2>2, <2>3 DEF Read
<1>4. CASE Claim(m)
  <2>1. current' = current /\ forks' = forks /\ compactions' = compactions
    BY <1>4 DEF Claim
  <2>2. CASE ClaimSlot(m) /\ UNCHANGED <<queue, mark>>
    <3>1. CtxOK' /\ FiberOK'
      BY <1>1, <2>2, Claimed
    <3>. QED BY <1>1, <2>1, <2>2, <3>1, TypeAgain DEF RestOK
  <2>3. CASE To(m, "unclaimed") /\ UNCHANGED <<ctx, queue, mark>>
    <3>1. FiberOK'
      BY <1>1, <2>3, Staged DEF Stages
    <3>. QED BY <1>1, <2>1, <2>3, <3>1, CtxStays, TypeAgain DEF RestOK
  <2>4. CASE QueueUp(m) /\ UNCHANGED ctx
    <3>1. FiberOK' /\ queue' \in Seq(Msgs) /\ mark' \in [Msgs -> Marks]
      BY <2>4, QueuedUp
    <3>. QED BY <1>1, <2>1, <2>4, <3>1, CtxStays, TypeAgain DEF RestOK
  <2>. QED BY <1>4, <2>2, <2>3, <2>4 DEF Claim
<1>. QED BY <1>2, <1>3, <1>4 DEF Sending

\* A flush, and a flush with nothing to do.
LEMMA FlushTypes ==
  ASSUME TypeOK, FlushNothing \/ \E f \in Flushers : Flush(f)
  PROVE  TypeOK'
<1>1. CtxOK /\ FiberOK /\ RestOK
  BY TypeParts
<1>2. CASE FlushNothing
  <2>1. CtxOK' /\ FiberOK'
    BY <1>1, <1>2, CtxStays, FibersStay DEF FlushNothing
  <2>2. RestOK'
    BY <1>1, <1>2 DEF FlushNothing, RestOK
  <2>. QED BY <2>1, <2>2, TypeAgain
<1>3. ASSUME NEW f \in Flushers, Flush(f) PROVE TypeOK'
  <2>1. /\ f \in Fibers /\ fiber[f] \in FiberType
        /\ queue \in Seq(Msgs) /\ <<>> \in Seq(Msgs)
        /\ current' = current /\ mark' = mark /\ compactions' = compactions
        /\ forks' \in Nat
    <3>1. f \in Fibers /\ fiber[f] \in FiberType
      BY <1>1 DEF FiberOK, Fibers
    <3>2. queue \in Seq(Msgs) /\ <<>> \in Seq(Msgs) /\ forks \in Nat
      BY <1>1 DEF RestOK
    <3>3. /\ forks > 0 /\ forks' = forks - 1
          /\ current' = current /\ mark' = mark /\ compactions' = compactions
      BY <1>3 DEF Flush
    <3>4. forks' \in Nat
      BY <3>2, <3>3
    <3>. QED BY <3>1, <3>2, <3>3, <3>4
  <2>2. CASE Listed /\ ctx[current].owner # None
    <3>1. UNCHANGED <<ctx, fiber, queue>>
      BY <1>3, <2>2 DEF Flush
    <3>. QED BY <1>1, <2>1, <3>1, CtxStays, FibersStay, TypeAgain DEF RestOK
  <2>3. CASE Listed /\ ctx[current].owner = None
    <3>. DEFINE r == [fiber[f] EXCEPT !.stage = "claimed", !.on = current, !.items = queue]
    <3>1. current \in Sessions
      BY <1>1, <2>3 DEF RestOK, Listed
    <3>2. /\ queue' = <<>> /\ ctx' = [ctx EXCEPT ![current].owner = f]
          /\ fiber' = [fiber EXCEPT ![f].stage = "claimed", ![f].on = current,
                                    ![f].items = queue]
      BY <1>3, <2>3 DEF Flush
    <3>3. [ctx[current] EXCEPT !.owner = f] \in CtxType
      BY <1>1, <2>1, <3>1, CtxOwner DEF CtxOK, Owners
    <3>4. CtxOK'
      BY <1>1, <3>1, <3>2, <3>3 DEF CtxOK
    <3>5. [fiber[f] EXCEPT !.stage = "claimed"] \in FiberType
      BY <2>1, FiberStage DEF Stages, Holding
    <3>6. [fiber[f] EXCEPT !.stage = "claimed", !.on = current] \in FiberType
      BY <3>1, <3>5, FiberSession
    <3>7. r \in FiberType
      BY <2>1, <3>6, FiberItems
    <3>8. Placed(r)
      BY <2>1 DEF Placed, FiberType
    <3>9. fiber' = [fiber EXCEPT ![f] = r]
      BY <1>1, <3>2 DEF FiberOK
    <3>10. FiberOK'
      BY <1>1, <2>1, <3>7, <3>8, <3>9, FiberMoves
    <3>11. RestOK'
      BY <1>1, <2>1, <3>2 DEF RestOK
    <3>. QED BY <3>4, <3>10, <3>11, TypeAgain
  <2>4. CASE ~Listed
    <3>. DEFINE r == [fiber[f] EXCEPT !.stage = "unclaimed", !.items = queue]
    <3>1. /\ queue' = <<>> /\ ctx' = ctx
          /\ fiber' = [fiber EXCEPT ![f].stage = "unclaimed", ![f].items = queue]
      BY <1>3, <2>4 DEF Flush
    <3>2. [fiber[f] EXCEPT !.stage = "unclaimed"] \in FiberType
      BY <2>1, FiberStage DEF Stages
    <3>3. r \in FiberType
      BY <2>1, <3>2, FiberItems
    <3>4. Placed(r)
      BY <2>1 DEF Placed, FiberType
    <3>5. fiber' = [fiber EXCEPT ![f] = r]
      BY <1>1, <3>1 DEF FiberOK
    <3>6. FiberOK'
      BY <1>1, <2>1, <3>3, <3>4, <3>5, FiberMoves
    <3>7. RestOK'
      BY <1>1, <2>1, <3>1 DEF RestOK
    <3>. QED BY <1>1, <3>1, <3>6, <3>7, CtxStays, TypeAgain
  <2>. QED BY <2>2, <2>3, <2>4
<1>. QED BY <1>2, <1>3

\* What the agent does: drains, compactions, deaths.
LEMMA AgentTypes ==
  ASSUME TypeOK, NEW s \in Sessions, Drain(s) \/ CompactEnds(s) \/ Die(s) \/ Compact
  PROVE  TypeOK'
<1>1. CtxOK /\ FiberOK /\ RestOK /\ ctx[s] \in CtxType
  BY TypeParts DEF CtxOK
<1>2. CASE Drain(s)
  <2>1. CtxOK' /\ FiberOK'
    BY <1>1, <1>2, CtxStays, FibersStay DEF Drain
  <2>2. mark' \in [Msgs -> Marks]
    BY <1>1, <1>2, Marking DEF Drain, Marks
  <2>3. queue' \in Seq(Msgs)
    <3>1. queue \in Seq(Msgs) /\ Len(queue) \in Nat /\ DrainCap \in Nat
      BY <1>1, BoundsAssumption DEF RestOK
    <3>. DEFINE n == IF Len(queue) < DrainCap THEN Len(queue) ELSE DrainCap
    <3>2. n \in 0 .. Len(queue)
      BY <3>1
    <3>. HIDE DEF n
    <3>3. Len(SubSeq(queue, 1, n)) = n
      BY <3>1, <3>2
    <3>4. queue' = SubSeq(queue, n + 1, Len(queue))
      BY <1>2, <3>3 DEF Drain, TakeForDrain, n
    <3>. QED BY <3>1, <3>2, <3>4
  <2>. QED BY <1>1, <1>2, <2>1, <2>2, <2>3, TypeAgain DEF Drain, RestOK
<1>3. CASE CompactEnds(s)
  <2>1. [ctx[s] EXCEPT !.owner = None] \in CtxType
    BY <1>1, CtxOwner DEF Owners
  <2>2. ctx' = [ctx EXCEPT ![s] = [ctx[s] EXCEPT !.owner = None]]
    BY <1>1, <1>3 DEF CompactEnds, CtxOK
  <2>. QED BY <1>1, <1>3, <2>1, <2>2, CtxMoves, FibersStay, TypeAgain DEF CompactEnds, RestOK
<1>4. CASE Die(s)
  <2>1. [ctx[s] EXCEPT !.alive = FALSE] \in CtxType
    BY <1>1, CtxFlag, Zenon
  <2>2. ctx' = [ctx EXCEPT ![s] = [ctx[s] EXCEPT !.alive = FALSE]]
    BY <1>1, <1>4 DEF Die, CtxOK
  <2>. QED BY <1>1, <1>4, <2>1, <2>2, CtxMoves, FibersStay, TypeAgain DEF Die, RestOK
<1>5. CASE Compact
  <2>1. current \in Sessions
    BY <1>1, <1>5 DEF Compact, Listed, RestOK
  <2>2. [ctx[current] EXCEPT !.owner = Compaction] \in CtxType
    BY <1>1, <2>1, CtxOwner DEF Owners, CtxOK
  <2>3. ctx' = [ctx EXCEPT ![current] = [ctx[current] EXCEPT !.owner = Compaction]]
    BY <1>1, <1>5, <2>1 DEF Compact, CtxOK
  <2>4. CtxOK'
    BY <1>1, <2>1, <2>2, <2>3, CtxMoves
  <2>. QED BY <1>1, <1>5, <2>4, FibersStay, TypeAgain DEF Compact, RestOK
<1>. QED BY <1>2, <1>3, <1>4, <1>5

\* The steps in the life of a session.
LEMMA SessionTypes ==
  ASSUME TypeOK, NEW s \in Sessions, Start(s) \/ Stop(s) \/ Ending(s)
  PROVE  TypeOK'
<1>1. CtxOK /\ FiberOK /\ RestOK /\ ctx[s] \in CtxType
  BY TypeParts DEF CtxOK
<1>2. CASE Start(s)
  <2>1. [ctx[s] EXCEPT !.born = TRUE] \in CtxType
    BY <1>1, CtxFlag, Zenon
  <2>2. [ctx[s] EXCEPT !.born = TRUE, !.alive = TRUE] \in CtxType
    BY <2>1, CtxFlag, Zenon
  <2>3. ctx' = [ctx EXCEPT ![s] = [ctx[s] EXCEPT !.born = TRUE, !.alive = TRUE]]
    BY <1>1, <1>2 DEF Start, CtxOK
  <2>4. CtxOK'
    BY <1>1, <2>2, <2>3, CtxMoves
  <2>. QED BY <1>1, <1>2, <2>4, FibersStay, TypeAgain DEF Start, RestOK
<1>3. CASE Stop(s)
  <2>1. PICK intent \in {ctx[s].cancel, TRUE} :
          ctx' = [ctx EXCEPT ![s].stopped = TRUE, ![s].cancel = intent, ![s].down = "claimed"]
    BY <1>3 DEF Stop
  <2>2. intent \in BOOLEAN
    BY <1>1, <2>1, CtxParts, Zenon
  <2>3. [ctx[s] EXCEPT !.stopped = TRUE] \in CtxType
    BY <1>1, CtxFlag, Zenon
  <2>4. [ctx[s] EXCEPT !.stopped = TRUE, !.cancel = intent] \in CtxType
    BY <2>2, <2>3, CtxFlag, Zenon
  <2>5. [ctx[s] EXCEPT !.stopped = TRUE, !.cancel = intent, !.down = "claimed"] \in CtxType
    BY <2>4, CtxDown
  <2>6. CtxOK'
    BY <1>1, <2>1, <2>5 DEF CtxOK
  <2>7. mark' \in [Msgs -> Marks]
    BY <1>1, <1>3, Marking DEF Stop, Marks
  <2>. QED BY <1>1, <1>3, <2>6, <2>7, FibersStay, TypeAgain DEF Stop, RestOK
<1>4. CASE TearDown(s)
  <2>1. CASE AtPrompt(s)
    <3>. DEFINE p == ctx[s].prompt
    <3>1. p \in Fibers /\ ctx[s].barrier \in Turns /\ None \in Turns
      BY <1>1, <2>1, CtxParts DEF AtPrompt, Turns
    <3>2. [ctx[s] EXCEPT !.prompt = None] \in CtxType
      BY <1>1, <3>1, CtxTurn
    <3>3. [ctx[s] EXCEPT !.prompt = None, !.wait = ctx[s].barrier] \in CtxType
      BY <3>1, <3>2, CtxTurn
    <3>4. [ctx[s] EXCEPT !.prompt = None, !.wait = ctx[s].barrier, !.down = "waiting"] \in CtxType
      BY <3>3, CtxDown
    <3>5. /\ ctx' = [ctx EXCEPT ![s].prompt = None, ![s].wait = ctx[s].barrier,
                               ![s].down = "waiting"]
          /\ To(p, "interrupted")
      BY <1>4, <2>1 DEF TearDown, To
    <3>6. CtxOK'
      BY <1>1, <3>4, <3>5 DEF CtxOK
    <3>7. FiberOK'
      BY <1>1, <3>1, <3>5, Staged DEF Stages, Holding
    <3>. QED BY <1>1, <1>4, <3>6, <3>7, TypeAgain DEF TearDown, RestOK
  <2>2. CASE ~AtPrompt(s)
    <3>. DEFINE w == IF ctx[s].active # None THEN ctx[s].barrier ELSE None
    <3>1. w \in Turns
      BY <1>1, CtxParts DEF Turns
    <3>2. /\ ctx' = [ctx EXCEPT ![s].alive = FALSE, ![s].down = "waiting", ![s].wait = w]
          /\ UNCHANGED fiber
      BY <1>4, <2>2 DEF TearDown
    <3>. HIDE DEF w
    <3>3. [ctx[s] EXCEPT !.alive = FALSE] \in CtxType
      BY <1>1, CtxFlag, Zenon
    <3>4. [ctx[s] EXCEPT !.alive = FALSE, !.down = "waiting"] \in CtxType
      BY <3>3, CtxDown
    <3>5. [ctx[s] EXCEPT !.alive = FALSE, !.down = "waiting", !.wait = w] \in CtxType
      BY <3>1, <3>4, CtxTurn
    <3>6. CtxOK'
      BY <1>1, <3>2, <3>5 DEF CtxOK
    <3>. QED BY <1>1, <1>4, <3>2, <3>6, FibersStay, TypeAgain DEF TearDown, RestOK
  <2>. QED BY <2>1, <2>2
<1>5. CASE Unlist(s)
  <2>1. [ctx[s] EXCEPT !.down = "gone"] \in CtxType
    BY <1>1, CtxDown
  <2>2. CtxOK'
    BY <1>1, <1>5, <2>1 DEF Unlist, CtxOK
  <2>. QED BY <1>1, <1>5, <2>2, FibersStay, TypeAgain DEF Unlist, RestOK
<1>6. CASE Kill(s)
  <2>1. [ctx[s] EXCEPT !.alive = FALSE] \in CtxType
    BY <1>1, CtxFlag, Zenon
  <2>2. CtxOK'
    BY <1>1, <1>6, <2>1 DEF Kill, CtxOK
  <2>. QED BY <1>1, <1>6, <2>2, FibersStay, TypeAgain DEF Kill, RestOK
<1>7. CASE SeeExit(s)
  <2>1. [ctx[s] EXCEPT !.exited = TRUE] \in CtxType
    BY <1>1, CtxFlag, Zenon
  <2>2. CtxOK'
    BY <1>1, <1>7, <2>1 DEF SeeExit, CtxOK
  <2>. QED BY <1>1, <1>7, <2>2, FibersStay, TypeAgain DEF SeeExit, RestOK
<1>. QED BY <1>2, <1>3, <1>4, <1>5, <1>6, <1>7 DEF Ending

LEMMA InitTypes == Init => TypeOK
<1>. SUFFICES ASSUME Init PROVE TypeOK
  OBVIOUS
<1>1. Unborn \in CtxType
  BY DEF Unborn, CtxType, Owners, Turns
<1>2. \A st \in {"idle", "off"} : Resting(st) \in FiberType /\ Placed(Resting(st))
  BY DEF Resting, FiberType, Placed, Stages
<1>3. CtxOK
  BY <1>1 DEF Init, CtxOK
<1>4. FiberOK
  BY <1>2 DEF Init, FiberOK
<1>5. RestOK
  BY DEF Init, RestOK, Marks
<1>. QED BY <1>3, <1>4, <1>5, TypeParts

LEMMA StepTypes == TypeOK /\ [Next]_vars => TypeOK'
<1>. SUFFICES ASSUME TypeOK, [Next]_vars PROVE TypeOK'
  OBVIOUS
<1>1. ASSUME NEW m \in Msgs, Sending(m) PROVE TypeOK'
  BY <1>1, SendingTypes
<1>2. ASSUME NEW f \in Fibers, Turn(f) PROVE TypeOK'
  BY <1>2, TurnTypes
<1>3. CASE FlushNothing \/ \E f \in Flushers : Flush(f)
  BY <1>3, FlushTypes
<1>4. ASSUME NEW s \in Sessions, Drain(s) \/ CompactEnds(s) \/ Die(s) PROVE TypeOK'
  BY <1>4, AgentTypes
<1>5. ASSUME NEW s \in Sessions, Start(s) \/ Stop(s) \/ Ending(s) PROVE TypeOK'
  BY <1>5, SessionTypes
<1>6. CASE Compact
  <2>1. current \in Sessions
    BY <1>6, TypeParts DEF Compact, Listed, RestOK
  <2>. QED BY <1>6, <2>1, AgentTypes
<1>7. CASE UNCHANGED vars
  BY <1>7 DEF vars, TypeOK, Stage
<1>. QED BY <1>1, <1>2, <1>3, <1>4, <1>5, <1>6, <1>7 DEF Next

\* Every step of a turn, a send, a flush or a session's end leaves contexts, fibers, queue
\* and marks with values of their types, and a turn that has registered with its session.
THEOREM TypeCorrect == Spec => []TypeOK
BY InitTypes, StepTypes, PTL DEF Spec
-----------------------------------------------------------------------------
(* Claims.  ClaimIsHeld is not inductive: that a fiber without a claim      *)
(* names no session has to be known when the fiber claims or begins.        *)

ClaimInv ==
  /\ \A s \in Sessions, f \in Fibers : ctx[s].owner = f <=> fiber[f].on = s
  /\ \A f \in Fibers : fiber[f].on # NoSession => fiber[f].stage \in Holding

LEMMA ClaimMeans == ClaimInv => ClaimIsHeld /\ ClaimsExclude
<1>. SUFFICES ASSUME ClaimInv PROVE ClaimIsHeld /\ ClaimsExclude
  OBVIOUS
<1>1. \A s \in Sessions : s # NoSession
  BY DEF Sessions, NoSession
<1>2. ClaimIsHeld
  BY <1>1 DEF ClaimInv, ClaimIsHeld, Stage
<1>3. ClaimsExclude
  BY DEF ClaimInv, ClaimsExclude
<1>. QED BY <1>2, <1>3

\* A step that frees no owner, names none, and leaves those who hold a claim holding it.
FibersHold ==
  \A f \in Fibers : /\ fiber'[f].on = fiber[f].on
                    /\ fiber[f].stage \in Holding => fiber'[f].stage \in Holding
OwnersStay ==
  \A s \in Sessions, f \in Fibers : ctx'[s].owner = f <=> ctx[s].owner = f
LEMMA ClaimStays ==
  ASSUME ClaimInv, FibersHold, OwnersStay
  PROVE  ClaimInv'
  BY DEF ClaimInv, FibersHold, OwnersStay

LEMMA Unmoved ==
  ASSUME UNCHANGED fiber
  PROVE  FibersHold
  BY DEF FibersHold
LEMMA Unowned ==
  ASSUME UNCHANGED ctx
  PROVE  OwnersStay
  BY DEF OwnersStay
LEMMA StagedHolds ==
  ASSUME FiberOK, NEW f \in Fibers, NEW st, To(f, st),
         fiber[f].stage \in Holding => st \in Holding
  PROVE  FibersHold
<1>1. fiber[f] \in FiberType
  BY DEF FiberOK
<1>2. \A g \in Fibers : fiber'[g] = IF g = f THEN [fiber[f] EXCEPT !.stage = st] ELSE fiber[g]
  BY DEF To, FiberOK
<1>. QED BY <1>1, <1>2 DEF FibersHold, FiberType
LEMMA QueuedHolds ==
  ASSUME FiberOK, NEW m \in Msgs, fiber[m].stage \notin Holding, QueueUp(m) \/ Enqueue(m)
  PROVE  FibersHold
<1>1. m \in Fibers
  BY DEF Fibers
<1>2. PICK st : To(m, st)
  BY DEF QueueUp, Enqueue
<1>. QED BY <1>1, <1>2, StagedHolds

\* One context changes, and its owner does not.
LEMMA OwnerKept ==
  ASSUME CtxOK, NEW s \in Sessions, NEW c, ctx' = [ctx EXCEPT ![s] = c],
         c.owner = ctx[s].owner
  PROVE  OwnersStay
  BY DEF CtxOK, OwnersStay

\* A fiber without a claim takes a session that has no owner.
LEMMA ClaimTaken ==
  ASSUME TypeOK, ClaimInv, NEW f \in Fibers, NEW s \in Sessions, NEW c, NEW r,
         fiber[f].stage \notin Holding, ctx[s].owner = None,
         ctx' = [ctx EXCEPT ![s] = c], c.owner = f,
         fiber' = [fiber EXCEPT ![f] = r], r.on = s, r.stage = "claimed"
  PROVE  ClaimInv'
<1>1. CtxOK /\ FiberOK /\ None \notin Fibers /\ fiber[f].on = NoSession
  BY TypeParts, FibersAssumption DEF ClaimInv
<1>2. \A t \in Sessions : ctx'[t].owner = IF t = s THEN f ELSE ctx[t].owner
  BY <1>1 DEF CtxOK
<1>3. \A g \in Fibers : fiber'[g] = IF g = f THEN r ELSE fiber[g]
  BY <1>1 DEF FiberOK
<1>4. \A t \in Sessions : t # NoSession
  BY DEF Sessions, NoSession
<1>5. ASSUME NEW t \in Sessions, NEW g \in Fibers
      PROVE  ctx'[t].owner = g <=> fiber'[g].on = t
  BY <1>1, <1>2, <1>3, <1>4 DEF ClaimInv
<1>6. ASSUME NEW g \in Fibers, fiber'[g].on # NoSession
      PROVE  fiber'[g].stage \in Holding
  BY <1>3, <1>6 DEF ClaimInv, Holding
<1>. QED BY <1>5, <1>6 DEF ClaimInv

LEMMA SendingClaims ==
  ASSUME TypeOK, ClaimInv, NEW m \in Msgs, Sending(m)
  PROVE  ClaimInv'
<1>1. FiberOK /\ CtxOK /\ m \in Fibers
  BY TypeParts DEF Fibers
<1>2. CASE Send(m)
  <2>1. fiber[m].stage \notin Holding /\ (QueueUp(m) \/ To(m, "checked"))
    BY <1>2 DEF Send, Stage, Holding
  <2>. QED BY <1>1, <1>2, <2>1, QueuedHolds, StagedHolds, Unowned, ClaimStays DEF Send
<1>3. CASE Read(m)
  <2>1. fiber[m].stage \notin Holding /\ (Enqueue(m) \/ To(m, "done"))
    BY <1>3 DEF Read, Stage, Holding
  <2>. QED BY <1>1, <1>3, <2>1, QueuedHolds, StagedHolds, Unowned, ClaimStays DEF Read
<1>4. CASE Claim(m)
  <2>1. fiber[m].stage \notin Holding
    BY <1>4 DEF Claim, Stage, Holding
  <2>2. CASE ClaimSlot(m)
    <3>. DEFINE c == [ctx[current] EXCEPT !.owner = m]
                r == [fiber[m] EXCEPT !.stage = "claimed", !.on = current]
    <3>1. current \in Sessions /\ ctx[current].owner = None
      BY <2>2, TypeParts DEF ClaimSlot, Listed, RestOK
    <3>2. ctx' = [ctx EXCEPT ![current] = c] /\ fiber' = [fiber EXCEPT ![m] = r]
      BY <1>1, <2>2, <3>1 DEF ClaimSlot, CtxOK, FiberOK
    <3>3. c.owner = m /\ r.on = current /\ r.stage = "claimed"
      BY <1>1, <3>1 DEF CtxOK, FiberOK, CtxType, FiberType
    <3>. QED BY <1>1, <2>1, <3>1, <3>2, <3>3, ClaimTaken
  <2>3. CASE UNCHANGED ctx /\ (QueueUp(m) \/ To(m, "unclaimed"))
    BY <1>1, <2>1, <2>3, QueuedHolds, StagedHolds, Unowned, ClaimStays
  <2>. QED BY <1>4, <2>2, <2>3 DEF Claim
<1>. QED BY <1>2, <1>3, <1>4 DEF Sending

LEMMA TurnClaims ==
  ASSUME TypeOK, ClaimInv, NEW f \in Fibers, Turn(f)
  PROVE  ClaimInv'
<1>1. FiberOK /\ CtxOK /\ fiber[f] \in FiberType
  BY TypeParts DEF FiberOK
<1>. DEFINE s == fiber[f].in
<1>2. CASE Begin(f)
  <2>1. CASE Listed /\ ~ctx[current].stopped /\ ctx[current].owner # Compaction
    <3>. DEFINE c == [ctx[current] EXCEPT !.active = f, !.barrier = f, !.cancel = FALSE,
                                        !.shared = @ \/ fiber[f].on # current]
                r == [fiber[f] EXCEPT !.stage = "begun", !.in = current]
    <3>1. current \in Sessions /\ ctx[current] \in CtxType
      BY <1>1, <2>1, TypeParts DEF Listed, RestOK, CtxOK
    <3>2. ctx' = [ctx EXCEPT ![current] = c] /\ fiber' = [fiber EXCEPT ![f] = r]
      BY <1>1, <1>2, <2>1, <3>1 DEF Begin, CtxOK, FiberOK
    <3>3. c.owner = ctx[current].owner /\ r.on = fiber[f].on /\ r.stage \in Holding
      BY <1>1, <3>1 DEF CtxType, FiberType, Holding
    <3>. HIDE DEF c, r
    <3>4. FibersHold
      BY <1>1, <3>2, <3>3 DEF FibersHold, FiberOK
    <3>. QED BY <1>1, <3>1, <3>2, <3>3, <3>4, OwnerKept, ClaimStays
  <2>2. CASE ~(Listed /\ ~ctx[current].stopped /\ ctx[current].owner # Compaction)
    <3>1. To(f, "failed") /\ UNCHANGED ctx /\ "failed" \in Holding
      BY <1>2, <2>2 DEF Begin, Holding
    <3>. QED BY <1>1, <3>1, StagedHolds, Unowned, ClaimStays
  <2>. QED BY <2>1, <2>2
<1>3. CASE Prompt(f) \/ PromptEnds(f)
  <2>1. s \in Sessions /\ ctx[s] \in CtxType
    <3>1. fiber[f].stage \in {"begun", "prompting"}
      BY <1>3 DEF Prompt, PromptEnds, Stage
    <3>. QED BY <1>1, <3>1, FiberParts DEF FiberOK, Placed, CtxOK
  <2>2. PICK st \in {"prompting", "interrupted", "failed", "answered"} : To(f, st)
    BY <1>3 DEF Prompt, PromptEnds
  <2>3. FibersHold
    BY <1>1, <2>2, StagedHolds DEF Holding
  <2>4. UNCHANGED ctx \/ \E p : ctx' = [ctx EXCEPT ![s] = [ctx[s] EXCEPT !.prompt = p]]
    BY <1>1, <1>3, <2>1 DEF Prompt, PromptEnds, CtxOK
  <2>5. \A p : [ctx[s] EXCEPT !.prompt = p].owner = ctx[s].owner
    BY <2>1 DEF CtxType
  <2>6. OwnersStay
    BY <1>1, <2>1, <2>4, <2>5, OwnerKept, Unowned
  <2>. QED BY <2>3, <2>6, ClaimStays
<1>4. CASE Complete(f)
  <2>1. PICK e : fiber' = [fiber EXCEPT ![f].stage = "settling", ![f].end = e]
    BY <1>4 DEF Complete
  <2>. DEFINE r == [fiber[f] EXCEPT !.stage = "settling", !.end = e]
  <2>2. fiber' = [fiber EXCEPT ![f] = r] /\ r.on = fiber[f].on /\ r.stage \in Holding
    BY <1>1, <2>1 DEF FiberOK, FiberType, Holding
  <2>. HIDE DEF r
  <2>3. FibersHold
    BY <1>1, <2>2 DEF FibersHold, FiberOK
  <2>4. CASE s = NoSession
    BY <1>4, <2>3, <2>4, Unowned, ClaimStays DEF Complete
  <2>5. CASE s # NoSession
    <3>. DEFINE c == [ctx[s] EXCEPT !.active = None]
    <3>1. s \in Sessions /\ ctx[s] \in CtxType
      BY <1>1, <2>5, FiberParts DEF CtxOK
    <3>2. ctx' = [ctx EXCEPT ![s] = c] /\ c.owner = ctx[s].owner
      BY <1>1, <1>4, <2>5, <3>1 DEF Complete, CtxOK, CtxType
    <3>. QED BY <1>1, <2>3, <3>1, <3>2, OwnerKept, ClaimStays
  <2>. QED BY <2>4, <2>5
<1>5. CASE Settle(f)
  <2>1. PICK st : fiber' = [fiber EXCEPT ![f] = Resting(st)]
    BY <1>5 DEF Settle
  <2>2. \A g \in Fibers : fiber'[g] = IF g = f THEN Resting(st) ELSE fiber[g]
    BY <1>1, <2>1 DEF FiberOK
  <2>3. Resting(st).on = NoSession
    BY DEF Resting
  <2>4. ASSUME NEW t \in Sessions
        PROVE  ctx'[t].owner = IF ctx[t].owner = f /\ fiber[f].on = t THEN None ELSE ctx[t].owner
    <3>1. ctx[t] \in CtxType
      BY <1>1 DEF CtxOK
    <3>2. ctx'[t] = [ctx[t] EXCEPT !.owner = IF @ = f /\ fiber[f].on = t THEN None ELSE @,
                                   !.barrier = IF @ = f THEN None ELSE @,
                                   !.wait = IF @ = f THEN None ELSE @]
      BY <1>5 DEF Settle, Released
    <3>. QED BY <3>1, <3>2 DEF CtxType
  <2>5. \A t \in Sessions : t # NoSession
    BY DEF Sessions, NoSession
  <2>6. None \notin Fibers
    BY FibersAssumption
  <2>7. ASSUME NEW t \in Sessions, NEW g \in Fibers
        PROVE  ctx'[t].owner = g <=> fiber'[g].on = t
    BY <2>2, <2>3, <2>4, <2>5, <2>6 DEF ClaimInv
  <2>8. ASSUME NEW g \in Fibers, fiber'[g].on # NoSession
        PROVE  fiber'[g].stage \in Holding
    BY <2>2, <2>3, <2>8 DEF ClaimInv
  <2>. QED BY <2>7, <2>8 DEF ClaimInv
<1>. QED BY <1>2, <1>3, <1>4, <1>5 DEF Turn

LEMMA FlushClaims ==
  ASSUME TypeOK, ClaimInv, FlushNothing \/ \E f \in Flushers : Flush(f)
  PROVE  ClaimInv'
<1>1. FiberOK /\ CtxOK
  BY TypeParts
<1>2. CASE FlushNothing
  BY <1>2, Unmoved, Unowned, ClaimStays DEF FlushNothing
<1>3. ASSUME NEW f \in Flushers, Flush(f) PROVE ClaimInv'
  <2>1. f \in Fibers /\ fiber[f] \in FiberType /\ fiber[f].stage \notin Holding
    BY <1>1, <1>3 DEF Flush, Stage, Holding, Fibers, FiberOK
  <2>2. CASE Listed /\ ctx[current].owner # None
    <3>1. UNCHANGED <<ctx, fiber>>
      BY <1>3, <2>2 DEF Flush
    <3>. QED BY <3>1, Unmoved, Unowned, ClaimStays
  <2>3. CASE Listed /\ ctx[current].owner = None
    <3>. DEFINE c == [ctx[current] EXCEPT !.owner = f]
                r == [fiber[f] EXCEPT !.stage = "claimed", !.on = current, !.items = queue]
    <3>1. current \in Sessions
      BY <2>3, TypeParts DEF Listed, RestOK
    <3>2. /\ ctx' = [ctx EXCEPT ![current].owner = f]
          /\ fiber' = [fiber EXCEPT ![f].stage = "claimed", ![f].on = current,
                                    ![f].items = queue]
      BY <1>3, <2>3 DEF Flush
    <3>3. ctx' = [ctx EXCEPT ![current] = c] /\ fiber' = [fiber EXCEPT ![f] = r]
      BY <1>1, <2>1, <3>1, <3>2 DEF CtxOK, FiberOK
    <3>4. c.owner = f
      BY <1>1, <3>1 DEF CtxOK, CtxType
    <3>5. r.on = current /\ r.stage = "claimed"
      BY <2>1 DEF FiberType
    <3>. QED BY <2>1, <2>3, <3>1, <3>3, <3>4, <3>5, ClaimTaken
  <2>4. CASE ~Listed
    <3>1. ctx' = ctx /\ fiber' = [fiber EXCEPT ![f].stage = "unclaimed", ![f].items = queue]
      BY <1>3, <2>4 DEF Flush
    <3>2. [fiber[f] EXCEPT !.stage = "unclaimed", !.items = queue].on = fiber[f].on
      BY <2>1 DEF FiberType
    <3>3. FibersHold
      BY <1>1, <2>1, <3>1, <3>2 DEF FibersHold, FiberOK
    <3>. QED BY <3>1, <3>3, Unowned, ClaimStays
  <2>. QED BY <2>2, <2>3, <2>4
<1>. QED BY <1>2, <1>3

LEMMA AgentClaims ==
  ASSUME TypeOK, ClaimInv, NEW s \in Sessions, Drain(s) \/ CompactEnds(s) \/ Die(s) \/ Compact
  PROVE  ClaimInv'
<1>1. FiberOK /\ CtxOK /\ ctx[s] \in CtxType
  BY TypeParts DEF CtxOK
<1>2. None \notin Fibers /\ Compaction \notin Fibers
  BY FibersAssumption
<1>3. FibersHold
  BY Unmoved DEF Drain, CompactEnds, Die, Compact
<1>4. CASE Drain(s)
  BY <1>3, <1>4, Unowned, ClaimStays DEF Drain
<1>5. CASE CompactEnds(s)
  <2>1. \A t \in Sessions : ctx'[t].owner = IF t = s THEN None ELSE ctx[t].owner
    BY <1>1, <1>5 DEF CompactEnds, CtxOK, CtxType
  <2>2. ctx[s].owner = Compaction
    BY <1>5 DEF CompactEnds
  <2>. QED BY <1>2, <1>3, <2>1, <2>2, ClaimStays DEF OwnersStay
<1>6. CASE Die(s)
  <2>1. [ctx[s] EXCEPT !.alive = FALSE].owner = ctx[s].owner
    BY <1>1 DEF CtxType
  <2>2. ctx' = [ctx EXCEPT ![s] = [ctx[s] EXCEPT !.alive = FALSE]]
    BY <1>1, <1>6 DEF Die, CtxOK
  <2>. QED BY <1>1, <1>3, <2>1, <2>2, OwnerKept, ClaimStays
<1>7. CASE Compact
  <2>1. current \in Sessions /\ ctx[current].owner = None
    BY <1>7, TypeParts DEF Compact, Listed, RestOK
  <2>2. \A t \in Sessions :
          ctx'[t].owner = IF t = current THEN Compaction ELSE ctx[t].owner
    BY <1>1, <1>7, <2>1 DEF Compact, CtxOK, CtxType
  <2>. QED BY <1>2, <1>3, <2>1, <2>2, ClaimStays DEF OwnersStay
<1>. QED BY <1>4, <1>5, <1>6, <1>7

LEMMA SessionClaims ==
  ASSUME TypeOK, ClaimInv, NEW s \in Sessions, Start(s) \/ Stop(s) \/ Ending(s)
  PROVE  ClaimInv'
<1>1. FiberOK /\ CtxOK /\ ctx[s] \in CtxType
  BY TypeParts DEF CtxOK
<1>2. FibersHold
  <2>1. CASE TearDown(s) /\ AtPrompt(s)
    <3>1. ctx[s].prompt \in Fibers /\ To(ctx[s].prompt, "interrupted")
      BY <1>1, <2>1, CtxParts DEF TearDown, AtPrompt, To, Turns
    <3>. QED BY <1>1, <3>1, StagedHolds DEF Holding
  <2>2. CASE ~(TearDown(s) /\ AtPrompt(s))
    <3>1. UNCHANGED fiber
      BY <2>2 DEF Start, Stop, Ending, TearDown, Unlist, Kill, SeeExit
    <3>. QED BY <3>1, Unmoved
  <2>. QED BY <2>1, <2>2
<1>3. OwnersStay
  <2>1. CASE Start(s)
    <3>1. [ctx[s] EXCEPT !.born = TRUE, !.alive = TRUE].owner = ctx[s].owner
      BY <1>1 DEF CtxType
    <3>2. ctx' = [ctx EXCEPT ![s] = [ctx[s] EXCEPT !.born = TRUE, !.alive = TRUE]]
      BY <1>1, <2>1 DEF Start, CtxOK
    <3>. QED BY <1>1, <3>1, <3>2, OwnerKept
  <2>2. CASE Stop(s)
    <3>1. PICK i :
            ctx' = [ctx EXCEPT ![s].stopped = TRUE, ![s].cancel = i, ![s].down = "claimed"]
      BY <2>2 DEF Stop
    <3>. DEFINE c == [ctx[s] EXCEPT !.stopped = TRUE, !.cancel = i, !.down = "claimed"]
    <3>2. c.owner = ctx[s].owner
      BY <1>1 DEF CtxType
    <3>3. ctx' = [ctx EXCEPT ![s] = c]
      BY <1>1, <3>1 DEF CtxOK
    <3>. QED BY <1>1, <3>2, <3>3, OwnerKept
  <2>3. CASE TearDown(s)
    <3>. DEFINE w == IF ctx[s].active # None THEN ctx[s].barrier ELSE None
                c == IF AtPrompt(s)
                     THEN [ctx[s] EXCEPT !.prompt = None, !.wait = ctx[s].barrier,
                                         !.down = "waiting"]
                     ELSE [ctx[s] EXCEPT !.alive = FALSE, !.down = "waiting", !.wait = w]
    <3>1. c.owner = ctx[s].owner
      BY <1>1 DEF CtxType
    <3>2. ctx' = [ctx EXCEPT ![s] = c]
      BY <1>1, <2>3 DEF TearDown, CtxOK
    <3>. QED BY <1>1, <3>1, <3>2, OwnerKept
  <2>4. CASE Unlist(s)
    <3>1. [ctx[s] EXCEPT !.down = "gone"].owner = ctx[s].owner
      BY <1>1 DEF CtxType
    <3>2. ctx' = [ctx EXCEPT ![s] = [ctx[s] EXCEPT !.down = "gone"]]
      BY <1>1, <2>4 DEF Unlist, CtxOK
    <3>. QED BY <1>1, <3>1, <3>2, OwnerKept
  <2>5. CASE Kill(s)
    <3>1. [ctx[s] EXCEPT !.alive = FALSE].owner = ctx[s].owner
      BY <1>1 DEF CtxType
    <3>2. ctx' = [ctx EXCEPT ![s] = [ctx[s] EXCEPT !.alive = FALSE]]
      BY <1>1, <2>5 DEF Kill, CtxOK
    <3>. QED BY <1>1, <3>1, <3>2, OwnerKept
  <2>6. CASE SeeExit(s)
    <3>1. [ctx[s] EXCEPT !.exited = TRUE].owner = ctx[s].owner
      BY <1>1 DEF CtxType
    <3>2. ctx' = [ctx EXCEPT ![s] = [ctx[s] EXCEPT !.exited = TRUE]]
      BY <1>1, <2>6 DEF SeeExit, CtxOK
    <3>. QED BY <1>1, <3>1, <3>2, OwnerKept
  <2>. QED BY <2>1, <2>2, <2>3, <2>4, <2>5, <2>6 DEF Ending
<1>. QED BY <1>2, <1>3, ClaimStays

LEMMA InitClaims == Init => ClaimInv
<1>. SUFFICES ASSUME Init PROVE ClaimInv
  OBVIOUS
<1>1. \A s \in Sessions : ctx[s].owner = None /\ s # NoSession
  BY DEF Init, Unborn, Sessions, NoSession
<1>2. \A f \in Fibers : fiber[f].on = NoSession
  BY DEF Init, Resting
<1>. QED BY <1>1, <1>2, FibersAssumption DEF ClaimInv

LEMMA StepClaims == TypeOK /\ ClaimInv /\ [Next]_vars => ClaimInv'
<1>. SUFFICES ASSUME TypeOK, ClaimInv, [Next]_vars PROVE ClaimInv'
  OBVIOUS
<1>1. ASSUME NEW m \in Msgs, Sending(m) PROVE ClaimInv'
  BY <1>1, SendingClaims
<1>2. ASSUME NEW f \in Fibers, Turn(f) PROVE ClaimInv'
  BY <1>2, TurnClaims
<1>3. CASE FlushNothing \/ \E f \in Flushers : Flush(f)
  BY <1>3, FlushClaims
<1>4. ASSUME NEW s \in Sessions, Drain(s) \/ CompactEnds(s) \/ Die(s) PROVE ClaimInv'
  BY <1>4, AgentClaims
<1>5. ASSUME NEW s \in Sessions, Start(s) \/ Stop(s) \/ Ending(s) PROVE ClaimInv'
  BY <1>5, SessionClaims
<1>6. CASE Compact
  <2>1. current \in Sessions
    BY <1>6, TypeParts DEF Compact, Listed, RestOK
  <2>. QED BY <1>6, <2>1, AgentClaims
<1>7. CASE UNCHANGED vars
  BY <1>7 DEF vars, ClaimInv
<1>. QED BY <1>1, <1>2, <1>3, <1>4, <1>5, <1>6, <1>7 DEF Next

\* The claim of a session belongs to a turn that will release it, and a turn that claimed
\* has its claim until it releases it: no stop, failure, exit or compaction leaks a claim or
\* frees one that another turn holds, whatever messages, flushes and sessions there are.
THEOREM ClaimHeldThroughout == Spec => []ClaimIsHeld
BY InitTypes, StepTypes, InitClaims, StepClaims, ClaimMeans, PTL DEF Spec

\* What the claim is for: two turns that claimed the session they run in never have two
\* prompts there at once, so that no send aborts a turn of the agent.
THEOREM OnePromptPerClaim == Spec => []ClaimsExclude
BY InitTypes, StepTypes, InitClaims, StepClaims, ClaimMeans, PTL DEF Spec
-----------------------------------------------------------------------------
(* The end of a session.  Whether its exit may overtake a turn depends on   *)
(* what the context says of the turn, as long as every turn claimed it.     *)

Running == {"begun", "prompting", "answered", "failed", "interrupted"}

\* A turn of a context whose turns all claimed it is its only one, and a teardown waits for it.
TurnIsThe(c, s, r, f) ==
  /\ r.on = s /\ c.active = f /\ c.barrier = f
  /\ c.down = "waiting" => c.wait = f
  /\ c.down # "gone"
Pair(c, s, r, f) ==
  /\ c.active = f => r.in = s /\ r.stage \in Running
  /\ c.prompt = f => r.in = s /\ r.stage = "prompting"
  /\ r.in = s /\ r.stage \in Running /\ ~c.shared => TurnIsThe(c, s, r, f)
PairsTell == \A s \in Sessions, f \in Fibers : Pair(ctx[s], s, fiber[f], f)
Outside == \A f \in Fibers : fiber[f].stage \notin Running \cup {"settling"} => fiber[f].in = NoSession
DownTells == \A s \in Sessions : ctx[s].down # "no" => ctx[s].stopped
EndInv == PairsTell /\ Outside /\ DownTells

LEMMA EndMeans == EndInv => ExitAfterTurn
  BY DEF EndInv, PairsTell, Pair, TurnIsThe, ExitAfterTurn, Running, Stage

\* Fibers outside of a turn stay outside, the others are left alone.
Calm(f) ==
  /\ fiber'[f].in = fiber[f].in
  /\ fiber[f].stage \in Running => fiber'[f] = fiber[f]
  /\ fiber[f].stage \notin Running =>
       fiber'[f].stage \notin Running /\ (fiber[f].stage = "settling" => fiber'[f].stage = "settling")
Alike(s) ==
  /\ ctx'[s].active = ctx[s].active /\ ctx'[s].prompt = ctx[s].prompt
  /\ ctx'[s].barrier = ctx[s].barrier /\ ctx'[s].wait = ctx[s].wait
  /\ ctx'[s].down = ctx[s].down
  /\ (ctx[s].shared => ctx'[s].shared) /\ (ctx'[s].shared => ctx[s].shared)
  /\ ctx[s].stopped => ctx'[s].stopped
LEMMA CalmStays ==
  ASSUME EndInv, \A f \in Fibers : Calm(f), \A s \in Sessions : Alike(s)
  PROVE  EndInv'
<1>1. ASSUME NEW s \in Sessions, NEW f \in Fibers PROVE Pair(ctx'[s], s, fiber'[f], f)
  <2>1. Pair(ctx[s], s, fiber[f], f) /\ Calm(f) /\ Alike(s)
    BY DEF EndInv, PairsTell
  <2>2. CASE fiber[f].stage \in Running
    <3>1. fiber'[f] = fiber[f]
      BY <2>1, <2>2 DEF Calm
    <3>. QED BY <2>1, <3>1 DEF Pair, TurnIsThe, Alike
  <2>3. CASE fiber[f].stage \notin Running
    <3>1. fiber[f].stage # "prompting" /\ fiber'[f].stage \notin Running
      BY <2>1, <2>3 DEF Calm, Running
    <3>2. ctx[s].active # f /\ ctx[s].prompt # f
      BY <2>1, <2>3, <3>1 DEF Pair
    <3>. QED BY <2>1, <3>1, <3>2 DEF Pair, Alike
  <2>. QED BY <2>2, <2>3
<1>2. PairsTell'
  BY <1>1 DEF PairsTell
<1>3. Outside'
  BY DEF EndInv, Outside, Calm
<1>4. DownTells'
  BY DEF EndInv, DownTells, Alike
<1>. QED BY <1>2, <1>3, <1>4 DEF EndInv

LEMMA CalmStill ==
  ASSUME UNCHANGED fiber
  PROVE  \A f \in Fibers : Calm(f)
  BY DEF Calm
LEMMA CalmMoving ==
  ASSUME FiberOK, NEW f \in Fibers, NEW r, fiber' = [fiber EXCEPT ![f] = r],
         fiber[f].stage \notin Running \cup {"settling"}, r.stage \notin Running,
         r.in = fiber[f].in
  PROVE  \A g \in Fibers : Calm(g)
<1>1. \A g \in Fibers : fiber'[g] = IF g = f THEN r ELSE fiber[g]
  BY DEF FiberOK
<1>. QED BY <1>1 DEF Calm
LEMMA CalmStaged ==
  ASSUME FiberOK, NEW f \in Fibers, NEW st, To(f, st),
         fiber[f].stage \notin Running \cup {"settling"}, st \notin Running
  PROVE  \A g \in Fibers : Calm(g)
<1>. DEFINE r == [fiber[f] EXCEPT !.stage = st]
<1>1. fiber[f] \in FiberType
  BY DEF FiberOK
<1>2. fiber' = [fiber EXCEPT ![f] = r]
  BY DEF To, FiberOK
<1>3. r.in = fiber[f].in /\ r.stage = st
  BY <1>1 DEF FiberType
<1>. HIDE DEF r
<1>. QED BY <1>2, <1>3, CalmMoving
LEMMA AlikeStill ==
  ASSUME UNCHANGED ctx
  PROVE  \A s \in Sessions : Alike(s)
  BY DEF Alike
LEMMA AlikeMoving ==
  ASSUME CtxOK, NEW s \in Sessions, NEW c, ctx' = [ctx EXCEPT ![s] = c],
         c.active = ctx[s].active, c.prompt = ctx[s].prompt, c.barrier = ctx[s].barrier,
         c.wait = ctx[s].wait, c.down = ctx[s].down, c.shared = ctx[s].shared,
         c.stopped = ctx[s].stopped
  PROVE  \A t \in Sessions : Alike(t)
<1>1. \A t \in Sessions : ctx'[t] = IF t = s THEN c ELSE ctx[t]
  BY DEF CtxOK
<1>. QED BY <1>1 DEF Alike
LEMMA AlikeOwned ==
  ASSUME CtxOK, NEW s \in Sessions, NEW w, ctx' = [ctx EXCEPT ![s].owner = w]
  PROVE  \A t \in Sessions : Alike(t)
<1>. DEFINE c == [ctx[s] EXCEPT !.owner = w]
<1>1. ctx[s] \in CtxType
  BY DEF CtxOK
<1>2. ctx' = [ctx EXCEPT ![s] = c]
  BY DEF CtxOK
<1>3. /\ c.active = ctx[s].active /\ c.prompt = ctx[s].prompt /\ c.barrier = ctx[s].barrier
      /\ c.wait = ctx[s].wait /\ c.down = ctx[s].down /\ c.shared = ctx[s].shared
      /\ c.stopped = ctx[s].stopped
  BY <1>1 DEF CtxType
<1>. HIDE DEF c
<1>. QED BY <1>2, <1>3, AlikeMoving

LEMMA SendingEnds ==
  ASSUME TypeOK, EndInv, NEW m \in Msgs, Sending(m)
  PROVE  EndInv'
<1>1. FiberOK /\ CtxOK /\ m \in Fibers /\ fiber[m] \in FiberType
  BY TypeParts DEF Fibers, FiberOK
<1>2. fiber[m].stage \notin Running \cup {"settling"}
  BY DEF Sending, Send, Read, Claim, Stage, Running
<1>3. ASSUME NEW st \in {"checked", "reading", "done", "unclaimed"}, To(m, st), UNCHANGED ctx
      PROVE  EndInv'
  <2>1. st \notin Running
    BY DEF Running
  <2>. QED BY <1>1, <1>2, <1>3, <2>1, CalmStaged, AlikeStill, CalmStays
<1>4. CASE Send(m)
  BY <1>3, <1>4 DEF Send, QueueUp, Enqueue
<1>5. CASE Read(m)
  BY <1>3, <1>5 DEF Read, Enqueue
<1>6. CASE Claim(m)
  <2>1. CASE ClaimSlot(m)
    <3>. DEFINE r == [fiber[m] EXCEPT !.stage = "claimed", !.on = current]
    <3>1. current \in Sessions /\ ctx' = [ctx EXCEPT ![current].owner = m]
      BY <2>1, TypeParts DEF ClaimSlot, Listed, RestOK
    <3>2. fiber' = [fiber EXCEPT ![m] = r]
      BY <1>1, <2>1 DEF ClaimSlot, FiberOK
    <3>3. r.in = fiber[m].in /\ r.stage \notin Running
      BY <1>1 DEF FiberType, Running
    <3>. HIDE DEF r
    <3>. QED BY <1>1, <1>2, <3>1, <3>2, <3>3, CalmMoving, AlikeOwned, CalmStays
  <2>. QED BY <1>3, <1>6, <2>1 DEF Claim, QueueUp, Enqueue
<1>. QED BY <1>4, <1>5, <1>6 DEF Sending

LEMMA FlushEnds ==
  ASSUME TypeOK, EndInv, FlushNothing \/ \E f \in Flushers : Flush(f)
  PROVE  EndInv'
<1>1. FiberOK /\ CtxOK
  BY TypeParts
<1>2. CASE FlushNothing
  BY <1>2, CalmStill, AlikeStill, CalmStays DEF FlushNothing
<1>3. ASSUME NEW f \in Flushers, Flush(f) PROVE EndInv'
  <2>1. /\ f \in Fibers /\ fiber[f] \in FiberType
        /\ fiber[f].stage \notin Running \cup {"settling"}
    BY <1>1, <1>3 DEF Flush, Stage, Running, Fibers, FiberOK
  <2>2. CASE UNCHANGED <<ctx, fiber>>
    BY <2>2, CalmStill, AlikeStill, CalmStays
  <2>3. CASE Listed /\ ctx[current].owner = None
    <3>. DEFINE r == [fiber[f] EXCEPT !.stage = "claimed", !.on = current, !.items = queue]
    <3>1. current \in Sessions
      BY <2>3, TypeParts DEF Listed, RestOK
    <3>2. /\ ctx' = [ctx EXCEPT ![current].owner = f]
          /\ fiber' = [fiber EXCEPT ![f].stage = "claimed", ![f].on = current,
                                    ![f].items = queue]
      BY <1>3, <2>3 DEF Flush
    <3>3. fiber' = [fiber EXCEPT ![f] = r]
      BY <1>1, <3>2 DEF FiberOK
    <3>4. r.in = fiber[f].in /\ r.stage \notin Running
      BY <2>1 DEF FiberType, Running
    <3>. HIDE DEF r
    <3>. QED BY <1>1, <2>1, <3>1, <3>2, <3>3, <3>4, CalmMoving, AlikeOwned, CalmStays
  <2>4. CASE ~Listed
    <3>. DEFINE r == [fiber[f] EXCEPT !.stage = "unclaimed", !.items = queue]
    <3>1. ctx' = ctx /\ fiber' = [fiber EXCEPT ![f].stage = "unclaimed", ![f].items = queue]
      BY <1>3, <2>4 DEF Flush
    <3>2. fiber' = [fiber EXCEPT ![f] = r]
      BY <1>1, <3>1 DEF FiberOK
    <3>3. r.in = fiber[f].in /\ r.stage \notin Running
      BY <2>1 DEF FiberType, Running
    <3>. HIDE DEF r
    <3>. QED BY <1>1, <2>1, <3>1, <3>2, <3>3, CalmMoving, AlikeStill, CalmStays
  <2>. QED BY <1>3, <2>2, <2>3, <2>4 DEF Flush
<1>. QED BY <1>2, <1>3

\* A turn goes on from one stage to the next; only what its session calls its prompt changes.
LEMMA TurnGoesOn ==
  ASSUME TypeOK, EndInv, NEW f \in Fibers, NEW st \in Running, To(f, st),
         fiber[f].stage \in Running, NEW s \in Sessions, fiber[f].in = s,
         \/ UNCHANGED ctx /\ fiber[f].stage # "prompting"
         \/ \E p : ctx' = [ctx EXCEPT ![s].prompt = p]
                   /\ (p = None \/ (p = f /\ st = "prompting"))
  PROVE  EndInv'
<1>1. FiberOK /\ CtxOK /\ fiber[f] \in FiberType /\ None \notin Fibers
  BY TypeParts, FibersAssumption DEF FiberOK
<1>2. \A g \in Fibers : fiber'[g] = IF g = f THEN [fiber[f] EXCEPT !.stage = st] ELSE fiber[g]
  BY <1>1 DEF To, FiberOK
<1>3. /\ fiber'[f].in = s /\ fiber'[f].on = fiber[f].on /\ fiber'[f].stage = st
      /\ \A g \in Fibers : g # f => fiber'[g] = fiber[g]
  BY <1>1, <1>2 DEF FiberType
<1>. DEFINE OnlyPrompt(t) ==
              /\ ctx'[t].active = ctx[t].active /\ ctx'[t].barrier = ctx[t].barrier
              /\ ctx'[t].wait = ctx[t].wait /\ ctx'[t].down = ctx[t].down
              /\ ctx'[t].shared = ctx[t].shared /\ ctx'[t].stopped = ctx[t].stopped
              /\ ctx'[t].prompt # ctx[t].prompt =>
                   t = s /\ (ctx'[t].prompt = None \/ (ctx'[t].prompt = f /\ st = "prompting"))
              /\ fiber[f].stage = "prompting" /\ t = s =>
                   ctx'[t].prompt = None \/ (ctx'[t].prompt = f /\ st = "prompting")
<1>4. ASSUME NEW t \in Sessions PROVE OnlyPrompt(t)
  <2>1. CASE UNCHANGED ctx /\ fiber[f].stage # "prompting"
    BY <2>1
  <2>2. ASSUME NEW p, ctx' = [ctx EXCEPT ![s].prompt = p], p = None \/ (p = f /\ st = "prompting")
        PROVE  OnlyPrompt(t)
    <3>1. ctx[t] \in CtxType
      BY <1>1 DEF CtxOK
    <3>2. ctx'[t] = IF t = s THEN [ctx[s] EXCEPT !.prompt = p] ELSE ctx[t]
      BY <1>1, <2>2 DEF CtxOK
    <3>. QED BY <2>2, <3>1, <3>2 DEF CtxType
  <2>. QED BY <2>1, <2>2
<1>5. ASSUME NEW t \in Sessions, NEW g \in Fibers PROVE Pair(ctx'[t], t, fiber'[g], g)
  <2>1. Pair(ctx[t], t, fiber[g], g)
    BY DEF EndInv, PairsTell
  <2>2. CASE g # f
    BY <1>1, <1>3, <1>4, <2>1, <2>2 DEF Pair, TurnIsThe
  <2>3. CASE g = f
    <3>1. ctx'[t].active = f => t = s
      BY <1>4, <2>1, <2>3 DEF Pair
    <3>2. ctx'[t].prompt = f => t = s /\ st = "prompting"
      <4>1. CASE ctx'[t].prompt # ctx[t].prompt
        BY <1>1, <1>4, <4>1
      <4>2. CASE ctx'[t].prompt = ctx[t].prompt
        BY <1>1, <1>4, <2>1, <2>3, <4>2 DEF Pair
      <4>. QED BY <4>1, <4>2
    <3>3. t = s /\ ~ctx'[t].shared => TurnIsThe(ctx'[t], t, fiber'[f], f)
      BY <1>3, <1>4, <2>1, <2>3 DEF Pair, TurnIsThe
    <3>. QED BY <1>3, <2>3, <3>1, <3>2, <3>3 DEF Pair
  <2>. QED BY <2>2, <2>3
<1>6. PairsTell'
  BY <1>5 DEF PairsTell
<1>7. Outside'
  BY <1>3 DEF EndInv, Outside
<1>8. DownTells'
  BY <1>4 DEF EndInv, DownTells
<1>. QED BY <1>6, <1>7, <1>8 DEF EndInv

LEMMA BeginEnds ==
  ASSUME TypeOK, ClaimInv, EndInv, NEW f \in Fibers, Begin(f)
  PROVE  EndInv'
<1>1. FiberOK /\ CtxOK /\ fiber[f] \in FiberType
  BY TypeParts DEF FiberOK
<1>2. /\ fiber[f].stage \in {"claimed", "unclaimed"} /\ fiber[f].stage \notin Running \cup {"settling"}
      /\ fiber[f].in = NoSession
  <2>1. fiber[f].stage \in {"claimed", "unclaimed"}
    BY DEF Begin, Stage
  <2>2. fiber[f].stage \notin Running \cup {"settling"}
    BY <2>1 DEF Running
  <2>. QED BY <2>1, <2>2 DEF EndInv, Outside
<1>3. \A s \in Sessions : s # NoSession
  BY DEF Sessions, NoSession
<1>4. \A s \in Sessions : ctx[s].active # f /\ ctx[s].prompt # f
  BY <1>2, <1>3 DEF EndInv, PairsTell, Pair
<1>5. CASE Listed /\ ~ctx[current].stopped /\ ctx[current].owner # Compaction
  <2>. DEFINE c == [ctx[current] EXCEPT !.active = f, !.barrier = f, !.cancel = FALSE,
                                      !.shared = @ \/ fiber[f].on # current]
              r == [fiber[f] EXCEPT !.stage = "begun", !.in = current]
  <2>1. current \in Sessions /\ ctx[current] \in CtxType
    BY <1>1, <1>5, TypeParts DEF Listed, RestOK, CtxOK
  <2>2. ctx' = [ctx EXCEPT ![current] = c] /\ fiber' = [fiber EXCEPT ![f] = r]
    BY <1>1, <1>5, <2>1 DEF Begin, CtxOK, FiberOK
  <2>3. /\ c.active = f /\ c.barrier = f /\ c.prompt = ctx[current].prompt
        /\ c.wait = ctx[current].wait /\ c.down = ctx[current].down
        /\ c.stopped = ctx[current].stopped
    BY <2>1 DEF CtxType
  <2>4. ~c.shared => ~ctx[current].shared /\ fiber[f].on = current
    BY <2>1 DEF CtxType
  <2>5. r.in = current /\ r.on = fiber[f].on /\ r.stage = "begun"
    BY <1>1 DEF FiberType
  <2>. HIDE DEF c, r
  <2>6. /\ \A s \in Sessions : ctx'[s] = IF s = current THEN c ELSE ctx[s]
        /\ \A g \in Fibers : fiber'[g] = IF g = f THEN r ELSE fiber[g]
    BY <1>1, <2>2 DEF CtxOK, FiberOK
  <2>7. c.down = "no"
    BY <1>5, <2>1, <2>3 DEF EndInv, DownTells
  <2>8. ASSUME NEW s \in Sessions, NEW g \in Fibers PROVE Pair(ctx'[s], s, fiber'[g], g)
    <3>1. Pair(ctx[s], s, fiber[g], g)
      BY DEF EndInv, PairsTell
    <3>2. CASE g = f /\ s = current
      BY <1>4, <2>1, <2>3, <2>4, <2>5, <2>6, <2>7, <3>2 DEF Pair, TurnIsThe, Running
    <3>3. CASE g = f /\ s # current
      BY <1>4, <2>5, <2>6, <3>3 DEF Pair
    <3>4. CASE g # f /\ s # current
      BY <2>6, <3>1, <3>4
    <3>5. CASE g # f /\ s = current
      <4>1. fiber[g].in = s /\ fiber[g].stage \in Running => c.shared
        <5>1. SUFFICES ASSUME fiber[g].in = s, fiber[g].stage \in Running, ~c.shared PROVE FALSE
          OBVIOUS
        <5>2. fiber[g].on = s /\ fiber[f].on = s
          BY <2>4, <3>1, <3>5, <5>1 DEF Pair, TurnIsThe
        <5>3. ctx[s].owner = g /\ ctx[s].owner = f
          BY <5>2 DEF ClaimInv
        <5>. QED BY <3>5, <5>3
      <4>. QED BY <2>3, <2>6, <3>1, <3>5, <4>1 DEF Pair
    <3>. QED BY <3>2, <3>3, <3>4, <3>5
  <2>9. PairsTell'
    BY <2>8 DEF PairsTell
  <2>10. Outside'
    BY <2>5, <2>6 DEF EndInv, Outside, Running
  <2>11. DownTells'
    BY <2>3, <2>6 DEF EndInv, DownTells
  <2>. QED BY <2>9, <2>10, <2>11 DEF EndInv
<1>6. CASE ~(Listed /\ ~ctx[current].stopped /\ ctx[current].owner # Compaction)
  <2>1. ctx' = ctx /\ To(f, "failed")
    BY <1>6 DEF Begin
  <2>2. /\ \A g \in Fibers : g # f => fiber'[g] = fiber[g]
        /\ fiber'[f].stage = "failed" /\ fiber'[f].in = NoSession
    BY <1>1, <1>2, <2>1 DEF To, FiberOK, FiberType
  <2>3. ASSUME NEW s \in Sessions, NEW g \in Fibers PROVE Pair(ctx'[s], s, fiber'[g], g)
    <3>1. CASE g = f
      BY <1>3, <1>4, <2>1, <2>2, <3>1 DEF Pair
    <3>2. CASE g # f
      BY <2>1, <2>2, <3>2 DEF EndInv, PairsTell
    <3>. QED BY <3>1, <3>2
  <2>4. PairsTell'
    BY <2>3 DEF PairsTell
  <2>5. Outside' /\ DownTells'
    BY <2>1, <2>2 DEF EndInv, Outside, DownTells
  <2>. QED BY <2>4, <2>5 DEF EndInv
<1>. QED BY <1>5, <1>6

LEMMA TurnEnds ==
  ASSUME TypeOK, ClaimInv, EndInv, NEW f \in Fibers, Turn(f)
  PROVE  EndInv'
<1>1. FiberOK /\ CtxOK /\ fiber[f] \in FiberType /\ None \notin Fibers
  BY TypeParts, FibersAssumption DEF FiberOK
<1>. DEFINE s == fiber[f].in
<1>2. CASE Begin(f)
  BY <1>2, BeginEnds
<1>3. CASE Prompt(f) \/ PromptEnds(f)
  <2>1. fiber[f].stage \in {"begun", "prompting"} /\ fiber[f].stage \in Running
    BY <1>3 DEF Prompt, PromptEnds, Stage, Running
  <2>2. s \in Sessions
    BY <1>1, <2>1, FiberParts DEF FiberOK, Placed
  <2>3. PICK st \in {"prompting", "interrupted", "failed", "answered"} :
          /\ To(f, st)
          /\ \/ UNCHANGED ctx /\ fiber[f].stage # "prompting"
             \/ \E p : ctx' = [ctx EXCEPT ![s].prompt = p]
                       /\ (p = None \/ (p = f /\ st = "prompting"))
    BY <1>3 DEF Prompt, PromptEnds, Stage
  <2>4. st \in Running
    BY <2>3 DEF Running
  <2>. HIDE DEF s
  <2>. QED BY <2>1, <2>2, <2>3, <2>4, TurnGoesOn DEF s
<1>4. CASE Complete(f)
  <2>1. fiber[f].stage \in Running /\ fiber[f].stage # "prompting"
    BY <1>4 DEF Complete, Stage, Running
  <2>2. PICK e : fiber' = [fiber EXCEPT ![f].stage = "settling", ![f].end = e]
    BY <1>4 DEF Complete
  <2>3. /\ \A g \in Fibers : g # f => fiber'[g] = fiber[g]
        /\ fiber'[f].stage = "settling" /\ fiber'[f].stage \notin Running
    BY <1>1, <2>2 DEF FiberOK, FiberType, Running
  <2>4. ASSUME NEW t \in Sessions
        PROVE  /\ ctx'[t].active = IF t = s THEN None ELSE ctx[t].active
               /\ ctx'[t].prompt = ctx[t].prompt /\ ctx'[t].barrier = ctx[t].barrier
               /\ ctx'[t].wait = ctx[t].wait /\ ctx'[t].down = ctx[t].down
               /\ ctx'[t].shared = ctx[t].shared /\ ctx'[t].stopped = ctx[t].stopped
    <3>1. ctx[t] \in CtxType /\ t # NoSession
      BY <1>1 DEF CtxOK, Sessions, NoSession
    <3>2. ctx'[t] = IF t = s THEN [ctx[t] EXCEPT !.active = None] ELSE ctx[t]
      BY <1>1, <1>4, <3>1 DEF Complete, CtxOK
    <3>. QED BY <3>1, <3>2 DEF CtxType
  <2>5. ASSUME NEW t \in Sessions, NEW g \in Fibers PROVE Pair(ctx'[t], t, fiber'[g], g)
    <3>1. Pair(ctx[t], t, fiber[g], g) /\ Pair(ctx[t], t, fiber[f], f)
      BY DEF EndInv, PairsTell
    <3>2. CASE g = f
      BY <1>1, <2>1, <2>3, <2>4, <3>1, <3>2 DEF Pair
    <3>3. CASE g # f /\ t # s
      BY <2>3, <2>4, <3>1, <3>3 DEF Pair, TurnIsThe
    <3>4. CASE g # f /\ t = s
      <4>1. fiber[g].in = t /\ fiber[g].stage \in Running => ctx[t].shared
        <5>1. SUFFICES ASSUME fiber[g].in = t, fiber[g].stage \in Running, ~ctx[t].shared
                       PROVE  FALSE
          OBVIOUS
        <5>. QED BY <2>1, <3>1, <3>4, <5>1 DEF Pair, TurnIsThe
      <4>. QED BY <1>1, <2>3, <2>4, <3>1, <3>4, <4>1 DEF Pair
    <3>. QED BY <3>2, <3>3, <3>4
  <2>6. PairsTell'
    BY <2>5 DEF PairsTell
  <2>7. Outside' /\ DownTells'
    BY <2>3, <2>4 DEF EndInv, Outside, DownTells
  <2>. QED BY <2>6, <2>7 DEF EndInv
<1>5. CASE Settle(f)
  <2>1. PICK st \in {"done", "off"} : fiber' = [fiber EXCEPT ![f] = Resting(st)]
    BY <1>5 DEF Settle
  <2>2. /\ \A g \in Fibers : g # f => fiber'[g] = fiber[g]
        /\ fiber'[f].in = NoSession /\ fiber'[f].stage \notin Running
    BY <1>1, <2>1 DEF FiberOK, Resting, Running
  <2>3. fiber[f].stage \notin Running
    BY <1>5 DEF Settle, Stage, Running
  <2>4. ASSUME NEW t \in Sessions
        PROVE  /\ ctx'[t].active = ctx[t].active /\ ctx'[t].prompt = ctx[t].prompt
               /\ ctx'[t].barrier = IF ctx[t].barrier = f THEN None ELSE ctx[t].barrier
               /\ ctx'[t].wait = IF ctx[t].wait = f THEN None ELSE ctx[t].wait
               /\ ctx'[t].shared = ctx[t].shared /\ ctx'[t].down = ctx[t].down
               /\ ctx'[t].stopped = ctx[t].stopped
    <3>1. ctx[t] \in CtxType
      BY <1>1 DEF CtxOK
    <3>2. ctx'[t] = [ctx[t] EXCEPT !.owner = IF @ = f /\ fiber[f].on = t THEN None ELSE @,
                                   !.barrier = IF @ = f THEN None ELSE @,
                                   !.wait = IF @ = f THEN None ELSE @]
      BY <1>5 DEF Settle, Released
    <3>. QED BY <3>1, <3>2 DEF CtxType
  <2>5. ASSUME NEW t \in Sessions, NEW g \in Fibers PROVE Pair(ctx'[t], t, fiber'[g], g)
    <3>1. Pair(ctx[t], t, fiber[g], g) /\ t # NoSession
      BY DEF EndInv, PairsTell, Sessions, NoSession
    <3>2. CASE g = f
      <4>1. ctx[t].active # f /\ ctx[t].prompt # f
        BY <2>3, <3>1, <3>2 DEF Pair, Running
      <4>. QED BY <2>2, <2>4, <3>2, <4>1 DEF Pair
    <3>3. CASE g # f
      BY <2>2, <2>4, <3>1, <3>3 DEF Pair, TurnIsThe
    <3>. QED BY <3>2, <3>3
  <2>6. PairsTell'
    BY <2>5 DEF PairsTell
  <2>7. Outside' /\ DownTells'
    BY <2>2, <2>4 DEF EndInv, Outside, DownTells
  <2>. QED BY <2>6, <2>7 DEF EndInv
<1>. QED BY <1>2, <1>3, <1>4, <1>5 DEF Turn

LEMMA AgentEnds ==
  ASSUME TypeOK, EndInv, NEW s \in Sessions, Drain(s) \/ CompactEnds(s) \/ Die(s) \/ Compact
  PROVE  EndInv'
<1>1. CtxOK /\ ctx[s] \in CtxType
  BY TypeParts DEF CtxOK
<1>2. \A f \in Fibers : Calm(f)
  BY CalmStill DEF Drain, CompactEnds, Die, Compact
<1>3. CASE Drain(s)
  BY <1>2, <1>3, AlikeStill, CalmStays DEF Drain
<1>4. CASE CompactEnds(s)
  BY <1>1, <1>2, <1>4, AlikeOwned, CalmStays DEF CompactEnds
<1>5. CASE Die(s)
  <2>. DEFINE c == [ctx[s] EXCEPT !.alive = FALSE]
  <2>1. ctx' = [ctx EXCEPT ![s] = c]
    BY <1>1, <1>5 DEF Die, CtxOK
  <2>2. /\ c.active = ctx[s].active /\ c.prompt = ctx[s].prompt /\ c.barrier = ctx[s].barrier
        /\ c.wait = ctx[s].wait /\ c.down = ctx[s].down /\ c.shared = ctx[s].shared
        /\ c.stopped = ctx[s].stopped
    BY <1>1 DEF CtxType
  <2>. HIDE DEF c
  <2>. QED BY <1>1, <1>2, <2>1, <2>2, AlikeMoving, CalmStays
<1>6. CASE Compact
  <2>1. current \in Sessions /\ ctx' = [ctx EXCEPT ![current].owner = Compaction]
    BY <1>6, TypeParts DEF Compact, Listed, RestOK
  <2>. QED BY <1>1, <1>2, <2>1, AlikeOwned, CalmStays
<1>. QED BY <1>3, <1>4, <1>5, <1>6

\* The context of a session moves on in its teardown; fibers stay, but for the prompt.
LEMMA Torn ==
  ASSUME TypeOK, EndInv, NEW s \in Sessions, NEW c, ctx' = [ctx EXCEPT ![s] = c],
         c.active = ctx[s].active, c.barrier = ctx[s].barrier, c.shared = ctx[s].shared,
         c.prompt = ctx[s].prompt, c.stopped, UNCHANGED fiber,
         \A f \in Fibers : TurnIsThe(ctx[s], s, fiber[f], f) =>
                           (c.down = "waiting" => c.wait = f) /\ c.down # "gone"
  PROVE  EndInv'
<1>1. \A t \in Sessions : ctx'[t] = IF t = s THEN c ELSE ctx[t]
  BY TypeParts DEF CtxOK
<1>2. ASSUME NEW t \in Sessions, NEW f \in Fibers PROVE Pair(ctx'[t], t, fiber'[f], f)
  <2>1. Pair(ctx[t], t, fiber[f], f)
    BY DEF EndInv, PairsTell
  <2>2. CASE t # s
    BY <1>1, <2>1, <2>2
  <2>3. CASE t = s
    <3>1. TurnIsThe(ctx[s], s, fiber[f], f) => TurnIsThe(c, s, fiber[f], f)
      BY DEF TurnIsThe
    <3>. QED BY <1>1, <2>1, <2>3, <3>1 DEF Pair
  <2>. QED BY <2>2, <2>3
<1>3. PairsTell'
  BY <1>2 DEF PairsTell
<1>4. Outside' /\ DownTells'
  BY <1>1 DEF EndInv, Outside, DownTells
<1>. QED BY <1>3, <1>4 DEF EndInv

LEMMA TearDownEnds ==
  ASSUME TypeOK, EndInv, NEW s \in Sessions, TearDown(s)
  PROVE  EndInv'
<1>1. FiberOK /\ CtxOK /\ ctx[s] \in CtxType /\ None \notin Fibers
  BY TypeParts, FibersAssumption DEF CtxOK
<1>2. ctx[s].down = "claimed" /\ ctx[s].stopped
  BY DEF TearDown, EndInv, DownTells
<1>3. CASE AtPrompt(s)
  <2>. DEFINE p == ctx[s].prompt
              c == [ctx[s] EXCEPT !.prompt = None, !.wait = ctx[s].barrier, !.down = "waiting"]
  <2>1. p \in Fibers /\ To(p, "interrupted") /\ ctx' = [ctx EXCEPT ![s] = c]
    BY <1>1, <1>3, CtxParts DEF TearDown, AtPrompt, To, Turns, CtxOK
  <2>2. fiber[p].in = s /\ fiber[p].stage = "prompting"
    BY <2>1 DEF EndInv, PairsTell, Pair
  <2>3. /\ c.active = ctx[s].active /\ c.barrier = ctx[s].barrier /\ c.shared = ctx[s].shared
        /\ c.prompt = None /\ c.wait = ctx[s].barrier /\ c.down = "waiting"
        /\ c.stopped = ctx[s].stopped
    BY <1>1 DEF CtxType
  <2>. HIDE DEF c, p
  <2>4. /\ fiber'[p].in = s /\ fiber'[p].on = fiber[p].on /\ fiber'[p].stage = "interrupted"
        /\ \A f \in Fibers : f # p => fiber'[f] = fiber[f]
    <3>1. fiber[p] \in FiberType
      BY <1>1, <2>1 DEF FiberOK
    <3>. QED BY <1>1, <2>1, <2>2, <3>1 DEF To, FiberOK, FiberType
  <2>5. \A t \in Sessions : ctx'[t] = IF t = s THEN c ELSE ctx[t]
    BY <1>1, <2>1 DEF CtxOK
  <2>6. ASSUME NEW t \in Sessions, NEW f \in Fibers PROVE Pair(ctx'[t], t, fiber'[f], f)
    <3>1. Pair(ctx[t], t, fiber[f], f)
      BY DEF EndInv, PairsTell
    <3>2. CASE f # p /\ t # s
      BY <2>4, <2>5, <3>1, <3>2
    <3>3. CASE f # p /\ t = s
      BY <1>1, <2>3, <2>4, <2>5, <3>1, <3>3 DEF Pair, TurnIsThe
    <3>4. CASE f = p /\ t # s
      BY <2>2, <2>4, <2>5, <3>1, <3>4 DEF Pair
    <3>5. CASE f = p /\ t = s
      BY <1>1, <2>2, <2>3, <2>4, <2>5, <3>1, <3>5 DEF Pair, TurnIsThe, Running
    <3>. QED BY <3>2, <3>3, <3>4, <3>5
  <2>7. PairsTell'
    BY <2>6 DEF PairsTell
  <2>8. Outside'
    BY <2>4 DEF EndInv, Outside, Running
  <2>9. DownTells'
    BY <1>2, <2>3, <2>5 DEF EndInv, DownTells
  <2>. QED BY <2>7, <2>8, <2>9 DEF EndInv
<1>4. CASE ~AtPrompt(s)
  <2>. DEFINE w == IF ctx[s].active # None THEN ctx[s].barrier ELSE None
              c == [ctx[s] EXCEPT !.alive = FALSE, !.down = "waiting", !.wait = w]
  <2>1. ctx' = [ctx EXCEPT ![s] = c] /\ UNCHANGED fiber
    BY <1>1, <1>4 DEF TearDown, CtxOK
  <2>2. /\ c.active = ctx[s].active /\ c.barrier = ctx[s].barrier /\ c.shared = ctx[s].shared
        /\ c.prompt = ctx[s].prompt /\ c.wait = w /\ c.down = "waiting" /\ c.stopped
    BY <1>1, <1>2 DEF CtxType
  <2>3. \A f \in Fibers : TurnIsThe(ctx[s], s, fiber[f], f) =>
                          (c.down = "waiting" => c.wait = f) /\ c.down # "gone"
    BY <1>1, <2>2 DEF TurnIsThe
  <2>. HIDE DEF c
  <2>. QED BY <2>1, <2>2, <2>3, Torn
<1>. QED BY <1>3, <1>4

LEMMA SessionEnds ==
  ASSUME TypeOK, EndInv, NEW s \in Sessions, Start(s) \/ Stop(s) \/ Ending(s)
  PROVE  EndInv'
<1>1. CtxOK /\ ctx[s] \in CtxType /\ None \notin Fibers
  BY TypeParts, FibersAssumption DEF CtxOK
<1>2. ASSUME NEW c, ctx' = [ctx EXCEPT ![s] = c], UNCHANGED fiber,
             c \in {[ctx[s] EXCEPT !.born = TRUE, !.alive = TRUE],
                    [ctx[s] EXCEPT !.alive = FALSE], [ctx[s] EXCEPT !.exited = TRUE]}
      PROVE  EndInv'
  <2>1. /\ c.active = ctx[s].active /\ c.prompt = ctx[s].prompt /\ c.barrier = ctx[s].barrier
        /\ c.wait = ctx[s].wait /\ c.down = ctx[s].down /\ c.shared = ctx[s].shared
        /\ c.stopped = ctx[s].stopped
    BY <1>1, <1>2 DEF CtxType
  <2>. QED BY <1>1, <1>2, <2>1, AlikeMoving, CalmStill, CalmStays
<1>3. CASE Start(s)
  BY <1>1, <1>2, <1>3 DEF Start, CtxOK
<1>4. CASE Kill(s)
  BY <1>1, <1>2, <1>4 DEF Kill, CtxOK
<1>5. CASE SeeExit(s)
  BY <1>1, <1>2, <1>5 DEF SeeExit, CtxOK
<1>6. CASE Stop(s)
  <2>1. PICK i : ctx' = [ctx EXCEPT ![s].stopped = TRUE, ![s].cancel = i, ![s].down = "claimed"]
    BY <1>6 DEF Stop
  <2>. DEFINE c == [ctx[s] EXCEPT !.stopped = TRUE, !.cancel = i, !.down = "claimed"]
  <2>2. ctx' = [ctx EXCEPT ![s] = c] /\ UNCHANGED fiber
    BY <1>1, <1>6, <2>1 DEF Stop, CtxOK
  <2>3. /\ c.active = ctx[s].active /\ c.barrier = ctx[s].barrier /\ c.shared = ctx[s].shared
        /\ c.prompt = ctx[s].prompt /\ c.down = "claimed" /\ c.stopped
    BY <1>1 DEF CtxType
  <2>. HIDE DEF c
  <2>. QED BY <2>2, <2>3, Torn
<1>7. CASE TearDown(s)
  BY <1>7, TearDownEnds
<1>8. CASE Unlist(s)
  <2>. DEFINE c == [ctx[s] EXCEPT !.down = "gone"]
  <2>1. ctx' = [ctx EXCEPT ![s] = c] /\ UNCHANGED fiber
    BY <1>1, <1>8 DEF Unlist, CtxOK
  <2>2. ctx[s].down = "waiting" /\ ctx[s].wait = None /\ ctx[s].stopped
    BY <1>8 DEF Unlist, EndInv, DownTells
  <2>3. /\ c.active = ctx[s].active /\ c.barrier = ctx[s].barrier /\ c.shared = ctx[s].shared
        /\ c.prompt = ctx[s].prompt /\ c.stopped
    BY <1>1, <2>2 DEF CtxType
  <2>4. \A f \in Fibers : ~TurnIsThe(ctx[s], s, fiber[f], f)
    BY <1>1, <2>2 DEF TurnIsThe
  <2>. HIDE DEF c
  <2>. QED BY <2>1, <2>3, <2>4, Torn
<1>. QED BY <1>3, <1>4, <1>5, <1>6, <1>7, <1>8 DEF Ending

LEMMA InitEnds == Init => EndInv
<1>. SUFFICES ASSUME Init PROVE EndInv
  OBVIOUS
<1>1. \A s \in Sessions : /\ ctx[s].active = None /\ ctx[s].prompt = None
                          /\ ctx[s].down = "no" /\ s # NoSession
  BY DEF Init, Unborn, Sessions, NoSession
<1>2. \A f \in Fibers : fiber[f].in = NoSession
  BY DEF Init, Resting
<1>. QED BY <1>1, <1>2, FibersAssumption DEF EndInv, PairsTell, Pair, Outside, DownTells

LEMMA StepEnds == TypeOK /\ ClaimInv /\ EndInv /\ [Next]_vars => EndInv'
<1>. SUFFICES ASSUME TypeOK, ClaimInv, EndInv, [Next]_vars PROVE EndInv'
  OBVIOUS
<1>1. ASSUME NEW m \in Msgs, Sending(m) PROVE EndInv'
  BY <1>1, SendingEnds
<1>2. ASSUME NEW f \in Fibers, Turn(f) PROVE EndInv'
  BY <1>2, TurnEnds
<1>3. CASE FlushNothing \/ \E f \in Flushers : Flush(f)
  BY <1>3, FlushEnds
<1>4. ASSUME NEW s \in Sessions, Drain(s) \/ CompactEnds(s) \/ Die(s) PROVE EndInv'
  BY <1>4, AgentEnds
<1>5. ASSUME NEW s \in Sessions, Start(s) \/ Stop(s) \/ Ending(s) PROVE EndInv'
  BY <1>5, SessionEnds
<1>6. CASE Compact
  <2>1. current \in Sessions
    BY <1>6, TypeParts DEF Compact, Listed, RestOK
  <2>. QED BY <1>6, <2>1, AgentEnds
<1>7. CASE UNCHANGED vars
  BY <1>7, CalmStill, AlikeStill, CalmStays DEF vars
<1>. QED BY <1>1, <1>2, <1>3, <1>4, <1>5, <1>6, <1>7 DEF Next

\* The teardown waits for the turn it cut off, wherever that turn is between its registration
\* and its end: session.exited follows the turn.completed of every turn of a session in which
\* every turn held its claim.
THEOREM ExitFollowsTurns == Spec => []ExitAfterTurn
BY InitTypes, StepTypes, InitClaims, StepClaims, InitEnds, StepEnds, EndMeans, PTL DEF Spec
============================================================================
