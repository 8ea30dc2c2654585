-------------------------- MODULE MidTurnMessages --------------------------
(* Proofs about MidTurn: no message of the mid-turn queue is lost or taken   *)
(* twice, and none waits for nobody.                                         *)
EXTENDS MidTurnProofs

\* What a queue holds, and what of it stays when something is added or the head is taken.
LEMMA ElementsAre ==
  ASSUME NEW q \in Seq(Msgs)
  PROVE  Elements(q) = {q[i] : i \in 1 .. Len(q)} /\ Elements(q) \subseteq Msgs
  BY DEF Elements
LEMMA EmptyElements == Elements(<<>>) = {} /\ Once(<<>>)
  BY DEF Elements, Once
LEMMA AppendElements ==
  ASSUME NEW q \in Seq(Msgs), NEW m \in Msgs
  PROVE  /\ Append(q, m) \in Seq(Msgs)
         /\ Elements(Append(q, m)) = Elements(q) \cup {m}
<1>. DEFINE r == Append(q, m)
<1>1. /\ r \in Seq(Msgs) /\ Len(r) = Len(q) + 1 /\ Len(q) \in Nat /\ r[Len(q) + 1] = m
      /\ \A i \in 1 .. Len(q) : r[i] = q[i]
  OBVIOUS
<1>. HIDE DEF r
<1>2. Elements(r) \subseteq Elements(q) \cup {m}
  BY <1>1, ElementsAre
<1>3. Elements(q) \subseteq Elements(r)
  BY <1>1, ElementsAre
<1>4. m \in Elements(r)
  <2>1. Len(q) + 1 \in 1 .. Len(r)
    BY <1>1
  <2>. QED BY <1>1, <2>1, ElementsAre
<1>. QED BY <1>1, <1>2, <1>3, <1>4 DEF r
LEMMA AppendOnce ==
  ASSUME NEW q \in Seq(Msgs), NEW m \in Msgs, Once(q), m \notin Elements(q)
  PROVE  Once(Append(q, m))
<1>. DEFINE r == Append(q, m)
<1>1. /\ DOMAIN r = 1 .. Len(q) + 1 /\ DOMAIN q = 1 .. Len(q) /\ Len(q) \in Nat
      /\ r[Len(q) + 1] = m /\ \A i \in 1 .. Len(q) : r[i] = q[i]
  OBVIOUS
<1>. HIDE DEF r
<1>2. \A i \in 1 .. Len(q) : q[i] # m
  BY ElementsAre
<1>3. ASSUME NEW i \in DOMAIN r, NEW j \in DOMAIN r, r[i] = r[j] PROVE i = j
  <2>1. CASE i \in 1 .. Len(q) /\ j \in 1 .. Len(q)
    BY <1>1, <1>3, <2>1 DEF Once
  <2>2. CASE i = Len(q) + 1 /\ j \in 1 .. Len(q)
    BY <1>1, <1>2, <1>3, <2>2
  <2>3. CASE i \in 1 .. Len(q) /\ j = Len(q) + 1
    BY <1>1, <1>2, <1>3, <2>3
  <2>4. CASE i = Len(q) + 1 /\ j = Len(q) + 1
    BY <2>4
  <2>. QED BY <1>1, <2>1, <2>2, <2>3, <2>4
<1>. QED BY <1>3 DEF Once, r
LEMMA SplitQueue ==
  ASSUME NEW q \in Seq(Msgs), Once(q), NEW n \in 0 .. Len(q)
  PROVE  /\ SubSeq(q, n + 1, Len(q)) \in Seq(Msgs) /\ Once(SubSeq(q, n + 1, Len(q)))
         /\ Elements(q) = Elements(SubSeq(q, 1, n)) \cup Elements(SubSeq(q, n + 1, Len(q)))
         /\ Elements(SubSeq(q, 1, n)) \cap Elements(SubSeq(q, n + 1, Len(q))) = {}
<1>. DEFINE k == Len(q)
            a == SubSeq(q, 1, n)
            b == SubSeq(q, n + 1, k)
<1>1. /\ k \in Nat /\ n \in Nat /\ n <= k
      /\ a \in Seq(Msgs) /\ Len(a) = n /\ \A i \in 1 .. n : a[i] = q[i]
  OBVIOUS
<1>2. b \in Seq(Msgs) /\ Len(b) = k - n /\ \A i \in 1 .. k - n : b[i] = q[n + i]
  OBVIOUS
<1>3. DOMAIN q = 1 .. k /\ DOMAIN b = 1 .. k - n
  BY <1>2
<1>. HIDE DEF a, b, k
<1>4. \A i \in 1 .. k - n : n + i \in 1 .. k
  BY <1>1
<1>5. Once(b)
  <2>1. ASSUME NEW i \in 1 .. k - n, NEW j \in 1 .. k - n, b[i] = b[j] PROVE i = j
    <3>1. q[n + i] = q[n + j]
      BY <1>2, <2>1
    <3>2. n + i = n + j
      BY <1>3, <1>4, <3>1 DEF Once
    <3>. QED BY <1>1, <3>2
  <2>. QED BY <1>3, <2>1 DEF Once
<1>6. Elements(a) = {q[i] : i \in 1 .. n}
  BY <1>1, ElementsAre
<1>7. Elements(b) = {q[i] : i \in n + 1 .. k}
  <2>1. \A i \in n + 1 .. k : i - n \in 1 .. k - n /\ n + (i - n) = i
    BY <1>1
  <2>2. \A i \in 1 .. k - n : n + i \in n + 1 .. k
    BY <1>1
  <2>3. Elements(b) = {b[i] : i \in 1 .. k - n}
    BY <1>2, ElementsAre
  <2>. QED BY <1>2, <2>1, <2>2, <2>3
<1>8. Elements(q) = {q[i] : i \in 1 .. k}
  BY ElementsAre DEF k
<1>9. 1 .. k = 1 .. n \cup n + 1 .. k
  BY <1>1
<1>10. Elements(q) = Elements(a) \cup Elements(b)
  BY <1>6, <1>7, <1>8, <1>9
<1>11. Elements(a) \cap Elements(b) = {}
  <2>1. ASSUME NEW i \in 1 .. n, NEW j \in n + 1 .. k, q[i] = q[j] PROVE FALSE
    <3>1. i \in 1 .. k /\ j \in 1 .. k /\ i # j
      BY <1>1
    <3>. QED BY <1>3, <2>1, <3>1 DEF Once
  <2>. QED BY <1>6, <1>7, <2>1
<1>. QED BY <1>2, <1>5, <1>10, <1>11 DEF a, b, k
-----------------------------------------------------------------------------
(* PendingIsOnce is not inductive: a message that is queued must not be      *)
(* queued or decided already, and a flush must begin with nothing in hand.   *)

In(q, fb, m) == m \in Elements(q) \/ \E f \in Fibers : m \in Elements(fb[f].items)
MarksTell == \A m \in Msgs : mark[m] = "pending" <=> In(queue, fiber, m)
NotTwice ==
  /\ Once(queue) /\ \A f \in Fibers : Once(fiber[f].items) /\ Apart(fiber[f].items, queue)
  /\ \A f, g \in Fibers : f # g => Apart(fiber[f].items, fiber[g].items)
Early == {"idle", "reading", "checked"}
Unsent == \A m \in Msgs : fiber[m].stage \in Early => mark[m] = "none"
Bare == \A f \in Fibers : fiber[f].stage = "off" => fiber[f].items = <<>>
MessageInv == MarksTell /\ NotTwice /\ Unsent /\ Bare

LEMMA MessageMeans == MessageInv => PendingIsOnce
  BY DEF MessageInv, MarksTell, NotTwice, In, PendingIsOnce

\* Fibers keep what they hold, and none goes back to before its message was sent.
FibersKeep ==
  \A f \in Fibers : /\ fiber'[f].items = fiber[f].items
                    /\ fiber'[f].stage \in Early => fiber[f].stage \in Early
                    /\ fiber'[f].stage = "off" => fiber[f].stage = "off"
LEMMA MessagesStay ==
  ASSUME MessageInv, FibersKeep, queue' = queue, mark' = mark
  PROVE  MessageInv'
<1>1. MarksTell'
  BY DEF MessageInv, MarksTell, In, FibersKeep
<1>2. NotTwice'
  BY DEF MessageInv, NotTwice, FibersKeep
<1>3. Unsent' /\ Bare'
  BY DEF MessageInv, Unsent, Bare, FibersKeep, Fibers
<1>. QED BY <1>1, <1>2, <1>3 DEF MessageInv

LEMMA KeptStill ==
  ASSUME UNCHANGED fiber
  PROVE  FibersKeep
  BY DEF FibersKeep
LEMMA KeptMoving ==
  ASSUME FiberOK, NEW f \in Fibers, NEW r, fiber' = [fiber EXCEPT ![f] = r],
         r.items = fiber[f].items, r.stage # "off",
         r.stage \in Early => fiber[f].stage \in Early
  PROVE  FibersKeep
  BY DEF FibersKeep, FiberOK
LEMMA KeptStaged ==
  ASSUME FiberOK, NEW f \in Fibers, NEW st, To(f, st), st # "off",
         st \in Early => fiber[f].stage \in Early
  PROVE  FibersKeep
<1>. DEFINE r == [fiber[f] EXCEPT !.stage = st]
<1>1. fiber[f] \in FiberType
  BY DEF FiberOK
<1>2. fiber' = [fiber EXCEPT ![f] = r]
  BY DEF To, FiberOK
<1>3. r.items = fiber[f].items /\ r.stage = st
  BY <1>1 DEF FiberType
<1>. HIDE DEF r
<1>. QED BY <1>2, <1>3, KeptMoving

\* A message joins the queue.
LEMMA MessagesQueued ==
  ASSUME TypeOK, MessageInv, NEW m \in Msgs, fiber[m].stage \in Early, Enqueue(m)
  PROVE  MessageInv'
<1>1. /\ FiberOK /\ RestOK /\ m \in Fibers /\ queue \in Seq(Msgs)
      /\ mark[m] = "none" /\ ~In(queue, fiber, m)
  BY TypeParts DEF Fibers, RestOK, MessageInv, MarksTell, Unsent
<1>2. /\ queue' = Append(queue, m) /\ To(m, "done")
      /\ \A x \in Msgs : mark'[x] = IF x = m THEN "pending" ELSE mark[x]
  BY <1>1 DEF Enqueue, RestOK
<1>3. FibersKeep
  BY <1>1, <1>2, KeptStaged DEF Early
<1>4. Elements(queue') = Elements(queue) \cup {m}
  BY <1>1, <1>2, AppendElements
<1>5. MarksTell'
  BY <1>1, <1>2, <1>3, <1>4 DEF MessageInv, MarksTell, In, FibersKeep
<1>6. NotTwice'
  <2>1. Once(queue')
    BY <1>1, <1>2, AppendOnce DEF MessageInv, NotTwice, In
  <2>2. \A f \in Fibers : Apart(fiber'[f].items, queue')
    BY <1>1, <1>3, <1>4 DEF MessageInv, NotTwice, Apart, In, FibersKeep
  <2>3. \A f \in Fibers : Once(fiber'[f].items)
    BY <1>3 DEF MessageInv, NotTwice, FibersKeep
  <2>4. \A f, g \in Fibers : f # g => Apart(fiber'[f].items, fiber'[g].items)
    BY <1>3 DEF MessageInv, NotTwice, FibersKeep
  <2>. QED BY <2>1, <2>2, <2>3, <2>4 DEF NotTwice
<1>7. Unsent'
  <2>1. fiber'[m].stage \notin Early
    BY <1>1, <1>2 DEF To, FiberOK, FiberType, Early
  <2>. QED BY <1>2, <1>3, <2>1 DEF MessageInv, Unsent, FibersKeep, Fibers
<1>8. Bare'
  BY <1>3 DEF MessageInv, Bare, FibersKeep
<1>. QED BY <1>5, <1>6, <1>7, <1>8 DEF MessageInv

\* Messages are decided, and leave the queue and the fibers.
LEMMA MessagesDecided ==
  ASSUME MessageInv, NEW ms, NEW st \in {"delivered", "undelivered"}, MarkAll(ms, st),
         Once(queue'), Elements(queue') \subseteq Elements(queue),
         \A f \in Fibers : fiber'[f].items \in {fiber[f].items, <<>>},
         \A m \in Msgs : In(queue', fiber', m) <=> In(queue, fiber, m) /\ m \notin ms,
         \A m \in Msgs : fiber'[m].stage \in Early =>
                         fiber[m].stage \in Early /\ (m \in ms => In(queue, fiber, m)),
         \A f \in Fibers : fiber'[f].stage = "off" => fiber'[f].items = <<>>
  PROVE  MessageInv'
<1>1. \A m \in Msgs : mark'[m] = IF m \in ms THEN st ELSE mark[m]
  BY DEF MarkAll
<1>2. MarksTell'
  BY <1>1 DEF MessageInv, MarksTell
<1>3. NotTwice'
  <2>1. \A f \in Fibers : Elements(fiber'[f].items) \subseteq Elements(fiber[f].items)
    BY EmptyElements
  <2>2. \A f \in Fibers : Once(fiber'[f].items)
    BY EmptyElements DEF MessageInv, NotTwice
  <2>3. \A f \in Fibers : Apart(fiber'[f].items, queue')
    BY <2>1 DEF MessageInv, NotTwice, Apart
  <2>4. \A f, g \in Fibers : f # g => Apart(fiber'[f].items, fiber'[g].items)
    BY <2>1 DEF MessageInv, NotTwice, Apart
  <2>. QED BY <2>2, <2>3, <2>4 DEF NotTwice
<1>4. Unsent'
  <2>1. ASSUME NEW m \in Msgs, fiber'[m].stage \in Early PROVE mark'[m] = "none"
    <3>1. mark[m] = "none" /\ (m \in ms => In(queue, fiber, m))
      BY <2>1 DEF MessageInv, Unsent
    <3>2. m \notin ms
      BY <3>1 DEF MessageInv, MarksTell
    <3>. QED BY <1>1, <3>1, <3>2
  <2>. QED BY <2>1 DEF Unsent
<1>5. Bare'
  BY DEF Bare
<1>. QED BY <1>2, <1>3, <1>4, <1>5 DEF MessageInv

\* A flush takes the queue.
LEMMA MessagesTaken ==
  ASSUME TypeOK, MessageInv, NEW f \in Fibers, fiber[f].stage = "off", NEW r,
         fiber' = [fiber EXCEPT ![f] = r], r.items = queue, r.stage \in {"claimed", "unclaimed"},
         queue' = <<>>, mark' = mark
  PROVE  MessageInv'
<1>1. \A g \in Fibers : fiber'[g] = IF g = f THEN r ELSE fiber[g]
  BY TypeParts DEF FiberOK
<1>2. fiber[f].items = <<>> /\ Elements(queue') = {} /\ Once(queue')
  BY EmptyElements DEF MessageInv, Bare
<1>3. MarksTell'
  <2>1. ASSUME NEW m \in Msgs PROVE In(queue', fiber', m) <=> In(queue, fiber, m)
    <3>1. m \in Elements(queue) <=> m \in Elements(fiber'[f].items)
      BY <1>1
    <3>2. m \notin Elements(fiber[f].items) /\ m \notin Elements(queue')
      BY <1>2, EmptyElements
    <3>3. \A g \in Fibers : g # f => fiber'[g].items = fiber[g].items
      BY <1>1
    <3>. QED BY <3>1, <3>2, <3>3 DEF In
  <2>. QED BY <2>1 DEF MessageInv, MarksTell
<1>4. NotTwice'
  <2>1. \A g \in Fibers : Once(fiber'[g].items) /\ Apart(fiber'[g].items, queue')
    BY <1>1, <1>2 DEF MessageInv, NotTwice, Apart
  <2>2. ASSUME NEW g \in Fibers, NEW h \in Fibers, g # h
        PROVE  Apart(fiber'[g].items, fiber'[h].items)
    BY <1>1, <2>2 DEF MessageInv, NotTwice, Apart
  <2>. QED BY <1>2, <2>1, <2>2 DEF NotTwice
<1>5. Unsent'
  BY <1>1 DEF MessageInv, Unsent, Early, Fibers
<1>6. Bare'
  BY <1>1 DEF MessageInv, Bare
<1>. QED BY <1>3, <1>4, <1>5, <1>6 DEF MessageInv
-----------------------------------------------------------------------------
LEMMA SendingMessages ==
  ASSUME TypeOK, MessageInv, NEW m \in Msgs, Sending(m)
  PROVE  MessageInv'
<1>1. FiberOK /\ RestOK /\ m \in Fibers /\ fiber[m] \in FiberType
  BY TypeParts DEF Fibers, FiberOK
<1>2. fiber[m].stage \in Early
  BY DEF Sending, Send, Read, Claim, Stage, Early
<1>3. ASSUME QueueUp(m) PROVE MessageInv'
  <2>1. CASE m \in Attached
    <3>1. To(m, "reading") /\ UNCHANGED <<queue, mark>>
      BY <1>3, <2>1 DEF QueueUp
    <3>2. FibersKeep
      BY <1>1, <1>2, <3>1, KeptStaged
    <3>. QED BY <3>1, <3>2, MessagesStay
  <2>2. CASE m \notin Attached
    BY <1>2, <1>3, <2>2, MessagesQueued DEF QueueUp
  <2>. QED BY <2>1, <2>2
<1>4. ASSUME NEW st \in {"checked", "unclaimed"}, To(m, st), UNCHANGED <<queue, mark>>
      PROVE  MessageInv'
  <2>1. FibersKeep
    BY <1>1, <1>2, <1>4, KeptStaged
  <2>. QED BY <1>4, <2>1, MessagesStay
<1>5. CASE Send(m)
  BY <1>3, <1>4, <1>5 DEF Send
<1>6. CASE Read(m)
  <2>1. CASE Enqueue(m)
    BY <1>2, <2>1, MessagesQueued
  <2>2. CASE To(m, "done") /\ MarkAll({m}, "undelivered") /\ UNCHANGED queue
    <3>1. ~In(queue, fiber, m)
      BY <1>2 DEF MessageInv, MarksTell, Unsent
    <3>2. FibersKeep /\ fiber'[m].stage = "done"
      BY <1>1, <2>2, KeptStaged DEF Early, To, FiberOK, FiberType
    <3>3. \A x \in Msgs : In(queue', fiber', x) <=> In(queue, fiber, x) /\ x \notin {m}
      BY <2>2, <3>1, <3>2 DEF In, FibersKeep
    <3>4. \A x \in Msgs : fiber'[x].stage \in Early => fiber[x].stage \in Early /\ x # m
      BY <3>2 DEF FibersKeep, Fibers, Early
    <3>5. Once(queue') /\ Elements(queue') \subseteq Elements(queue)
      BY <2>2 DEF MessageInv, NotTwice
    <3>6. \A f \in Fibers : /\ fiber'[f].items \in {fiber[f].items, <<>>}
                            /\ fiber'[f].stage = "off" => fiber'[f].items = <<>>
      BY <3>2 DEF FibersKeep, MessageInv, Bare
    <3>. QED BY <2>2, <3>3, <3>4, <3>5, <3>6, MessagesDecided
  <2>. QED BY <1>6, <2>1, <2>2 DEF Read
<1>7. CASE Claim(m)
  <2>1. CASE ClaimSlot(m) /\ UNCHANGED <<queue, mark>>
    <3>. DEFINE r == [fiber[m] EXCEPT !.stage = "claimed", !.on = current]
    <3>1. fiber' = [fiber EXCEPT ![m] = r]
      BY <1>1, <2>1 DEF ClaimSlot, FiberOK
    <3>2. r.items = fiber[m].items /\ r.stage = "claimed"
      BY <1>1 DEF FiberType
    <3>. HIDE DEF r
    <3>3. FibersKeep
      BY <1>1, <1>2, <3>1, <3>2, KeptMoving
    <3>. QED BY <2>1, <3>3, MessagesStay
  <2>. QED BY <1>3, <1>4, <1>7, <2>1 DEF Claim
<1>. QED BY <1>5, <1>6, <1>7 DEF Sending

LEMMA TurnMessages ==
  ASSUME TypeOK, MessageInv, NEW f \in Fibers, Turn(f)
  PROVE  MessageInv'
<1>1. FiberOK /\ RestOK /\ fiber[f] \in FiberType
  BY TypeParts DEF FiberOK
<1>2. ASSUME NEW st \in Holding, To(f, st), UNCHANGED <<queue, mark>> PROVE MessageInv'
  <2>1. st # "off" /\ st \notin Early
    BY <1>2 DEF Holding, Early
  <2>2. FibersKeep
    BY <1>1, <1>2, <2>1, KeptStaged
  <2>. QED BY <1>2, <2>2, MessagesStay
<1>3. CASE Begin(f)
  <2>1. CASE To(f, "failed")
    BY <1>2, <1>3, <2>1 DEF Begin, Holding
  <2>2. CASE fiber' = [fiber EXCEPT ![f].stage = "begun", ![f].in = current]
    <3>. DEFINE r == [fiber[f] EXCEPT !.stage = "begun", !.in = current]
    <3>1. fiber' = [fiber EXCEPT ![f] = r]
      BY <1>1, <2>2 DEF FiberOK
    <3>2. r.items = fiber[f].items /\ r.stage = "begun"
      BY <1>1 DEF FiberType
    <3>. HIDE DEF r
    <3>3. FibersKeep
      BY <1>1, <3>1, <3>2, KeptMoving DEF Early
    <3>. QED BY <1>3, <3>3, MessagesStay DEF Begin
  <2>. QED BY <1>3, <2>1, <2>2 DEF Begin
<1>4. CASE Prompt(f) \/ PromptEnds(f)
  <2>1. PICK st \in {"prompting", "interrupted", "failed", "answered"} : To(f, st)
    BY <1>4 DEF Prompt, PromptEnds
  <2>2. st \in Holding /\ UNCHANGED <<queue, mark>>
    BY <1>4, <2>1 DEF Prompt, PromptEnds, Holding
  <2>. QED BY <1>2, <2>1, <2>2
<1>5. CASE Complete(f)
  <2>1. PICK e : fiber' = [fiber EXCEPT ![f].stage = "settling", ![f].end = e]
    BY <1>5 DEF Complete
  <2>. DEFINE r == [fiber[f] EXCEPT !.stage = "settling", !.end = e]
  <2>2. fiber' = [fiber EXCEPT ![f] = r]
    BY <1>1, <2>1 DEF FiberOK
  <2>3. r.items = fiber[f].items /\ r.stage = "settling"
    BY <1>1 DEF FiberType
  <2>. HIDE DEF r
  <2>4. FibersKeep
    BY <1>1, <2>2, <2>3, KeptMoving DEF Early
  <2>. QED BY <1>5, <2>4, MessagesStay DEF Complete
<1>6. CASE Settle(f)
  <2>. DEFINE carried == Elements(fiber[f].items)
  <2>1. PICK st \in {"done", "off"} : fiber' = [fiber EXCEPT ![f] = Resting(st)]
    BY <1>6 DEF Settle
  <2>2. \A g \in Fibers : fiber'[g] = IF g = f THEN Resting(st) ELSE fiber[g]
    BY <1>1, <2>1 DEF FiberOK
  <2>3. Resting(st).items = <<>> /\ Resting(st).stage = st /\ st \notin Early
    BY <2>1 DEF Resting, Early
  <2>4. \A g \in Fibers : /\ fiber'[g].items \in {fiber[g].items, <<>>}
                          /\ fiber'[g].stage = "off" => fiber'[g].items = <<>>
    BY <2>2, <2>3 DEF MessageInv, Bare
  <2>5. \A m \in Msgs : fiber'[m].stage \in Early => fiber[m].stage \in Early
    BY <2>2, <2>3 DEF Fibers
  <2>6. \A m \in Msgs : m \in carried => In(queue, fiber, m)
    BY DEF In
  <2>7. ASSUME NEW m \in Msgs
        PROVE  In(queue, fiber', m) <=> In(queue, fiber, m) /\ m \notin carried
    <3>1. m \notin Elements(fiber'[f].items)
      BY <2>2, <2>3, EmptyElements
    <3>2. \A g \in Fibers : g # f => fiber'[g].items = fiber[g].items
      BY <2>2
    <3>3. m \in carried => /\ m \notin Elements(queue)
                           /\ \A g \in Fibers : g # f => m \notin Elements(fiber[g].items)
      BY DEF MessageInv, NotTwice, Apart
    <3>. QED BY <3>1, <3>2, <3>3 DEF In
  <2>8. CASE fiber[f].end = "completed"
    <3>1. MarkAll(carried, "delivered") /\ queue' = queue
      BY <1>6, <2>8 DEF Settle
    <3>2. Once(queue')
      BY <3>1 DEF MessageInv, NotTwice
    <3>. QED BY <2>4, <2>5, <2>6, <2>7, <3>1, <3>2, MessagesDecided
  <2>9. CASE fiber[f].end # "completed"
    <3>. DEFINE ms == carried \cup Elements(queue)
    <3>1. MarkAll(ms, "undelivered") /\ queue' = <<>>
      BY <1>6, <2>9 DEF Settle
    <3>2. Once(queue') /\ Elements(queue') = {}
      BY <3>1, EmptyElements
    <3>3. \A m \in Msgs : m \in ms => In(queue, fiber, m)
      BY <2>6 DEF In
    <3>4. \A m \in Msgs : In(queue', fiber', m) <=> In(queue, fiber, m) /\ m \notin ms
      <4>1. ASSUME NEW m \in Msgs
            PROVE  In(queue', fiber', m) <=> In(queue, fiber', m) /\ m \notin Elements(queue)
        <5>1. \A g \in Fibers : m \in Elements(fiber'[g].items) => m \notin Elements(queue)
          BY <2>2, <2>3, EmptyElements DEF MessageInv, NotTwice, Apart
        <5>. QED BY <3>2, <5>1 DEF In
      <4>. QED BY <2>7, <4>1
    <3>. HIDE DEF ms
    <3>. QED BY <2>4, <2>5, <3>1, <3>2, <3>3, <3>4, MessagesDecided
  <2>. QED BY <2>8, <2>9
<1>. QED BY <1>3, <1>4, <1>5, <1>6 DEF Turn

LEMMA FlushMessages ==
  ASSUME TypeOK, MessageInv, FlushNothing \/ \E f \in Flushers : Flush(f)
  PROVE  MessageInv'
<1>1. FiberOK
  BY TypeParts
<1>2. CASE FlushNothing
  BY <1>2, KeptStill, MessagesStay DEF FlushNothing
<1>3. ASSUME NEW f \in Flushers, Flush(f) PROVE MessageInv'
  <2>1. f \in Fibers /\ fiber[f] \in FiberType /\ fiber[f].stage = "off" /\ mark' = mark
    BY <1>1, <1>3 DEF Flush, Stage, Fibers, FiberOK
  <2>2. CASE Listed /\ ctx[current].owner # None
    <3>1. UNCHANGED <<fiber, queue>>
      BY <1>3, <2>2 DEF Flush
    <3>. QED BY <2>1, <3>1, KeptStill, MessagesStay
  <2>3. CASE Listed /\ ctx[current].owner = None
    <3>. DEFINE r == [fiber[f] EXCEPT !.stage = "claimed", !.on = current, !.items = queue]
    <3>1. /\ queue' = <<>>
          /\ fiber' = [fiber EXCEPT ![f].stage = "claimed", ![f].on = current,
                                    ![f].items = queue]
      BY <1>3, <2>3 DEF Flush
    <3>2. fiber' = [fiber EXCEPT ![f] = r]
      BY <1>1, <3>1 DEF FiberOK
    <3>3. r.items = queue /\ r.stage = "claimed"
      BY <2>1 DEF FiberType
    <3>. HIDE DEF r
    <3>. QED BY <2>1, <3>1, <3>2, <3>3, MessagesTaken
  <2>4. CASE ~Listed
    <3>. DEFINE r == [fiber[f] EXCEPT !.stage = "unclaimed", !.items = queue]
    <3>1. /\ queue' = <<>>
          /\ fiber' = [fiber EXCEPT ![f].stage = "unclaimed", ![f].items = queue]
      BY <1>3, <2>4 DEF Flush
    <3>2. fiber' = [fiber EXCEPT ![f] = r]
      BY <1>1, <3>1 DEF FiberOK
    <3>3. r.items = queue /\ r.stage = "unclaimed"
      BY <2>1 DEF FiberType
    <3>. HIDE DEF r
    <3>. QED BY <2>1, <3>1, <3>2, <3>3, MessagesTaken
  <2>. QED BY <2>2, <2>3, <2>4
<1>. QED BY <1>2, <1>3

\* Messages of the queue are decided where they are: a drain takes the head, a stop all.
LEMMA QueueDecided ==
  ASSUME TypeOK, MessageInv, UNCHANGED fiber, NEW st \in {"delivered", "undelivered"},
         NEW ms, MarkAll(ms, st), Once(queue'),
         Elements(queue) = ms \cup Elements(queue'), ms \cap Elements(queue') = {}
  PROVE  MessageInv'
<1>1. ASSUME NEW m \in Msgs
      PROVE  In(queue', fiber', m) <=> In(queue, fiber, m) /\ m \notin ms
  <2>1. m \in Elements(queue) => \A f \in Fibers : m \notin Elements(fiber[f].items)
    BY DEF MessageInv, NotTwice, Apart
  <2>. QED BY <2>1 DEF In
<1>2. \A m \in Msgs : m \in ms => In(queue, fiber, m)
  BY DEF In
<1>3. \A f \in Fibers : fiber'[f].stage = "off" => fiber'[f].items = <<>>
  BY DEF MessageInv, Bare
<1>. QED BY <1>1, <1>2, <1>3, MessagesDecided

LEMMA AgentMessages ==
  ASSUME TypeOK, MessageInv, NEW s \in Sessions, Drain(s) \/ CompactEnds(s) \/ Die(s) \/ Compact
  PROVE  MessageInv'
<1>1. CASE Drain(s)
  <2>1. queue \in Seq(Msgs) /\ Once(queue) /\ Len(queue) \in Nat /\ DrainCap \in Nat
    BY TypeParts, BoundsAssumption DEF RestOK, MessageInv, NotTwice
  <2>. DEFINE n == IF Len(queue) < DrainCap THEN Len(queue) ELSE DrainCap
  <2>2. n \in 0 .. Len(queue)
    BY <2>1
  <2>3. TakeForDrain = SubSeq(queue, 1, n)
    BY DEF TakeForDrain
  <2>. HIDE DEF n
  <2>4. Len(TakeForDrain) = n
    BY <2>1, <2>2, <2>3
  <2>5. queue' = SubSeq(queue, n + 1, Len(queue)) /\ UNCHANGED fiber
    BY <1>1, <2>4 DEF Drain
  <2>6. MarkAll(Elements(SubSeq(queue, 1, n)), "delivered")
    BY <1>1, <2>3 DEF Drain
  <2>. QED BY <2>1, <2>2, <2>5, <2>6, SplitQueue, QueueDecided
<1>2. CASE CompactEnds(s) \/ Die(s) \/ Compact
  BY <1>2, KeptStill, MessagesStay DEF CompactEnds, Die, Compact
<1>. QED BY <1>1, <1>2

LEMMA SessionMessages ==
  ASSUME TypeOK, MessageInv, NEW s \in Sessions, Start(s) \/ Stop(s) \/ Ending(s)
  PROVE  MessageInv'
<1>1. CASE Stop(s)
  <2>1. /\ MarkAll(Elements(queue), "undelivered") /\ queue' = <<>> /\ UNCHANGED fiber
    BY <1>1 DEF Stop
  <2>. QED BY <2>1, EmptyElements, QueueDecided
<1>2. CASE TearDown(s) /\ AtPrompt(s)
  <2>1. FiberOK /\ CtxOK
    BY TypeParts
  <2>2. /\ ctx[s].prompt \in Fibers /\ To(ctx[s].prompt, "interrupted")
        /\ UNCHANGED <<queue, mark>>
    BY <1>2, <2>1, CtxParts DEF TearDown, AtPrompt, To, Turns, CtxOK
  <2>3. FibersKeep
    BY <2>1, <2>2, KeptStaged DEF Early
  <2>. QED BY <2>2, <2>3, MessagesStay
<1>3. CASE ~Stop(s) /\ ~(TearDown(s) /\ AtPrompt(s))
  <2>1. UNCHANGED <<fiber, queue, mark>>
    BY <1>3 DEF Start, Ending, TearDown, Unlist, Kill, SeeExit
  <2>. QED BY <2>1, KeptStill, MessagesStay
<1>. QED BY <1>1, <1>2, <1>3

LEMMA InitMessages == Init => MessageInv
<1>. SUFFICES ASSUME Init PROVE MessageInv
  OBVIOUS
<1>1. \A f \in Fibers : fiber[f].items = <<>>
  BY DEF Init, Resting
<1>2. queue = <<>> /\ \A m \in Msgs : mark[m] = "none"
  BY DEF Init
<1>. QED BY <1>1, <1>2, EmptyElements
         DEF MessageInv, MarksTell, NotTwice, Unsent, Bare, In, Apart

LEMMA StepMessages == TypeOK /\ MessageInv /\ [Next]_vars => MessageInv'
<1>. SUFFICES ASSUME TypeOK, MessageInv, [Next]_vars PROVE MessageInv'
  OBVIOUS
<1>1. ASSUME NEW m \in Msgs, Sending(m) PROVE MessageInv'
  BY <1>1, SendingMessages
<1>2. ASSUME NEW f \in Fibers, Turn(f) PROVE MessageInv'
  BY <1>2, TurnMessages
<1>3. CASE FlushNothing \/ \E f \in Flushers : Flush(f)
  BY <1>3, FlushMessages
<1>4. ASSUME NEW s \in Sessions, Drain(s) \/ CompactEnds(s) \/ Die(s) PROVE MessageInv'
  BY <1>4, AgentMessages
<1>5. ASSUME NEW s \in Sessions, Start(s) \/ Stop(s) \/ Ending(s) PROVE MessageInv'
  BY <1>5, SessionMessages
<1>6. CASE Compact
  BY <1>6, KeptStill, MessagesStay DEF Compact
<1>7. CASE UNCHANGED vars
  BY <1>7, KeptStill, MessagesStay DEF vars
<1>. QED BY <1>1, <1>2, <1>3, <1>4, <1>5, <1>6, <1>7 DEF Next

\* Whatever sends, drains, flushes, failed turns, stops and late attachments come together:
\* a message that is pending is in the queue or in the hand of one flush, once, and one that
\* has been marked delivered or undelivered is nowhere any more.
THEOREM NoMessageLostOrTwice == Spec => []PendingIsOnce
BY InitTypes, StepTypes, InitMessages, StepMessages, MessageMeans, PTL DEF Spec
-----------------------------------------------------------------------------
(* Nothing waits in vain.  Who comes to a pending message is the turn it    *)
(* joined, the flush that turn forks, or the flush that has it in hand.     *)

Busy(r) == r.stage \in Holding \cup {"unclaimed"}
Served == forks > 0 \/ \E f \in Fibers : Busy(fiber[f])
Uncompacted == compactions = 0 => \A s \in Sessions : ctx[s].owner # Compaction
InHand == \A f \in Fibers : fiber[f].items # <<>> => Busy(fiber[f])
ReadsAttached == \A m \in Msgs : fiber[m].stage = "reading" => m \in Attached
Tended == \A m \in Msgs : mark[m] = "pending" => m \in Attached \/ compactions > 0 \/ Served
TendInv == Tended /\ Uncompacted /\ InHand /\ ReadsAttached

LEMMA TendMeans == TendInv => NothingStranded
  BY DEF TendInv, Tended, Served, Busy, NothingStranded, Stage

\* Fibers that will come to a message still will; whoever has messages in hand is one.
FibersServe ==
  \A f \in Fibers : /\ Busy(fiber[f]) => Busy(fiber'[f])
                    /\ fiber'[f].items # <<>> => Busy(fiber'[f])
                    /\ fiber'[f].stage = "reading" => fiber[f].stage = "reading" \/ f \in Attached
NoNewCompaction ==
  /\ compactions' = compactions
  /\ \A s \in Sessions : ctx'[s].owner = Compaction => ctx[s].owner = Compaction
LEMMA TendStays ==
  ASSUME TendInv, FibersServe, NoNewCompaction, UNCHANGED forks,
         \A m \in Msgs : mark'[m] = "pending" =>
                           mark[m] = "pending" \/ m \in Attached \/ compactions > 0 \/ Served
  PROVE  TendInv'
<1>1. Served => Served'
  BY DEF Served, FibersServe
<1>2. Tended'
  BY <1>1 DEF TendInv, Tended, NoNewCompaction
<1>3. Uncompacted'
  BY DEF TendInv, Uncompacted, NoNewCompaction
<1>4. InHand' /\ ReadsAttached'
  BY DEF TendInv, InHand, ReadsAttached, FibersServe, Fibers
<1>. QED BY <1>2, <1>3, <1>4 DEF TendInv

LEMMA ServeStill ==
  ASSUME TendInv, UNCHANGED fiber
  PROVE  FibersServe
  BY DEF FibersServe, TendInv, InHand
LEMMA ServeMoving ==
  ASSUME FiberOK, TendInv, NEW f \in Fibers, NEW r, fiber' = [fiber EXCEPT ![f] = r],
         r.items = fiber[f].items \/ Busy(r), Busy(fiber[f]) => Busy(r),
         r.stage = "reading" => f \in Attached
  PROVE  FibersServe
<1>1. \A g \in Fibers : fiber'[g] = IF g = f THEN r ELSE fiber[g]
  BY DEF FiberOK
<1>. QED BY <1>1 DEF FibersServe, TendInv, InHand
LEMMA ServeStaged ==
  ASSUME FiberOK, TendInv, NEW f \in Fibers, NEW st, To(f, st),
         Busy(fiber[f]) => st \in Holding \cup {"unclaimed"}, st = "reading" => f \in Attached
  PROVE  FibersServe
<1>. DEFINE r == [fiber[f] EXCEPT !.stage = st]
<1>1. fiber[f] \in FiberType
  BY DEF FiberOK
<1>2. fiber' = [fiber EXCEPT ![f] = r]
  BY DEF To, FiberOK
<1>3. r.items = fiber[f].items /\ r.stage = st
  BY <1>1 DEF FiberType
<1>. HIDE DEF r
<1>. QED BY <1>2, <1>3, ServeMoving DEF Busy
LEMMA CompactionStill ==
  ASSUME UNCHANGED <<ctx, compactions>>
  PROVE  NoNewCompaction
  BY DEF NoNewCompaction
LEMMA CompactionKept ==
  ASSUME CtxOK, NEW s \in Sessions, NEW c, ctx' = [ctx EXCEPT ![s] = c],
         c.owner # Compaction \/ c.owner = ctx[s].owner, UNCHANGED compactions
  PROVE  NoNewCompaction
  BY DEF CtxOK, NoNewCompaction

\* A send that finds a turn finds a fiber that will settle it.
LEMMA TurnServes ==
  ASSUME TypeOK, ClaimInv, EndInv, TendInv, Listed, compactions = 0,
         ctx[current].active # None \/ ctx[current].owner # None
  PROVE  Served
<1>1. current \in Sessions /\ current # NoSession /\ ctx[current] \in CtxType
  BY TypeParts DEF Listed, RestOK, CtxOK
<1>2. CASE ctx[current].active # None
  <2>1. ctx[current].active \in Fibers
    BY <1>1, <1>2, CtxParts DEF Turns
  <2>2. fiber[ctx[current].active].stage \in Running
    BY <1>1, <2>1 DEF EndInv, PairsTell, Pair
  <2>. QED BY <2>1, <2>2 DEF Served, Busy, Running, Holding
<1>3. CASE ctx[current].owner # None
  <2>1. ctx[current].owner \in Fibers
    BY <1>1, <1>3, CtxParts DEF Owners, TendInv, Uncompacted
  <2>2. fiber[ctx[current].owner].on = current
    BY <1>1, <2>1 DEF ClaimInv
  <2>3. fiber[ctx[current].owner].stage \in Holding
    BY <1>1, <2>1, <2>2 DEF ClaimInv
  <2>. QED BY <2>1, <2>3 DEF Served, Busy
<1>. QED BY <1>2, <1>3

LEMMA SendingTends ==
  ASSUME TypeOK, ClaimInv, EndInv, TendInv, NEW m \in Msgs, Sending(m)
  PROVE  TendInv'
<1>1. FiberOK /\ CtxOK /\ RestOK /\ m \in Fibers /\ fiber[m] \in FiberType /\ compactions \in Nat
  BY TypeParts DEF Fibers, FiberOK, RestOK
<1>2. ~Busy(fiber[m])
  BY DEF Sending, Send, Read, Claim, Stage, Busy, Holding
<1>3. ASSUME NEW st, To(m, st), st = "reading" => m \in Attached, UNCHANGED <<ctx, forks, compactions>>,
             \A x \in Msgs : mark'[x] = "pending" => mark[x] = "pending" \/ x \in Attached
                                                      \/ compactions > 0 \/ Served
      PROVE  TendInv'
  <2>1. FibersServe
    BY <1>1, <1>2, <1>3, ServeStaged
  <2>2. NoNewCompaction
    BY <1>3, CompactionStill
  <2>. QED BY <1>3, <2>1, <2>2, TendStays
<1>4. ASSUME Enqueue(m), UNCHANGED <<ctx, forks, compactions>>,
             m \in Attached \/ compactions > 0 \/ Served
      PROVE  TendInv'
  <2>1. \A x \in Msgs : mark'[x] = IF x = m THEN "pending" ELSE mark[x]
    BY <1>1, <1>4 DEF Enqueue, RestOK
  <2>2. To(m, "done")
    BY <1>4 DEF Enqueue
  <2>. QED BY <1>3, <1>4, <2>1, <2>2
<1>5. ASSUME QueueUp(m), UNCHANGED <<ctx, forks, compactions>>, Listed,
             ctx[current].active # None \/ ctx[current].owner # None
      PROVE  TendInv'
  <2>1. CASE m \in Attached
    BY <1>3, <1>5, <2>1 DEF QueueUp
  <2>2. CASE m \notin Attached
    <3>1. Enqueue(m)
      BY <1>5, <2>2 DEF QueueUp
    <3>2. compactions > 0 \/ Served
      BY <1>1, <1>5, TurnServes
    <3>. QED BY <1>4, <1>5, <3>1, <3>2
  <2>. QED BY <2>1, <2>2
<1>6. CASE Send(m)
  <2>1. CASE TurnRuns
    BY <1>5, <1>6, <2>1 DEF Send, TurnRuns
  <2>2. CASE ~TurnRuns
    BY <1>3, <1>6, <2>2 DEF Send
  <2>. QED BY <2>1, <2>2
<1>7. CASE Read(m)
  <2>1. m \in Attached
    BY <1>7 DEF Read, Stage, TendInv, ReadsAttached
  <2>2. CASE Enqueue(m)
    BY <1>4, <1>7, <2>1, <2>2 DEF Read
  <2>3. CASE To(m, "done") /\ MarkAll({m}, "undelivered")
    <3>1. \A x \in Msgs : mark'[x] = "pending" => mark[x] = "pending"
      BY <2>3 DEF MarkAll
    <3>. QED BY <1>3, <1>7, <2>3, <3>1 DEF Read
  <2>. QED BY <1>7, <2>2, <2>3 DEF Read
<1>8. CASE Claim(m)
  <2>1. CASE ClaimSlot(m) /\ UNCHANGED <<queue, mark>>
    <3>. DEFINE r == [fiber[m] EXCEPT !.stage = "claimed", !.on = current]
                c == [ctx[current] EXCEPT !.owner = m]
    <3>1. current \in Sessions /\ ctx[current] \in CtxType /\ m # Compaction
      BY <1>1, <2>1, FibersAssumption DEF ClaimSlot, Listed, RestOK, CtxOK
    <3>2. fiber' = [fiber EXCEPT ![m] = r] /\ ctx' = [ctx EXCEPT ![current] = c]
      BY <1>1, <2>1, <3>1 DEF ClaimSlot, FiberOK, CtxOK
    <3>3. r.stage = "claimed" /\ c.owner = m
      BY <1>1, <3>1 DEF FiberType, CtxType
    <3>. HIDE DEF r, c
    <3>4. FibersServe
      BY <1>1, <3>2, <3>3, ServeMoving DEF Busy, Holding
    <3>5. NoNewCompaction
      BY <1>1, <1>8, <3>1, <3>2, <3>3, CompactionKept DEF Claim
    <3>. QED BY <1>8, <2>1, <3>4, <3>5, TendStays DEF Claim
  <2>2. CASE To(m, "unclaimed") /\ UNCHANGED <<ctx, queue, mark>>
    BY <1>3, <1>8, <2>2 DEF Claim
  <2>3. CASE Listed /\ ctx[current].owner \notin {None, Compaction} /\ QueueUp(m) /\ UNCHANGED ctx
    BY <1>5, <1>8, <2>3 DEF Claim
  <2>. QED BY <1>8, <2>1, <2>2, <2>3 DEF Claim
<1>. QED BY <1>6, <1>7, <1>8 DEF Sending

LEMMA TurnTends ==
  ASSUME TypeOK, MessageInv, TendInv, NEW f \in Fibers, Turn(f)
  PROVE  TendInv'
<1>1. FiberOK /\ CtxOK /\ RestOK /\ fiber[f] \in FiberType
  BY TypeParts DEF FiberOK
<1>. DEFINE s == fiber[f].in
<1>2. ASSUME FibersServe, NoNewCompaction, UNCHANGED <<mark, forks>> PROVE TendInv'
  BY <1>2, TendStays
<1>3. CASE Begin(f)
  <2>1. CASE Listed /\ ~ctx[current].stopped /\ ctx[current].owner # Compaction
    <3>. DEFINE c == [ctx[current] EXCEPT !.active = f, !.barrier = f, !.cancel = FALSE,
                                        !.shared = @ \/ fiber[f].on # current]
                r == [fiber[f] EXCEPT !.stage = "begun", !.in = current]
    <3>1. current \in Sessions /\ ctx[current] \in CtxType
      BY <1>1, <2>1, TypeParts DEF Listed, RestOK, CtxOK
    <3>2. ctx' = [ctx EXCEPT ![current] = c] /\ fiber' = [fiber EXCEPT ![f] = r]
      BY <1>1, <1>3, <2>1, <3>1 DEF Begin, CtxOK, FiberOK
    <3>3. c.owner = ctx[current].owner /\ r.stage = "begun"
      BY <1>1, <3>1 DEF CtxType, FiberType
    <3>. HIDE DEF c, r
    <3>4. FibersServe
      BY <1>1, <3>2, <3>3, ServeMoving DEF Busy, Holding
    <3>5. NoNewCompaction
      BY <1>1, <1>3, <3>1, <3>2, <3>3, CompactionKept DEF Begin
    <3>. QED BY <1>2, <1>3, <3>4, <3>5 DEF Begin
  <2>2. CASE ~(Listed /\ ~ctx[current].stopped /\ ctx[current].owner # Compaction)
    <3>1. To(f, "failed") /\ UNCHANGED <<ctx, compactions, mark, forks>>
      BY <1>3, <2>2 DEF Begin
    <3>2. FibersServe
      BY <1>1, <3>1, ServeStaged DEF Holding
    <3>. QED BY <1>2, <3>1, <3>2, CompactionStill
  <2>. QED BY <2>1, <2>2
<1>4. CASE Prompt(f) \/ PromptEnds(f)
  <2>1. s \in Sessions /\ ctx[s] \in CtxType
    <3>1. fiber[f].stage \in {"begun", "prompting"}
      BY <1>4 DEF Prompt, PromptEnds, Stage
    <3>. QED BY <1>1, <3>1, FiberParts DEF FiberOK, Placed, CtxOK
  <2>2. PICK st \in {"prompting", "interrupted", "failed", "answered"} : To(f, st)
    BY <1>4 DEF Prompt, PromptEnds
  <2>3. FibersServe
    BY <1>1, <2>2, ServeStaged DEF Holding
  <2>4. UNCHANGED ctx \/ \E p : ctx' = [ctx EXCEPT ![s] = [ctx[s] EXCEPT !.prompt = p]]
    BY <1>1, <1>4, <2>1 DEF Prompt, PromptEnds, CtxOK
  <2>5. \A p : [ctx[s] EXCEPT !.prompt = p].owner = ctx[s].owner
    BY <2>1 DEF CtxType
  <2>6. UNCHANGED <<mark, forks, compactions>>
    BY <1>4 DEF Prompt, PromptEnds
  <2>7. NoNewCompaction
    BY <1>1, <2>1, <2>4, <2>5, <2>6, CompactionKept, CompactionStill
  <2>. QED BY <1>2, <2>3, <2>6, <2>7
<1>5. CASE Complete(f)
  <2>1. PICK e : fiber' = [fiber EXCEPT ![f].stage = "settling", ![f].end = e]
    BY <1>5 DEF Complete
  <2>. DEFINE r == [fiber[f] EXCEPT !.stage = "settling", !.end = e]
  <2>2. fiber' = [fiber EXCEPT ![f] = r] /\ r.stage = "settling"
    BY <1>1, <2>1 DEF FiberOK, FiberType
  <2>. HIDE DEF r
  <2>3. FibersServe
    BY <1>1, <2>2, ServeMoving DEF Busy, Holding
  <2>4. CASE s = NoSession
    BY <1>2, <1>5, <2>3, <2>4, CompactionStill DEF Complete
  <2>5. CASE s # NoSession
    <3>. DEFINE c == [ctx[s] EXCEPT !.active = None]
    <3>1. s \in Sessions /\ ctx[s] \in CtxType
      BY <1>1, <2>5, FiberParts DEF CtxOK
    <3>2. ctx' = [ctx EXCEPT ![s] = c] /\ c.owner = ctx[s].owner
      BY <1>1, <1>5, <2>5, <3>1 DEF Complete, CtxOK, CtxType
    <3>. HIDE DEF c
    <3>3. NoNewCompaction
      BY <1>1, <1>5, <3>1, <3>2, CompactionKept DEF Complete
    <3>. QED BY <1>2, <1>5, <2>3, <3>3 DEF Complete
  <2>. QED BY <2>4, <2>5
<1>6. CASE Settle(f)
  <2>1. PICK st \in {"done", "off"} : fiber' = [fiber EXCEPT ![f] = Resting(st)]
    BY <1>6 DEF Settle
  <2>2. /\ \A g \in Fibers : g # f => fiber'[g] = fiber[g]
        /\ fiber'[f].items = <<>> /\ fiber'[f].stage # "reading"
    BY <1>1, <2>1 DEF FiberOK, Resting
  <2>3. InHand' /\ ReadsAttached'
    BY <2>2 DEF TendInv, InHand, ReadsAttached, Fibers
  <2>4. Uncompacted'
    <3>1. ASSUME NEW t \in Sessions, ctx[t].owner # Compaction PROVE ctx'[t].owner # Compaction
      <4>1. ctx[t] \in CtxType
        BY <1>1 DEF CtxOK
      <4>2. ctx'[t] = [ctx[t] EXCEPT !.owner = IF @ = f /\ fiber[f].on = t THEN None ELSE @,
                                     !.barrier = IF @ = f THEN None ELSE @,
                                     !.wait = IF @ = f THEN None ELSE @]
        BY <1>6 DEF Settle, Released
      <4>. QED BY <3>1, <4>1, <4>2, FibersAssumption DEF CtxType
    <3>. QED BY <1>6, <3>1 DEF TendInv, Uncompacted, Settle
  <2>5. CASE fiber[f].end = "completed"
    <3>1. forks' = forks + 1 /\ forks \in Nat
      BY <1>1, <1>6, <2>5 DEF Settle, RestOK
    <3>2. forks' > 0
      BY <3>1
    <3>3. Tended'
      BY <3>2 DEF Tended, Served
    <3>. QED BY <2>3, <2>4, <3>3 DEF TendInv
  <2>6. CASE fiber[f].end # "completed"
    <3>1. MarkAll(Elements(fiber[f].items) \cup Elements(queue), "undelivered")
      BY <1>6, <2>6 DEF Settle
    <3>2. ASSUME NEW m \in Msgs, mark'[m] = "pending" PROVE Served'
      <4>1. /\ mark[m] = "pending"
            /\ m \notin Elements(fiber[f].items) /\ m \notin Elements(queue)
        BY <3>1, <3>2 DEF MarkAll
      <4>2. PICK g \in Fibers : m \in Elements(fiber[g].items)
        BY <4>1 DEF MessageInv, MarksTell, In
      <4>3. g # f /\ fiber[g].items # <<>>
        BY <4>1, <4>2, EmptyElements
      <4>4. Busy(fiber'[g])
        BY <2>2, <4>3 DEF TendInv, InHand
      <4>. QED BY <4>4 DEF Served
    <3>3. Tended'
      BY <3>2 DEF Tended
    <3>. QED BY <2>3, <2>4, <3>3 DEF TendInv
  <2>. QED BY <2>5, <2>6
<1>. QED BY <1>3, <1>4, <1>5, <1>6 DEF Turn

LEMMA FlushTends ==
  ASSUME TypeOK, ClaimInv, MessageInv, TendInv,
         FlushNothing \/ \E f \in Flushers : Flush(f)
  PROVE  TendInv'
<1>1. FiberOK /\ CtxOK /\ RestOK /\ compactions \in Nat
  BY TypeParts DEF RestOK
<1>2. CASE FlushNothing
  <2>1. UNCHANGED <<ctx, fiber, mark, compactions>> /\ queue = <<>>
    BY <1>2 DEF FlushNothing
  <2>2. Uncompacted' /\ InHand' /\ ReadsAttached'
    BY <2>1 DEF TendInv, Uncompacted, InHand, ReadsAttached
  <2>3. ASSUME NEW m \in Msgs, mark[m] = "pending" PROVE \E g \in Fibers : Busy(fiber[g])
    <3>1. PICK g \in Fibers : m \in Elements(fiber[g].items)
      BY <2>1, <2>3, EmptyElements DEF MessageInv, MarksTell, In
    <3>2. fiber[g].items # <<>>
      BY <3>1, EmptyElements
    <3>. QED BY <3>2 DEF TendInv, InHand
  <2>4. Tended'
    BY <2>1, <2>3 DEF Tended, Served
  <2>. QED BY <2>2, <2>4 DEF TendInv
<1>3. ASSUME NEW f \in Flushers, Flush(f) PROVE TendInv'
  <2>1. /\ f \in Fibers /\ fiber[f] \in FiberType /\ f # Compaction
        /\ UNCHANGED <<mark, compactions>>
    BY <1>1, <1>3, FibersAssumption DEF Flush, Fibers, FiberOK
  <2>2. CASE Listed /\ ctx[current].owner # None
    <3>1. UNCHANGED <<ctx, fiber>>
      BY <1>3, <2>2 DEF Flush
    <3>2. Uncompacted' /\ InHand' /\ ReadsAttached'
      BY <2>1, <3>1 DEF TendInv, Uncompacted, InHand, ReadsAttached
    <3>3. compactions > 0 \/ \E g \in Fibers : Busy(fiber[g])
      <4>1. SUFFICES ASSUME compactions = 0 PROVE \E g \in Fibers : Busy(fiber[g])
        BY <1>1
      <4>2. current \in Sessions /\ ctx[current] \in CtxType /\ current # NoSession
        BY <1>1, <2>2 DEF Listed, RestOK, CtxOK
      <4>3. ctx[current].owner \in Fibers
        BY <2>2, <4>1, <4>2, CtxParts DEF Owners, TendInv, Uncompacted
      <4>4. fiber[ctx[current].owner].stage \in Holding
        BY <4>2, <4>3 DEF ClaimInv
      <4>. QED BY <4>3, <4>4 DEF Busy
    <3>4. Tended'
      BY <2>1, <3>1, <3>3 DEF Tended, Served
    <3>. QED BY <3>2, <3>4 DEF TendInv
  <2>3. ASSUME NEW r, fiber' = [fiber EXCEPT ![f] = r], Busy(r), r.stage # "reading",
               NoNewCompaction
        PROVE  TendInv'
    <3>1. /\ \A g \in Fibers : g # f => fiber'[g] = fiber[g]
          /\ fiber'[f] = r
      BY <1>1, <2>1, <2>3 DEF FiberOK
    <3>2. InHand' /\ ReadsAttached'
      BY <2>3, <3>1 DEF TendInv, InHand, ReadsAttached, Fibers
    <3>3. Uncompacted'
      BY <2>3 DEF TendInv, Uncompacted, NoNewCompaction
    <3>4. Tended'
      BY <2>1, <2>3, <3>1 DEF Tended, Served
    <3>. QED BY <3>2, <3>3, <3>4 DEF TendInv
  <2>4. CASE Listed /\ ctx[current].owner = None
    <3>. DEFINE c == [ctx[current] EXCEPT !.owner = f]
                r == [fiber[f] EXCEPT !.stage = "claimed", !.on = current, !.items = queue]
    <3>1. current \in Sessions /\ ctx[current] \in CtxType
      BY <1>1, <2>4 DEF Listed, RestOK, CtxOK
    <3>2. /\ ctx' = [ctx EXCEPT ![current].owner = f]
          /\ fiber' = [fiber EXCEPT ![f].stage = "claimed", ![f].on = current,
                                    ![f].items = queue]
      BY <1>3, <2>4 DEF Flush
    <3>3. ctx' = [ctx EXCEPT ![current] = c] /\ fiber' = [fiber EXCEPT ![f] = r]
      BY <1>1, <2>1, <3>1, <3>2 DEF CtxOK, FiberOK
    <3>4. c.owner = f /\ r.stage = "claimed"
      BY <2>1, <3>1 DEF CtxType, FiberType
    <3>. HIDE DEF c, r
    <3>5. NoNewCompaction
      BY <1>1, <2>1, <3>1, <3>3, <3>4, CompactionKept
    <3>. QED BY <2>3, <3>3, <3>4, <3>5 DEF Busy, Holding
  <2>5. CASE ~Listed
    <3>. DEFINE r == [fiber[f] EXCEPT !.stage = "unclaimed", !.items = queue]
    <3>1. ctx' = ctx /\ fiber' = [fiber EXCEPT ![f].stage = "unclaimed", ![f].items = queue]
      BY <1>3, <2>5 DEF Flush
    <3>2. fiber' = [fiber EXCEPT ![f] = r] /\ r.stage = "unclaimed"
      BY <1>1, <2>1, <3>1 DEF FiberOK, FiberType
    <3>. HIDE DEF r
    <3>3. NoNewCompaction
      BY <2>1, <3>1, CompactionStill
    <3>. QED BY <2>3, <3>2, <3>3 DEF Busy
  <2>. QED BY <2>2, <2>4, <2>5
<1>. QED BY <1>2, <1>3

LEMMA AgentTends ==
  ASSUME TypeOK, TendInv, NEW s \in Sessions, Drain(s) \/ CompactEnds(s) \/ Die(s) \/ Compact
  PROVE  TendInv'
<1>1. CtxOK /\ RestOK /\ compactions \in Nat /\ ctx[s] \in CtxType
  BY TypeParts DEF CtxOK, RestOK
<1>2. UNCHANGED <<fiber, forks>> /\ FibersServe
  BY ServeStill DEF Drain, CompactEnds, Die, Compact
<1>3. CASE Drain(s)
  <2>1. \A m \in Msgs : mark'[m] = "pending" => mark[m] = "pending"
    BY <1>3 DEF Drain, MarkAll
  <2>. QED BY <1>2, <1>3, <2>1, CompactionStill, TendStays DEF Drain
<1>4. CASE CompactEnds(s) \/ Die(s)
  <2>. DEFINE c == IF CompactEnds(s) THEN [ctx[s] EXCEPT !.owner = None]
                                     ELSE [ctx[s] EXCEPT !.alive = FALSE]
  <2>1. ctx' = [ctx EXCEPT ![s] = c] /\ UNCHANGED <<mark, compactions>>
    BY <1>1, <1>4 DEF CompactEnds, Die, CtxOK
  <2>2. c.owner # Compaction \/ c.owner = ctx[s].owner
    BY <1>1, FibersAssumption DEF CtxType
  <2>. HIDE DEF c
  <2>3. NoNewCompaction
    BY <1>1, <2>1, <2>2, CompactionKept
  <2>. QED BY <1>2, <2>1, <2>3, TendStays
<1>5. CASE Compact
  <2>1. compactions' = compactions + 1
    BY <1>5 DEF Compact
  <2>2. compactions' > 0 /\ compactions' # 0
    BY <1>1, <2>1
  <2>3. Tended' /\ Uncompacted'
    BY <2>2 DEF Tended, Uncompacted
  <2>4. InHand' /\ ReadsAttached'
    BY <1>2 DEF TendInv, InHand, ReadsAttached
  <2>. QED BY <2>3, <2>4 DEF TendInv
<1>. QED BY <1>3, <1>4, <1>5

LEMMA SessionTends ==
  ASSUME TypeOK, TendInv, NEW s \in Sessions, Start(s) \/ Stop(s) \/ Ending(s)
  PROVE  TendInv'
<1>1. FiberOK /\ CtxOK /\ ctx[s] \in CtxType
  BY TypeParts DEF CtxOK
<1>2. FibersServe
  <2>1. CASE TearDown(s) /\ AtPrompt(s)
    <3>1. ctx[s].prompt \in Fibers /\ To(ctx[s].prompt, "interrupted")
      BY <1>1, <2>1, CtxParts DEF TearDown, AtPrompt, To, Turns
    <3>. QED BY <1>1, <3>1, ServeStaged DEF Holding
  <2>2. CASE ~(TearDown(s) /\ AtPrompt(s))
    <3>1. UNCHANGED fiber
      BY <2>2 DEF Start, Stop, Ending, TearDown, Unlist, Kill, SeeExit
    <3>. QED BY <3>1, ServeStill
  <2>. QED BY <2>1, <2>2
<1>3. ASSUME NEW c, ctx' = [ctx EXCEPT ![s] = c], c.owner = ctx[s].owner,
             UNCHANGED <<forks, compactions>>,
             \A m \in Msgs : mark'[m] = "pending" => mark[m] = "pending"
      PROVE  TendInv'
  <2>1. NoNewCompaction
    BY <1>1, <1>3, CompactionKept
  <2>. QED BY <1>2, <1>3, <2>1, TendStays
<1>4. CASE Start(s)
  <2>1. [ctx[s] EXCEPT !.born = TRUE, !.alive = TRUE].owner = ctx[s].owner
    BY <1>1 DEF CtxType
  <2>2. ctx' = [ctx EXCEPT ![s] = [ctx[s] EXCEPT !.born = TRUE, !.alive = TRUE]]
    BY <1>1, <1>4 DEF Start, CtxOK
  <2>. QED BY <1>3, <1>4, <2>1, <2>2 DEF Start
<1>5. CASE Stop(s)
  <2>1. PICK i : ctx' = [ctx EXCEPT ![s].stopped = TRUE, ![s].cancel = i, ![s].down = "claimed"]
    BY <1>5 DEF Stop
  <2>. DEFINE c == [ctx[s] EXCEPT !.stopped = TRUE, !.cancel = i, !.down = "claimed"]
  <2>2. c.owner = ctx[s].owner /\ ctx' = [ctx EXCEPT ![s] = c]
    BY <1>1, <2>1 DEF CtxOK, CtxType
  <2>3. \A m \in Msgs : mark'[m] = "pending" => mark[m] = "pending"
    BY <1>5 DEF Stop, MarkAll
  <2>. HIDE DEF c
  <2>. QED BY <1>3, <1>5, <2>2, <2>3 DEF Stop
<1>6. CASE TearDown(s)
  <2>. DEFINE w == IF ctx[s].active # None THEN ctx[s].barrier ELSE None
              c == IF AtPrompt(s)
                   THEN [ctx[s] EXCEPT !.prompt = None, !.wait = ctx[s].barrier,
                                       !.down = "waiting"]
                   ELSE [ctx[s] EXCEPT !.alive = FALSE, !.down = "waiting", !.wait = w]
  <2>1. c.owner = ctx[s].owner
    BY <1>1 DEF CtxType
  <2>2. ctx' = [ctx EXCEPT ![s] = c]
    BY <1>1, <1>6 DEF TearDown, CtxOK
  <2>. HIDE DEF c
  <2>. QED BY <1>3, <1>6, <2>1, <2>2 DEF TearDown
<1>7. CASE Unlist(s) \/ Kill(s) \/ SeeExit(s)
  <2>1. PICK c \in {[ctx[s] EXCEPT !.down = "gone"], [ctx[s] EXCEPT !.alive = FALSE],
                    [ctx[s] EXCEPT !.exited = TRUE]} : ctx' = [ctx EXCEPT ![s] = c]
    BY <1>1, <1>7 DEF Unlist, Kill, SeeExit, CtxOK
  <2>2. c.owner = ctx[s].owner
    BY <1>1, <2>1 DEF CtxType
  <2>. QED BY <1>3, <1>7, <2>1, <2>2 DEF Unlist, Kill, SeeExit
<1>. QED BY <1>4, <1>5, <1>6, <1>7 DEF Ending

LEMMA InitTends == Init => TendInv
<1>. SUFFICES ASSUME Init PROVE TendInv
  OBVIOUS
<1>1. \A s \in Sessions : ctx[s].owner = None
  BY DEF Init, Unborn
<1>2. \A f \in Fibers : fiber[f].items = <<>> /\ fiber[f].stage # "reading"
  BY DEF Init, Resting
<1>3. \A m \in Msgs : mark[m] # "pending"
  BY DEF Init
<1>. QED BY <1>1, <1>2, <1>3, FibersAssumption
         DEF TendInv, Tended, Uncompacted, InHand, ReadsAttached, Fibers

LEMMA StepTends ==
  TypeOK /\ ClaimInv /\ EndInv /\ MessageInv /\ TendInv /\ [Next]_vars => TendInv'
<1>. SUFFICES ASSUME TypeOK, ClaimInv, EndInv, MessageInv, TendInv, [Next]_vars PROVE TendInv'
  OBVIOUS
<1>1. ASSUME NEW m \in Msgs, Sending(m) PROVE TendInv'
  BY <1>1, SendingTends
<1>2. ASSUME NEW f \in Fibers, Turn(f) PROVE TendInv'
  BY <1>2, TurnTends
<1>3. CASE FlushNothing \/ \E f \in Flushers : Flush(f)
  BY <1>3, FlushTends
<1>4. ASSUME NEW s \in Sessions, Drain(s) \/ CompactEnds(s) \/ Die(s) PROVE TendInv'
  BY <1>4, AgentTends
<1>5. ASSUME NEW s \in Sessions, Start(s) \/ Stop(s) \/ Ending(s) PROVE TendInv'
  BY <1>5, SessionTends
<1>6. CASE Compact
  <2>1. current \in Sessions
    BY <1>6, TypeParts DEF Compact, Listed, RestOK
  <2>. QED BY <1>6, <2>1, AgentTends
<1>7. CASE UNCHANGED vars
  BY <1>7, ServeStill, CompactionStill, TendStays DEF vars
<1>. QED BY <1>1, <1>2, <1>3, <1>4, <1>5, <1>6, <1>7 DEF Next

\* A message that is pending has somebody who will come to it: the turn it joined, which
\* drains it, drops it or forks a flush, or a flush; but for a message queued late (its
\* attachment was read first) or one whose flush met a compaction.
THEOREM NobodyWaitsInVain == Spec => []NothingStranded
BY InitTypes, StepTypes, InitClaims, StepClaims, InitEnds, StepEnds, InitMessages, StepMessages,
   InitTends, StepTends, TendMeans, PTL DEF Spec
============================================================================
