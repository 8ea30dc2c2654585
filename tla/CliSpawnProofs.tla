--------------------------- MODULE CliSpawnProofs ---------------------------
(***************************************************************************)
(* Proofs about CliSpawn, for every set of clients and every bound.        *)
(***************************************************************************)
EXTENDS CliSpawn, NaturalsInduction, WellFoundedInduction, TLAPS

----------------------------------------------------------------------------
(* The gate.                                                                *)

\* What the permit invariant says of the gate alone.
Held(g) ==
  /\ g.taken <=> \E c \in Clients : g.granted[c] = "permit"
  /\ \A c, d \in Clients : g.granted[c] = "permit" /\ g.granted[d] = "permit" => c = d
  /\ \A c \in Clients : g.granted[c] = "permit" => c \in g.out
  /\ \A c \in g.queue : g.granted[c] = "none"
GateOK(g) == g \in GateType /\ Held(g)

\* Nobody who may go is left in the queue.
Served(g) ==
  ~g.shut => IF g.authOk THEN g.queue = {} ELSE g.taken \/ Eligible(g) = {}

\* h is g but for clients that left the queue and are out now.
Admitted(g, h) ==
  /\ h.queue \subseteq g.queue
  /\ h.out = g.out \cup (g.queue \ h.queue)
  /\ \A c \in Clients : c \notin g.queue => h.granted[c] = g.granted[c]
  /\ h.shut = g.shut /\ h.reserved = g.reserved
  /\ g.shut => h.queue = g.queue /\ h.authOk = g.authOk

\* A non-empty set of naturals has a least element.
LEMMA LeastNatural ==
  ASSUME NEW S \in SUBSET Nat, S # {}
  PROVE  \E s \in S : \A t \in S : s <= t
<1> DEFINE R == OpToRel(<, Nat)
<1>1. \A x, y \in Nat : <<x, y>> \in R <=> x < y
  BY Zenon DEF OpToRel
<1> HIDE DEF R
<1>2. PICK s \in S : \A t \in S : ~ (<<t, s>> \in R)
  BY NatLessThanWellFounded, WFMin, Zenon DEF R
<1>3. \A t \in S : ~ (t < s)
  BY <1>1, <1>2, Zenon
<1> QED
  BY <1>2, <1>3

\* If someone may go, First names one of them.
LEMMA FirstIsEligible ==
  ASSUME NEW g \in GateType, Eligible(g) # {}
  PROVE  First(g) \in Eligible(g) /\ First(g) \in g.queue
<1>1. Eligible(g) \subseteq g.queue /\ g.queue \subseteq Clients
  BY DEF Eligible, GateType
<1> DEFINE S == {g.seq[c] : c \in Eligible(g)}
<1>2. S \in SUBSET Nat /\ S # {}
  BY <1>1 DEF GateType
<1>3. \E s \in S : \A t \in S : s <= t
  BY <1>2, LeastNatural
<1>4. \E c \in Eligible(g) : \A d \in Eligible(g) : g.seq[c] <= g.seq[d]
  BY <1>3
<1>5. First(g) \in Eligible(g)
  BY <1>4, Zenon DEF First
<1> QED
  BY <1>1, <1>5

\* Admit keeps the types and says what becomes of each field.
LEMMA AdmitFields ==
  ASSUME NEW g \in GateType, NEW cs \in SUBSET g.queue, NEW as \in {"permit", "free"}
  PROVE  LET h == Admit(g, cs, as)
         IN /\ h \in GateType /\ h.queue = g.queue \ cs /\ h.out = g.out \cup cs
            /\ h.shut = g.shut /\ h.authOk = g.authOk /\ h.reserved = g.reserved
            /\ h.taken = g.taken
            /\ \A c \in Clients : h.granted[c] = IF c \in cs THEN as ELSE g.granted[c]
<1> DEFINE h == Admit(g, cs, as)
           ss == [c \in Clients |-> IF c \in cs THEN 0 ELSE g.seq[c]]
           gs == [c \in Clients |-> IF c \in cs THEN as ELSE g.granted[c]]
<1>1. g.queue \subseteq Clients /\ cs \subseteq Clients
  BY DEF GateType
<1>2. ss \in [Clients -> Nat] /\ gs \in [Clients -> {"none", "permit", "free"}]
  BY DEF GateType
<1>3. h = [g EXCEPT !.queue = g.queue \ cs, !.out = g.out \cup cs, !.seq = ss, !.granted = gs]
  BY DEF Admit, GateType
<1>4. \A c \in Clients : gs[c] = IF c \in cs THEN as ELSE g.granted[c]
  OBVIOUS
<1> HIDE DEF h, ss, gs
<1>5. h \in GateType
  BY <1>1, <1>2, <1>3 DEF GateType
<1>6. /\ h.queue = g.queue \ cs /\ h.out = g.out \cup cs /\ h.granted = gs
      /\ h.shut = g.shut /\ h.authOk = g.authOk /\ h.reserved = g.reserved
      /\ h.taken = g.taken
  BY <1>3 DEF GateType
<1> QED
  BY <1>4, <1>5, <1>6 DEF h

\* serve keeps the gate in order, leaves nobody who may go and only lets clients out.
LEMMA ServeFacts ==
  ASSUME NEW g, GateOK(g)
  PROVE  GateOK(Serve(g)) /\ Served(Serve(g)) /\ Admitted(g, Serve(g))
<1> DEFINE h == Serve(g)
<1>0. g \in GateType /\ Held(g)
  BY DEF GateOK
<1>1. CASE g.shut
  <2>1. h = g
    BY <1>1 DEF Serve
  <2> QED
    BY <1>0, <1>1, <2>1 DEF GateOK, Served, Admitted
<1>2. CASE ~g.shut /\ g.authOk
  <2>1. h = Admit(g, g.queue, "free")
    BY <1>2 DEF Serve
  <2>2. /\ h \in GateType /\ h.queue = {} /\ h.out = g.out \cup g.queue
        /\ h.shut = g.shut /\ h.authOk = g.authOk /\ h.reserved = g.reserved
        /\ h.taken = g.taken
        /\ \A c \in Clients : h.granted[c] = IF c \in g.queue THEN "free" ELSE g.granted[c]
    BY <1>0, <2>1, AdmitFields
  <2>3. \A c \in Clients : h.granted[c] = "permit" <=> g.granted[c] = "permit"
    BY <1>0, <2>2 DEF Held
  <2> HIDE DEF h
  <2>4. Held(h)
    BY <1>0, <2>2, <2>3 DEF Held
  <2>5. Served(h)
    BY <1>2, <2>2 DEF Served
  <2>6. Admitted(g, h)
    BY <1>2, <2>2 DEF Admitted
  <2> QED
    BY <2>2, <2>4, <2>5, <2>6 DEF GateOK, h
<1>3. CASE ~g.shut /\ ~g.authOk /\ (g.taken \/ Eligible(g) = {})
  <2>1. h = g
    BY <1>3 DEF Serve
  <2> QED
    BY <1>0, <1>3, <2>1 DEF GateOK, Served, Admitted
<1>4. CASE ~g.shut /\ ~g.authOk /\ ~g.taken /\ Eligible(g) # {}
  <2> DEFINE k == [g EXCEPT !.taken = TRUE]
             f == First(k)
  <2>1. /\ k \in GateType /\ k.queue = g.queue /\ k.out = g.out /\ k.shut = g.shut
        /\ k.authOk = g.authOk /\ k.reserved = g.reserved /\ k.granted = g.granted
        /\ k.seq = g.seq /\ k.taken = TRUE
    BY <1>0 DEF GateType
  <2>2. Eligible(k) = Eligible(g)
    BY <2>1 DEF Eligible
  <2>3. First(k) = First(g)
    BY <2>1, <2>2 DEF First
  <2>4. h = Admit(k, {f}, "permit")
    BY <1>4, <2>3 DEF Serve
  <2>5. f \in g.queue /\ f \in Clients
    BY <1>0, <1>4, <2>1, <2>2, FirstIsEligible DEF GateType
  <2> HIDE DEF k, f
  <2>6. {f} \in SUBSET k.queue
    BY <2>1, <2>5
  <2>7. /\ h \in GateType /\ h.queue = g.queue \ {f} /\ h.out = g.out \cup {f}
        /\ h.shut = g.shut /\ h.authOk = g.authOk /\ h.reserved = g.reserved
        /\ h.taken = TRUE
        /\ \A c \in Clients : h.granted[c] = IF c \in {f} THEN "permit" ELSE g.granted[c]
    BY <2>1, <2>4, <2>6, AdmitFields
  <2> HIDE DEF h
  <2>8. \A c \in Clients : g.granted[c] # "permit"
    BY <1>0, <1>4 DEF Held
  <2>9. \A c \in Clients : h.granted[c] = "permit" <=> c = f
    BY <2>7, <2>8
  <2>10. Held(h)
    <3>1. \E c \in Clients : h.granted[c] = "permit"
      BY <2>5, <2>9
    <3>2. \A c \in h.queue : h.granted[c] = "none"
      BY <1>0, <2>7 DEF Held, GateType
    <3> QED
      BY <2>7, <2>9, <3>1, <3>2 DEF Held
  <2>11. Served(h)
    BY <1>4, <2>7 DEF Served
  <2>12. Admitted(g, h)
    BY <1>4, <2>5, <2>7 DEF Admitted
  <2> QED
    BY <2>7, <2>10, <2>11, <2>12 DEF GateOK, h
<1> QED
  BY <1>1, <1>2, <1>3, <1>4

\* What a release makes of the gate before anyone is served.
Freed(g, c) == [g EXCEPT !.out = @ \ {c}, !.granted[c] = "free", !.taken = FALSE]
Returned(g, c) ==
  IF g.granted[c] = "permit" THEN Freed(g, c) ELSE [g EXCEPT !.out = @ \ {c}]

\* releaseIfHeld: the client is out no more and holds nothing; whoever may go, goes.
LEMMA ReleaseFacts ==
  ASSUME NEW g, GateOK(g), NEW c \in Clients, c \notin g.queue, Served(g)
  PROVE  LET h == Release(g, c)
             k == Returned(g, c)
         IN /\ GateOK(h) /\ Served(h) /\ Admitted(k, h)
            /\ k.queue = g.queue /\ k.out = g.out \ {c} /\ k.shut = g.shut
            /\ k.authOk = g.authOk /\ k.reserved = g.reserved
            /\ \A d \in Clients : d # c => k.granted[d] = g.granted[d]
            /\ k.granted[c] # "permit"
<1> DEFINE h == Release(g, c)
<1>0. g \in GateType /\ Held(g)
  BY DEF GateOK
<1>1. CASE g.granted[c] = "permit"
  <2> DEFINE k == Freed(g, c)
  <2>1. /\ k \in GateType /\ k.queue = g.queue /\ k.out = g.out \ {c} /\ k.shut = g.shut
        /\ k.authOk = g.authOk /\ k.reserved = g.reserved /\ ~k.taken
        /\ k.granted = [g.granted EXCEPT ![c] = "free"]
    BY <1>0 DEF GateType, Freed
  <2>2. k.granted[c] = "free" /\ \A d \in Clients : d # c => k.granted[d] = g.granted[d]
    BY <1>0, <2>1 DEF GateType
  <2> HIDE DEF k
  <2>3. \A d \in Clients : k.granted[d] # "permit"
    BY <1>0, <1>1, <2>2 DEF Held
  <2>4. \A d \in k.queue : k.granted[d] = "none"
    BY <1>0, <2>1, <2>2 DEF Held, GateType
  <2>5. GateOK(k)
    BY <2>1, <2>3, <2>4 DEF GateOK, Held
  <2>6. h = Serve(k)
    BY <1>1 DEF Release, k, Freed
  <2>7. GateOK(h) /\ Served(h) /\ Admitted(k, h)
    BY <2>5, <2>6, ServeFacts
  <2>8. k.granted[c] # "permit"
    BY <2>2
  <2> HIDE DEF h
  <2>9. /\ GateOK(h) /\ Served(h) /\ Admitted(k, h)
        /\ k.queue = g.queue /\ k.out = g.out \ {c} /\ k.shut = g.shut
        /\ k.authOk = g.authOk /\ k.reserved = g.reserved
        /\ \A d \in Clients : d # c => k.granted[d] = g.granted[d]
        /\ k.granted[c] # "permit"
    BY <2>1, <2>2, <2>7, <2>8
  <2> QED
    BY <1>1, <2>9, Zenon DEF k, h, Returned
<1>2. CASE g.granted[c] # "permit"
  <2>1. h = [g EXCEPT !.out = g.out \ {c}]
    BY <1>2 DEF Release
  <2>2. /\ h \in GateType /\ h.queue = g.queue /\ h.out = g.out \ {c} /\ h.shut = g.shut
        /\ h.authOk = g.authOk /\ h.reserved = g.reserved /\ h.taken = g.taken
        /\ h.granted = g.granted
    BY <1>0, <2>1 DEF GateType
  <2> HIDE DEF h
  <2>3. GateOK(h)
    BY <1>0, <1>2, <2>2 DEF GateOK, Held
  <2>4. Eligible(h) = Eligible(g)
    BY <2>2 DEF Eligible
  <2>5. Served(h)
    BY <2>2, <2>4 DEF Served
  <2>6. Admitted(h, h)
    BY DEF Admitted
  <2> QED
    BY <1>2, <2>1, <2>2, <2>3, <2>5, <2>6 DEF h, Returned
<1> QED
  BY <1>1, <1>2

\* markAuthOk: like serve; a reload keeps it from anything.
LEMMA MarkAuthOkFacts ==
  ASSUME NEW g, GateOK(g), Served(g)
  PROVE  GateOK(MarkAuthOk(g)) /\ Served(MarkAuthOk(g)) /\ Admitted(g, MarkAuthOk(g))
<1>0. g \in GateType /\ Held(g)
  BY DEF GateOK
<1>1. CASE g.shut \/ g.authOk
  BY <1>1 DEF MarkAuthOk, Admitted
<1>2. CASE ~(g.shut \/ g.authOk)
  <2> DEFINE k == [g EXCEPT !.authOk = TRUE]
  <2>1. /\ k \in GateType /\ k.queue = g.queue /\ k.out = g.out /\ k.shut = g.shut
        /\ k.reserved = g.reserved /\ k.granted = g.granted /\ k.taken = g.taken
    BY <1>0 DEF GateType
  <2>2. MarkAuthOk(g) = Serve(k)
    BY <1>2 DEF MarkAuthOk
  <2> HIDE DEF k
  <2>3. GateOK(k)
    BY <1>0, <2>1 DEF GateOK, Held
  <2>4. GateOK(Serve(k)) /\ Served(Serve(k)) /\ Admitted(k, Serve(k))
    BY <2>3, ServeFacts
  <2>5. Admitted(g, Serve(k))
    BY <1>2, <2>1, <2>4 DEF Admitted
  <2> QED
    BY <2>2, <2>4, <2>5
<1> QED
  BY <1>1, <1>2

\* observeIdleExpiry only ever takes the proof of the token away.
LEMMA ObserveFacts ==
  ASSUME NEW g, GateOK(g), Served(g)
  PROVE  LET h == Observe(g)
         IN /\ GateOK(h) /\ Served(h)
            /\ h.queue = g.queue /\ h.out = g.out /\ h.granted = g.granted
            /\ h.shut = g.shut /\ h.reserved = g.reserved /\ h.taken = g.taken
            /\ h.seq = g.seq /\ h.next = g.next /\ (h.authOk => g.authOk)
<1> DEFINE k == [g EXCEPT !.authOk = FALSE]
           h == Observe(g)
<1>0. g \in GateType /\ Held(g)
  BY DEF GateOK
<1>1. /\ k \in GateType /\ k.queue = g.queue /\ k.out = g.out /\ k.shut = g.shut
      /\ k.reserved = g.reserved /\ k.granted = g.granted /\ k.taken = g.taken
      /\ k.seq = g.seq /\ k.next = g.next /\ k.authOk = FALSE
  BY <1>0 DEF GateType
<1>2. h = k \/ h = g
  BY DEF Observe
<1> HIDE DEF k, h
<1>3. GateOK(k)
  BY <1>0, <1>1 DEF GateOK, Held
<1>4. Eligible(k) = Eligible(g) /\ Eligible(g) \subseteq g.queue
  BY <1>1 DEF Eligible
<1>5. Served(k)
  BY <1>1, <1>4 DEF Served
<1>6. /\ GateOK(h) /\ Served(h)
      /\ h.queue = g.queue /\ h.out = g.out /\ h.granted = g.granted
      /\ h.shut = g.shut /\ h.reserved = g.reserved /\ h.taken = g.taken
      /\ h.seq = g.seq /\ h.next = g.next /\ (h.authOk => g.authOk)
  BY <1>1, <1>2, <1>3, <1>5
<1> QED
  BY <1>6 DEF h

----------------------------------------------------------------------------
(* Gate and clients.                                                        *)

\* What the gate g knows of client c agrees with the stage s the client is at.
Here(g, s, c) ==
  /\ c \in g.queue => s = "asked" /\ c \notin g.out
  /\ s = "idle" => c \notin g.out /\ g.granted[c] = "none"
  /\ s = "asked" /\ c \notin g.queue => c \in g.out
  /\ s \in {"cold", "auth"} => c \in g.out
  /\ s \in {"failed", "leaving"} => g.granted[c] # "permit"
  /\ s = "leaving" => c \notin g.out
Places(g, st) == \A c \in Clients : Here(g, st[c], c)
SameFor(g, k, d) ==
  /\ d \in k.queue <=> d \in g.queue
  /\ d \in k.out <=> d \in g.out
  /\ k.granted[d] = g.granted[d]

\* Clients let out of the queue are where they were and out now.
LEMMA PlacesAdmitted ==
  ASSUME NEW g, NEW h, NEW st, Places(g, st), Admitted(g, h)
  PROVE  Places(h, st)
<1> SUFFICES ASSUME NEW c \in Clients PROVE Here(h, st[c], c)
  BY DEF Places
<1>1. Here(g, st[c], c)
  BY DEF Places
<1>2. CASE c \in g.queue
  BY <1>1, <1>2 DEF Here, Admitted
<1>3. CASE c \notin g.queue
  BY <1>1, <1>3 DEF Here, Admitted
<1> QED
  BY <1>2, <1>3

\* One client moves on; the gate changes for it alone.
LEMMA PlacesMoved ==
  ASSUME NEW g, NEW k, NEW st \in [Clients -> Stages], NEW c \in Clients, NEW s,
         Places(g, st), \A d \in Clients : d # c => SameFor(g, k, d), Here(k, s, c)
  PROVE  Places(k, [st EXCEPT ![c] = s])
<1> SUFFICES ASSUME NEW d \in Clients PROVE Here(k, [st EXCEPT ![c] = s][d], d)
  BY DEF Places
<1>1. CASE d = c
  BY <1>1
<1>2. CASE d # c
  BY <1>2 DEF Places, Here, SameFor
<1> QED
  BY <1>1, <1>2

\* A client is released and moves on to a stage in which it may not be out.
LEMMA ReleasedMoves ==
  ASSUME NEW g, GateOK(g), Served(g), NEW st \in [Clients -> Stages], Places(g, st),
         NEW c \in Clients, c \notin g.queue, NEW s \in {"bind", "failed", "leaving"}
  PROVE  LET h == Release(g, c)
         IN /\ GateOK(h) /\ Served(h) /\ Places(h, [st EXCEPT ![c] = s])
            /\ h.shut = g.shut
            /\ g.shut => h.out \subseteq g.out /\ h.authOk = g.authOk
<1> DEFINE h == Release(g, c)
           k == Returned(g, c)
<1>1. /\ GateOK(h) /\ Served(h) /\ Admitted(k, h)
      /\ k.queue = g.queue /\ k.out = g.out \ {c} /\ k.shut = g.shut
      /\ k.authOk = g.authOk /\ k.reserved = g.reserved
      /\ \A d \in Clients : d # c => k.granted[d] = g.granted[d]
      /\ k.granted[c] # "permit"
  BY ReleaseFacts, Zenon
<1> HIDE DEF h, k
<1>2. Here(k, s, c)
  BY <1>1 DEF Here
<1>3. \A d \in Clients : d # c => SameFor(g, k, d)
  BY <1>1 DEF SameFor
<1>4. Places(k, [st EXCEPT ![c] = s])
  BY <1>2, <1>3, PlacesMoved
<1>5. Places(h, [st EXCEPT ![c] = s])
  BY <1>1, <1>4, PlacesAdmitted
<1>6. h.shut = g.shut /\ (g.shut => h.out \subseteq g.out /\ h.authOk = g.authOk)
  BY <1>1 DEF Admitted
<1> QED
  BY <1>1, <1>5, <1>6 DEF h

----------------------------------------------------------------------------
(* The inductive invariant.                                                 *)

\* The gate is shut and distrusts the token for as long as the kill pass and the sweep
\* last; behind the pass no client has a process and none is out.
ReloadPart ==
  /\ gate.shut <=> reload.pc \notin {"idle", "start"}
  /\ reload.pc \notin {"idle", "start", "clear"} => ~gate.authOk
  /\ reload.pc \in {"sweep", "delete"} => live \cap Clients = {} /\ gate.out = {}

\* The types that say nothing of the queue.
RestType ==
  /\ stage \in [Clients -> Stages]
  /\ live \subseteq Clients \cup {Slot} /\ sessions \subseteq Clients
  /\ pool \in [active : BOOLEAN, armed : BOOLEAN, spare : BOOLEAN]
  /\ seen \in {"none", "active", "expired"}
  /\ reload \in [pc : ReloadStages, doomed : SUBSET (Clients \cup {Slot})]
  /\ changed \in BOOLEAN /\ turns \in Nat /\ reloads \in Nat

GatePart == GateOK(gate) /\ Served(gate) /\ Places(gate, stage)
IInv == RestType /\ GatePart /\ ReloadPart

\* The invariants follow.
LEMMA IInvSafe ==
  ASSUME IInv
  PROVE  TypeOK /\ PermitIsExclusive /\ NoWaiterForgotten /\ ReloadLeavesNothing
<1>0. gate \in GateType /\ Held(gate) /\ \A c \in Clients : Here(gate, stage[c], c)
  BY DEF IInv, GatePart, GateOK, Places
<1>1. TypeOK
  <2>1. \A c \in gate.queue : stage[c] = "asked" /\ gate.granted[c] = "none"
    BY <1>0 DEF Here, Held, GateType
  <2> QED
    BY <1>0, <2>1 DEF TypeOK, IInv, RestType
<1>2. PermitIsExclusive
  <2>1. \A c \in Clients : gate.granted[c] = "permit" =>
          c \in gate.out /\ stage[c] \in {"asked", "cold", "auth", "bind", "bound"}
    <3> SUFFICES ASSUME NEW c \in Clients, gate.granted[c] = "permit"
                 PROVE  c \in gate.out /\ stage[c] \in {"asked", "cold", "auth", "bind", "bound"}
      OBVIOUS
    <3>1. stage[c] \in Stages
      BY DEF IInv, RestType
    <3> QED
      BY <1>0, <3>1 DEF Here, Held, Stages
  <2> QED
    BY <1>0, <2>1 DEF PermitIsExclusive, Held
<1>3. NoWaiterForgotten
  BY DEF IInv, GatePart, Served, NoWaiterForgotten
<1>4. ReloadLeavesNothing
  <2> SUFFICES ASSUME reload.pc \in {"sweep", "delete"}
               PROVE  /\ live \cap Clients = {} /\ gate.out = {}
                      /\ \A c \in Clients : ~MaySpawn(c) /\ stage[c] # "auth"
                      /\ ~gate.authOk
    BY DEF ReloadLeavesNothing
  <2>1. live \cap Clients = {} /\ gate.out = {} /\ ~gate.authOk
    BY DEF IInv, ReloadPart
  <2> QED
    BY <1>0, <2>1 DEF Here, MaySpawn
<1> QED
  BY <1>1, <1>2, <1>3, <1>4

\* Initially all is quiet.
LEMMA InitIInv == Init => IInv
<1> SUFFICES ASSUME Init PROVE IInv
  OBVIOUS
<1>1. /\ gate \in GateType /\ gate.queue = {} /\ gate.out = {} /\ ~gate.taken
      /\ ~gate.shut /\ ~gate.authOk /\ gate.reserved = {}
      /\ \A c \in Clients : gate.granted[c] = "none"
  BY DEF Init, GateType
<1>2. RestType
  BY DEF Init, RestType, Stages, ReloadStages, Drained
<1>3. GateOK(gate)
  BY <1>1 DEF GateOK, Held
<1>4. Served(gate)
  BY <1>1 DEF Served, Eligible
<1>5. Places(gate, stage)
  BY <1>1 DEF Places, Here, Init
<1>6. ReloadPart
  BY <1>1 DEF ReloadPart, Init
<1> QED
  BY <1>2, <1>3, <1>4, <1>5, <1>6 DEF IInv, GatePart

----------------------------------------------------------------------------
(* Every step keeps the types.                                              *)

LEMMA RestStep ==
  ASSUME IInv, [Next]_vars
  PROVE  RestType'
<1> USE DEF IInv, RestType, Stages, ReloadStages
<1>1. ASSUME NEW c \in Clients, Reserve(c) PROVE RestType'
  BY <1>1, ClientsAssumption DEF Reserve
<1>2. ASSUME NEW c \in Clients, Unreserve(c) PROVE RestType'
  BY <1>2, ClientsAssumption DEF Unreserve, Signal
<1>3. ASSUME NEW c \in Clients, Arrive(c) PROVE RestType'
  BY <1>3, ClientsAssumption DEF Arrive, Signal, Move, PoolState
<1>4. ASSUME NEW c \in Clients, Abandon(c) PROVE RestType'
  BY <1>4, ClientsAssumption DEF Abandon, Move
<1>5. ASSUME NEW c \in Clients, Spawn(c) PROVE RestType'
  BY <1>5, ClientsAssumption DEF Spawn, Move, Register
<1>6. ASSUME NEW c \in Clients, TakeSpare(c) PROVE RestType'
  BY <1>6, ClientsAssumption DEF TakeSpare, Move
<1>7. ASSUME NEW c \in Clients, AuthReply(c) PROVE RestType'
  BY <1>7, ClientsAssumption DEF AuthReply, Signal, Move
<1>8. ASSUME NEW c \in Clients, Generated(c) PROVE RestType'
  BY <1>8, ClientsAssumption DEF Generated, Signal, Move
<1>9. ASSUME NEW c \in Clients, Bind(c) PROVE RestType'
  BY <1>9, ClientsAssumption DEF Bind, Move
<1>10. ASSUME NEW c \in Clients, Finish(c) PROVE RestType'
  BY <1>10, ClientsAssumption DEF Finish, Signal, Move
<1>11. ASSUME NEW c \in Clients, Fail(c) PROVE RestType'
  BY <1>11, ClientsAssumption DEF Fail, Signal, Move
<1>12. ASSUME NEW c \in Clients, Leave(c) PROVE RestType'
  BY <1>12, ClientsAssumption DEF Leave, Move, PoolState
<1>13. ASSUME NEW c \in Clients, SessionEnds(c) PROVE RestType'
  BY <1>13, ClientsAssumption DEF SessionEnds, Signal
<1>14. CASE SlotSpawn
  BY <1>14 DEF SlotSpawn, Register
<1>15. CASE SlotWarm
  BY <1>15 DEF SlotWarm, Signal
<1>16. CASE PoolExpires
  BY <1>16 DEF PoolExpires, Signal, Drained
<1>17. CASE Press
  BY <1>17 DEF Press, At
<1>18. CASE ShutGate
  BY <1>18 DEF ShutGate, At
<1>19. CASE ClearAuthOk
  BY <1>19 DEF ClearAuthOk, At
<1>20. CASE StopAll
  BY <1>20 DEF StopAll, Drained
<1>21. CASE StopAllEnds
  BY <1>21 DEF StopAllEnds, At
<1>22. CASE StopAllFails
  BY <1>22 DEF StopAllFails, At
<1>23. CASE KillAll
  BY <1>23 DEF KillAll
<1>24. CASE Killed
  BY <1>24 DEF Killed
<1>25. CASE Check
  BY <1>25 DEF Check, Quiescent, At
<1>26. CASE Woken
  BY <1>26 DEF Woken, At
<1>27. CASE SweepRows
  BY <1>27 DEF SweepRows, At
<1>28. CASE End
  BY <1>28 DEF End, At
<1>29. ASSUME NEW c \in Clients, DiscardSpare(c) PROVE RestType'
  BY <1>29, ClientsAssumption DEF DiscardSpare, Signal, Move
<1>30. CASE UNCHANGED vars
  BY <1>30 DEF vars
<1> HIDE DEF IInv, RestType
<1> QED
  BY <1>1, <1>2, <1>3, <1>4, <1>5, <1>6, <1>7, <1>8, <1>9, <1>10, <1>11, <1>12, <1>13, <1>14, <1>15, <1>16, <1>17, <1>18, <1>19, <1>20, <1>21, <1>22, <1>23, <1>24, <1>25, <1>26, <1>27, <1>28, <1>29, <1>30, Zenon DEF Next, Client, Proceed, ReloadStep

----------------------------------------------------------------------------
(* Every step keeps the gate, and the places of the clients in it.  What the  *)
(* reload has to know comes along: a shut gate stays shut, lets nobody out    *)
(* and does not begin to trust the token.                                     *)

GateKept ==
  /\ gate'.shut = gate.shut
  /\ gate.shut => gate'.out \subseteq gate.out /\ (gate'.authOk => gate.authOk)

LEMMA GateFacts ==
  ASSUME IInv
  PROVE  /\ GateOK(gate) /\ gate \in GateType /\ Held(gate) /\ Served(gate)
         /\ Places(gate, stage) /\ \A c \in Clients : Here(gate, stage[c], c)
         /\ stage \in [Clients -> Stages]
  BY DEF IInv, GatePart, GateOK, Places, RestType

\* A turn start reserves.
LEMMA ReserveGate ==
  ASSUME IInv, NEW c \in Clients, Reserve(c)
  PROVE  GatePart' /\ GateKept
<1>1. gate' = [gate EXCEPT !.reserved = gate.reserved \cup {c}] /\ c \in Acp /\ stage' = stage
  BY DEF Reserve
<1>2. /\ gate' \in GateType /\ gate'.queue = gate.queue /\ gate'.out = gate.out
      /\ gate'.granted = gate.granted /\ gate'.taken = gate.taken
      /\ gate'.shut = gate.shut /\ gate'.authOk = gate.authOk
      /\ gate'.reserved = gate.reserved \cup {c}
  BY <1>1, GateFacts DEF GateType
<1>3. GateOK(gate')
  BY <1>2, GateFacts DEF GateOK, Held
<1>4. Eligible(gate) = {} => Eligible(gate') = {}
  BY <1>2 DEF Eligible
<1>5. Served(gate')
  BY <1>2, <1>4, GateFacts DEF Served
<1>6. Places(gate', stage')
  BY <1>1, <1>2, GateFacts DEF Places, Here
<1> QED
  BY <1>2, <1>3, <1>5, <1>6 DEF GatePart, GateKept

\* The reservation ends.
LEMMA UnreserveGate ==
  ASSUME IInv, NEW c \in Clients, Unreserve(c)
  PROVE  GatePart' /\ GateKept
<1> DEFINE k == [gate EXCEPT !.reserved = gate.reserved \ {c}]
<1>1. gate' = Serve(k) /\ stage' = stage
  BY DEF Unreserve
<1>2. /\ k \in GateType /\ k.queue = gate.queue /\ k.out = gate.out
      /\ k.granted = gate.granted /\ k.taken = gate.taken
      /\ k.shut = gate.shut /\ k.authOk = gate.authOk
  BY GateFacts DEF GateType
<1> HIDE DEF k
<1>3. GateOK(k)
  BY <1>2, GateFacts DEF GateOK, Held
<1>4. Places(k, stage)
  BY <1>2, GateFacts DEF Places, Here
<1>5. GateOK(gate') /\ Served(gate') /\ Admitted(k, gate')
  BY <1>1, <1>3, ServeFacts
<1>6. Places(gate', stage')
  BY <1>1, <1>4, <1>5, PlacesAdmitted
<1>7. GateKept
  BY <1>2, <1>5 DEF GateKept, Admitted
<1> QED
  BY <1>5, <1>6, <1>7 DEF GatePart

\* A client joins the queue.
LEMMA ArriveGate ==
  ASSUME IInv, NEW c \in Clients, Arrive(c)
  PROVE  GatePart' /\ GateKept
<1> DEFINE o == Observe(gate)
           k == [o EXCEPT !.queue = o.queue \cup {c}, !.seq = [o.seq EXCEPT ![c] = gate.next],
                          !.next = o.next + 1]
<1>1. stage[c] = "idle" /\ stage' = [stage EXCEPT ![c] = "asked"]
  BY DEF Arrive, Move
<1>2. gate' = Serve(k)
  BY DEF Arrive
<1>3. /\ GateOK(o) /\ Served(o)
      /\ o.queue = gate.queue /\ o.out = gate.out /\ o.granted = gate.granted
      /\ o.shut = gate.shut /\ o.reserved = gate.reserved /\ o.taken = gate.taken
      /\ o.seq = gate.seq /\ o.next = gate.next /\ (o.authOk => gate.authOk)
  BY GateFacts, ObserveFacts
<1> HIDE DEF o
<1>4. /\ k \in GateType /\ k.queue = o.queue \cup {c} /\ k.out = o.out
      /\ k.granted = o.granted /\ k.taken = o.taken
      /\ k.shut = o.shut /\ k.authOk = o.authOk
  <2>1. o \in GateType /\ o.next + 1 \in Nat /\ [o.seq EXCEPT ![c] = gate.next] \in [Clients -> Nat]
    BY <1>3 DEF GateOK, GateType
  <2>2. o.queue \cup {c} \in SUBSET Clients
    BY <2>1 DEF GateType
  <2> QED
    BY <2>1, <2>2 DEF GateType
<1> HIDE DEF k
<1>5. gate.granted[c] = "none" /\ c \notin gate.out
  BY <1>1, GateFacts DEF Here
<1>6. GateOK(k)
  BY <1>3, <1>4, <1>5 DEF GateOK, Held
<1>7. Here(k, "asked", c)
  BY <1>3, <1>4, <1>5 DEF Here
<1>8. \A d \in Clients : d # c => SameFor(gate, k, d)
  BY <1>3, <1>4 DEF SameFor
<1>9. Places(k, stage')
  BY <1>1, <1>7, <1>8, GateFacts, PlacesMoved
<1>10. GateOK(gate') /\ Served(gate') /\ Admitted(k, gate')
  BY <1>2, <1>6, ServeFacts
<1>11. Places(gate', stage')
  BY <1>9, <1>10, PlacesAdmitted
<1>12. GateKept
  <2>1. gate.shut => gate'.queue = k.queue /\ gate'.authOk = k.authOk
    BY <1>3, <1>4, <1>10 DEF Admitted
  <2> QED
    BY <1>3, <1>4, <1>10, <2>1 DEF GateKept, Admitted
<1> QED
  BY <1>10, <1>11, <1>12 DEF GatePart

\* A client leaves the queue unserved: it was not alone in holding others back, or the
\* permit is taken.
LEMMA AbandonGate ==
  ASSUME IInv, NEW c \in Clients, Abandon(c)
  PROVE  GatePart' /\ GateKept
<1>1. /\ gate' = [gate EXCEPT !.queue = gate.queue \ {c}, !.seq = [gate.seq EXCEPT ![c] = 0]]
      /\ stage' = [stage EXCEPT ![c] = "leaving"] /\ c \in gate.queue
  BY DEF Abandon, Move
<1>2. /\ gate' \in GateType /\ gate'.queue = gate.queue \ {c} /\ gate'.out = gate.out
      /\ gate'.granted = gate.granted /\ gate'.taken = gate.taken
      /\ gate'.shut = gate.shut /\ gate'.authOk = gate.authOk
      /\ gate'.reserved = gate.reserved
  <2>1. [gate.seq EXCEPT ![c] = 0] \in [Clients -> Nat] /\ gate.queue \ {c} \in SUBSET Clients
    BY GateFacts DEF GateType
  <2> QED
    BY <1>1, <2>1, GateFacts DEF GateType
<1>3. GateOK(gate')
  BY <1>2, GateFacts DEF GateOK, Held
<1>4. Eligible(gate) = {} => Eligible(gate') = {}
  BY <1>2 DEF Eligible
<1>5. Served(gate')
  BY <1>2, <1>4, GateFacts DEF Served
<1>6. Here(gate', "leaving", c)
  BY <1>1, <1>2, GateFacts DEF Here, Held
<1>7. \A d \in Clients : d # c => SameFor(gate, gate', d)
  BY <1>2 DEF SameFor
<1>8. Places(gate', stage')
  BY <1>1, <1>6, <1>7, GateFacts, PlacesMoved
<1> QED
  BY <1>2, <1>3, <1>5, <1>8 DEF GatePart, GateKept

\* A client goes on while the gate stays as it is.
LEMMA MovesOnly ==
  ASSUME IInv, NEW c \in Clients, NEW s, gate' = gate, stage' = [stage EXCEPT ![c] = s],
         Here(gate, s, c)
  PROVE  GatePart' /\ GateKept
<1>1. \A d \in Clients : d # c => SameFor(gate, gate, d)
  BY DEF SameFor
<1>2. Places(gate, [stage EXCEPT ![c] = s])
  BY <1>1, GateFacts, PlacesMoved
<1> QED
  BY <1>2, GateFacts DEF GatePart, GateKept

\* A client is released, perhaps after the token was believed, and goes on.
LEMMA GoesReleased ==
  ASSUME IInv, NEW c \in Clients, c \notin gate.queue,
         NEW s \in {"bind", "failed", "leaving"}, stage' = [stage EXCEPT ![c] = s],
         \/ gate' = Release(gate, c)
         \/ gate' = MarkAuthOk(Release(gate, c))
         \/ gate' = Release(MarkAuthOk(gate), c)
  PROVE  GatePart' /\ GateKept
<1> DEFINE r == Release(gate, c)
           m == MarkAuthOk(gate)
<1>1. /\ GateOK(r) /\ Served(r) /\ Places(r, stage') /\ r.shut = gate.shut
      /\ gate.shut => r.out \subseteq gate.out /\ r.authOk = gate.authOk
  BY GateFacts, ReleasedMoves, Zenon
<1>2. CASE gate' = Release(gate, c)
  BY <1>1, <1>2 DEF GatePart, GateKept
<1>3. CASE gate' = MarkAuthOk(Release(gate, c))
  <2> HIDE DEF r
  <2>1. gate' = MarkAuthOk(r)
    BY <1>3 DEF r
  <2>2. GateOK(gate') /\ Served(gate') /\ Admitted(r, gate')
    BY <1>1, <2>1, MarkAuthOkFacts
  <2>3. Places(gate', stage')
    BY <1>1, <2>2, PlacesAdmitted
  <2>4. GateKept
    BY <1>1, <2>2 DEF GateKept, Admitted
  <2> QED
    BY <2>2, <2>3, <2>4 DEF GatePart
<1>4. CASE gate' = Release(MarkAuthOk(gate), c)
  <2>1. GateOK(m) /\ Served(m) /\ Admitted(gate, m)
    BY GateFacts, MarkAuthOkFacts
  <2>2. Places(m, stage) /\ c \notin m.queue
    BY <2>1, GateFacts, PlacesAdmitted DEF Admitted
  <2>3. gate' = Release(m, c)
    BY <1>4
  <2> HIDE DEF m
  <2>4. /\ GateOK(gate') /\ Served(gate') /\ Places(gate', stage') /\ gate'.shut = m.shut
        /\ m.shut => gate'.out \subseteq m.out /\ gate'.authOk = m.authOk
    BY <2>1, <2>2, <2>3, GateFacts, ReleasedMoves, Zenon
  <2>5. GateKept
    BY <2>1, <2>4 DEF GateKept, Admitted
  <2> QED
    BY <2>4, <2>5 DEF GatePart
<1> QED
  BY <1>2, <1>3, <1>4

\* A client has left the spawn section: it was out no more and is forgotten.
LEMMA LeaveGate ==
  ASSUME IInv, NEW c \in Clients, Leave(c)
  PROVE  GatePart' /\ GateKept
<1> DEFINE o == Observe(gate)
<1>1. stage[c] = "leaving" /\ stage' = [stage EXCEPT ![c] = "idle"]
  BY DEF Leave, Move
<1>2. gate' = [o EXCEPT !.granted = [o.granted EXCEPT ![c] = "none"]]
  BY DEF Leave
<1>3. /\ GateOK(o) /\ Served(o)
      /\ o.queue = gate.queue /\ o.out = gate.out /\ o.granted = gate.granted
      /\ o.shut = gate.shut /\ o.reserved = gate.reserved /\ o.taken = gate.taken
      /\ o.seq = gate.seq /\ o.next = gate.next /\ (o.authOk => gate.authOk)
  BY GateFacts, ObserveFacts
<1> HIDE DEF o
<1>4. /\ gate' \in GateType /\ gate'.queue = o.queue /\ gate'.out = o.out
      /\ gate'.taken = o.taken /\ gate'.shut = o.shut /\ gate'.authOk = o.authOk
      /\ gate'.reserved = o.reserved
      /\ gate'.granted = [o.granted EXCEPT ![c] = "none"]
  <2>1. o \in GateType
    BY <1>3 DEF GateOK
  <2>2. [o.granted EXCEPT ![c] = "none"] \in [Clients -> {"none", "permit", "free"}]
    BY <2>1 DEF GateType
  <2> QED
    BY <1>2, <2>1, <2>2 DEF GateType
<1>5. \A d \in Clients : gate'.granted[d] = IF d = c THEN "none" ELSE gate.granted[d]
  BY <1>3, <1>4, GateFacts DEF GateType
<1>6. gate.granted[c] # "permit" /\ c \notin gate.out /\ c \notin gate.queue
  BY <1>1, GateFacts DEF Here
<1>7. GateOK(gate')
  <2>1. \A d \in Clients : gate'.granted[d] = "permit" <=> gate.granted[d] = "permit"
    BY <1>5, <1>6
  <2>2. \A d \in gate'.queue : gate'.granted[d] = "none"
    BY <1>3, <1>4, <1>5, GateFacts DEF Held, GateType
  <2> QED
    BY <1>3, <1>4, <2>1, <2>2, GateFacts DEF GateOK, Held
<1>8. Eligible(gate') = Eligible(o)
  BY <1>4 DEF Eligible
<1>9. Served(gate')
  BY <1>3, <1>4, <1>8 DEF Served
<1>10. Here(gate', "idle", c)
  BY <1>3, <1>4, <1>5, <1>6 DEF Here
<1>11. \A d \in Clients : d # c => SameFor(gate, gate', d)
  BY <1>3, <1>4, <1>5 DEF SameFor
<1>12. Places(gate', stage')
  BY <1>1, <1>10, <1>11, GateFacts, PlacesMoved
<1> QED
  BY <1>3, <1>4, <1>7, <1>9, <1>12 DEF GatePart, GateKept

\* Every step of a client keeps the gate.
LEMMA ClientGate ==
  ASSUME IInv, NEW c \in Clients, Client(c)
  PROVE  GatePart' /\ GateKept
<1>0. Here(gate, stage[c], c)
  BY GateFacts
<1>1. CASE Reserve(c)
  BY <1>1, ReserveGate
<1>2. CASE Unreserve(c)
  BY <1>2, UnreserveGate
<1>3. CASE Arrive(c)
  BY <1>3, ArriveGate
<1>4. CASE Abandon(c)
  BY <1>4, AbandonGate
<1>5. CASE Spawn(c)
  <2>1. gate' = gate /\ stage' = [stage EXCEPT ![c] = "auth"] /\ Here(gate, "auth", c)
    BY <1>0, <1>5 DEF Spawn, Move, MaySpawn, Here
  <2> QED
    BY <2>1, MovesOnly
<1>6. CASE TakeSpare(c)
  <2>1. gate' = gate /\ stage' = [stage EXCEPT ![c] = "bind"] /\ Here(gate, "bind", c)
    BY <1>0, <1>6 DEF TakeSpare, Move, MaySpawn, Here
  <2> QED
    BY <2>1, MovesOnly
<1>7. CASE AuthReply(c)
  <2>1. c \notin gate.queue
    BY <1>0, <1>7 DEF AuthReply, Here
  <2>2. CASE Move(c, "bind") /\ gate' = MarkAuthOk(Release(gate, c))
    BY <2>1, <2>2, GoesReleased DEF Move
  <2>3. CASE Move(c, "failed") /\ gate' = Release(gate, c)
    BY <2>1, <2>3, GoesReleased DEF Move
  <2> QED
    BY <1>7, <2>2, <2>3 DEF AuthReply
<1>8. CASE Generated(c)
  <2>1. c \notin gate.queue
    BY <1>0, <1>8 DEF Generated, Here
  <2> QED
    BY <1>8, <2>1, GoesReleased DEF Generated, Move
<1>9. CASE Bind(c)
  <2>1. gate' = gate /\ stage' = [stage EXCEPT ![c] = "bound"] /\ Here(gate, "bound", c)
    BY <1>0, <1>9 DEF Bind, Move, Here
  <2> QED
    BY <2>1, MovesOnly
<1>10. CASE Finish(c)
  <2>1. c \notin gate.queue
    BY <1>0, <1>10 DEF Finish, Here
  <2> QED
    BY <1>10, <2>1, GoesReleased DEF Finish, Move
<1>11. CASE Fail(c)
  <2>1. c \notin gate.queue
    BY <1>0, <1>11 DEF Fail, Here, MaySpawn
  <2> QED
    BY <1>11, <2>1, GoesReleased DEF Fail, Move
<1>12. CASE Leave(c)
  BY <1>12, LeaveGate
<1>13. CASE SessionEnds(c)
  BY <1>13, GateFacts DEF SessionEnds, GatePart, GateKept
<1>14. CASE DiscardSpare(c)
  <2>1. gate' = gate /\ stage' = [stage EXCEPT ![c] = "cold"] /\ Here(gate, "cold", c)
    BY <1>0, <1>14 DEF DiscardSpare, Move, MaySpawn, Here
  <2> QED
    BY <2>1, MovesOnly
<1> QED
  BY <1>1, <1>2, <1>3, <1>4, <1>5, <1>6, <1>7, <1>8, <1>9, <1>10, <1>11, <1>12, <1>13, <1>14
     DEF Client, Proceed

\* So does every step of the pool.
LEMMA PoolGate ==
  ASSUME IInv, SlotSpawn \/ SlotWarm \/ PoolExpires
  PROVE  GatePart' /\ GateKept
<1>1. CASE gate' = gate /\ stage' = stage
  BY <1>1, GateFacts DEF GatePart, GateKept
<1>2. CASE SlotWarm
  <2>1. gate' = MarkAuthOk(gate) /\ stage' = stage
    BY <1>2 DEF SlotWarm
  <2>2. GateOK(gate') /\ Served(gate') /\ Admitted(gate, gate')
    BY <2>1, GateFacts, MarkAuthOkFacts
  <2>3. Places(gate', stage')
    BY <2>1, <2>2, GateFacts, PlacesAdmitted
  <2>4. GateKept
    BY <2>2 DEF GateKept, Admitted
  <2> QED
    BY <2>2, <2>3, <2>4 DEF GatePart
<1> QED
  BY <1>1, <1>2 DEF SlotSpawn, PoolExpires

\* A gate that is shut serves nobody, so shutting it and distrusting the token then is safe.
LEMMA ShutServes ==
  ASSUME NEW g, NEW h, GateOK(g), h \in GateType, h.shut,
         h.queue = g.queue, h.out = g.out, h.granted = g.granted, h.taken = g.taken
  PROVE  GateOK(h) /\ Served(h) /\ \A st : Places(g, st) => Places(h, st)
<1>1. Held(g)
  BY DEF GateOK
<1>2. GateOK(h) /\ Served(h)
  BY <1>1 DEF GateOK, Held, Served
<1>3. \A st : Places(g, st) => Places(h, st)
  BY DEF Places, Here
<1> QED
  BY <1>2, <1>3

\* The reload moves the gate in three of its steps, and keeps it in order in all.
LEMMA ReloadGate ==
  ASSUME IInv, Press \/ ReloadStep
  PROVE  /\ GatePart'
         /\ \/ gate' = gate /\ stage' = stage /\ reload.pc \notin {"start", "clear", "end"}
            \/ reload.pc = "start" /\ reload'.pc = "clear" /\ gate'.shut
            \/ reload.pc = "clear" /\ reload'.pc = "stop" /\ gate'.shut /\ ~gate'.authOk
            \/ reload.pc = "end" /\ reload'.pc = "idle" /\ ~gate'.shut
<1>0. reload \in [pc : ReloadStages, doomed : SUBSET (Clients \cup {Slot})]
  BY DEF IInv, RestType
<1>1. CASE ShutGate
  <2>1. gate' = [gate EXCEPT !.shut = TRUE] /\ stage' = stage
    BY <1>1 DEF ShutGate
  <2>2. /\ gate' \in GateType /\ gate'.shut /\ gate'.queue = gate.queue
        /\ gate'.out = gate.out /\ gate'.granted = gate.granted /\ gate'.taken = gate.taken
    BY <2>1, GateFacts DEF GateType
  <2>3. GatePart'
    BY <2>1, <2>2, GateFacts, ShutServes DEF GatePart
  <2> QED
    BY <1>0, <1>1, <2>2, <2>3 DEF ShutGate, At
<1>2. CASE ClearAuthOk
  <2>1. gate' = [gate EXCEPT !.authOk = FALSE] /\ stage' = stage /\ gate.shut
    BY <1>2 DEF ClearAuthOk, At, IInv, ReloadPart
  <2>2. /\ gate' \in GateType /\ gate'.shut /\ gate'.queue = gate.queue /\ ~gate'.authOk
        /\ gate'.out = gate.out /\ gate'.granted = gate.granted /\ gate'.taken = gate.taken
    BY <2>1, GateFacts DEF GateType
  <2>3. GatePart'
    BY <2>1, <2>2, GateFacts, ShutServes DEF GatePart
  <2> QED
    BY <1>0, <1>2, <2>2, <2>3 DEF ClearAuthOk, At
<1>3. CASE End
  <2> DEFINE k == [gate EXCEPT !.shut = FALSE]
  <2>1. gate' = Serve(k) /\ stage' = stage
    BY <1>3 DEF End
  <2>2. /\ k \in GateType /\ ~k.shut /\ k.queue = gate.queue
        /\ k.out = gate.out /\ k.granted = gate.granted /\ k.taken = gate.taken
    BY GateFacts DEF GateType
  <2> HIDE DEF k
  <2>3. GateOK(k) /\ Places(k, stage)
    BY <2>2, GateFacts DEF GateOK, Held, Places, Here
  <2>4. GateOK(gate') /\ Served(gate') /\ Admitted(k, gate')
    BY <2>1, <2>3, ServeFacts
  <2>5. Places(gate', stage')
    BY <2>1, <2>3, <2>4, PlacesAdmitted
  <2>6. ~gate'.shut
    BY <2>2, <2>4 DEF Admitted
  <2> QED
    BY <1>0, <1>3, <2>4, <2>5, <2>6 DEF End, At, GatePart
<1>4. CASE gate' = gate /\ stage' = stage /\ reload.pc \notin {"start", "clear", "end"}
  BY <1>4, GateFacts DEF GatePart
<1>5. ASSUME Press \/ StopAll \/ StopAllEnds \/ StopAllFails \/ KillAll \/ Killed \/ Check \/ Woken
             \/ SweepRows
      PROVE  gate' = gate /\ stage' = stage /\ reload.pc \notin {"start", "clear", "end"}
  BY <1>5 DEF Press, StopAll, StopAllEnds, StopAllFails, KillAll, Killed, Check, Woken, SweepRows, At
<1> QED
  BY <1>1, <1>2, <1>3, <1>4, <1>5 DEF ReloadStep

----------------------------------------------------------------------------
(* The reload.                                                              *)

\* Behind the kill pass no step gives a client a process: those that could are all gone.
LEMMA NothingComesBack ==
  ASSUME IInv, (\E c \in Clients : Client(c)) \/ SlotSpawn \/ SlotWarm \/ PoolExpires,
         reload.pc \in {"sweep", "delete"}
  PROVE  live' \cap Clients = {}
<1>1. live \cap Clients = {} /\ gate.out = {}
  BY DEF IInv, ReloadPart
<1>2. \A c \in Clients : ~MaySpawn(c)
  BY <1>1, GateFacts DEF Here, MaySpawn
<1>3. ASSUME NEW c \in Clients, Client(c) PROVE live' \subseteq live
  <2>1. ~Spawn(c) /\ ~TakeSpare(c)
    BY <1>2 DEF Spawn, TakeSpare
  <2> QED
    BY <1>3, <2>1 DEF Client, Proceed, DiscardSpare, Reserve, Unreserve, Arrive, Abandon, AuthReply, Generated,
         Bind, Finish, Fail, Leave, SessionEnds
<1>4. CASE SlotSpawn \/ SlotWarm \/ PoolExpires
  BY <1>1, <1>4, ClientsAssumption DEF SlotSpawn, SlotWarm, PoolExpires, Register
<1> QED
  BY <1>1, <1>3, <1>4

\* Every step keeps the reload's part.
LEMMA ReloadPartStep ==
  ASSUME IInv, Next
  PROVE  ReloadPart'
<1>0. ReloadPart /\ reload \in [pc : ReloadStages, doomed : SUBSET (Clients \cup {Slot})]
  BY DEF IInv, RestType
<1>1. CASE (\E c \in Clients : Client(c)) \/ SlotSpawn \/ SlotWarm \/ PoolExpires
  <2>1. GateKept
    BY <1>1, ClientGate, PoolGate
  <2>2. reload'.pc = reload.pc
    <3>1. ASSUME NEW c \in Clients, Client(c) PROVE reload'.pc = reload.pc
      BY <1>0, <3>1 DEF Client, Proceed, DiscardSpare, Reserve, Unreserve, Arrive, Abandon, AuthReply, Generated,
           Bind, Finish, Fail, Leave, SessionEnds, Spawn, TakeSpare, Register
    <3> QED
      BY <1>0, <1>1, <3>1 DEF SlotSpawn, SlotWarm, PoolExpires, Register
  <2>3. reload.pc \in {"sweep", "delete"} => live' \cap Clients = {}
    BY <1>1, NothingComesBack
  <2> QED
    BY <1>0, <2>1, <2>2, <2>3 DEF ReloadPart, GateKept
<1>2. CASE Press \/ ReloadStep
  <2>1. \/ gate' = gate /\ stage' = stage /\ reload.pc \notin {"start", "clear", "end"}
        \/ reload.pc = "start" /\ reload'.pc = "clear" /\ gate'.shut
        \/ reload.pc = "clear" /\ reload'.pc = "stop" /\ gate'.shut /\ ~gate'.authOk
        \/ reload.pc = "end" /\ reload'.pc = "idle" /\ ~gate'.shut
    BY <1>2, ReloadGate
  <2>2. CASE gate' = gate /\ reload.pc \notin {"start", "clear", "end"}
    <3>1. \/ reload.pc = "idle" /\ reload'.pc = "start"
          \/ /\ reload.pc \notin {"idle", "start", "clear"}
             /\ reload'.pc \notin {"idle", "start", "clear", "sweep", "delete"}
          \/ reload.pc = "check" /\ reload'.pc = "sweep" /\ Quiescent /\ live' = live
          \/ reload.pc = "sweep" /\ reload'.pc = "delete" /\ live' = live
      BY <1>0, <1>2, <2>2 DEF Press, ReloadStep, ShutGate, ClearAuthOk, StopAll, StopAllEnds,
           StopAllFails, KillAll, Killed, Check, Woken, SweepRows, End, At
    <3> QED
      BY <1>0, <2>2, <3>1 DEF ReloadPart, Quiescent
  <2> QED
    BY <2>1, <2>2 DEF ReloadPart
<1> QED
  BY <1>1, <1>2 DEF Next

\* IInv is inductive.
LEMMA NextIInv == IInv /\ [Next]_vars => IInv'
<1> SUFFICES ASSUME IInv, [Next]_vars PROVE IInv'
  OBVIOUS
<1>1. RestType'
  BY RestStep
<1>2. CASE Next
  <2>1. GatePart'
    BY <1>2, ClientGate, PoolGate, ReloadGate DEF Next
  <2> QED
    BY <1>1, <1>2, <2>1, ReloadPartStep DEF IInv
<1>3. CASE UNCHANGED vars
  <2>1. gate' = gate /\ stage' = stage /\ live' = live /\ reload' = reload
    BY <1>3 DEF vars
  <2>2. GatePart'
    BY <2>1, GateFacts DEF GatePart
  <2>3. ReloadPart'
    BY <2>1 DEF IInv, ReloadPart
  <2> QED
    BY <1>1, <2>2, <2>3 DEF IInv
<1> QED
  BY <1>2, <1>3

LEMMA AlwaysIInv == Spec => []IInv
<1> QED
  BY InitIInv, NextIInv, PTL DEF Spec

----------------------------------------------------------------------------
(* The theorems.                                                            *)

\* Every state is well-typed, and a queued client waits and holds nothing.
THEOREM GateTypeCorrect == Spec => []TypeOK
<1>1. IInv => TypeOK
  BY IInvSafe
<1> QED
  BY <1>1, AlwaysIInv, PTL

\* The permit is held by one client at most, which is out; no exit leaks or doubles it.
THEOREM PermitNeverLeaks == Spec => []PermitIsExclusive
<1>1. IInv => PermitIsExclusive
  BY IInvSafe
<1> QED
  BY <1>1, AlwaysIInv, PTL

\* No wake-up is lost: whoever may go has been let through.
THEOREM WaitersAreServed == Spec => []NoWaiterForgotten
<1>1. IInv => NoWaiterForgotten
  BY IInvSafe
<1> QED
  BY <1>1, AlwaysIInv, PTL

\* Behind the kill pass no client has a process or can get one, and the token is not
\* trusted, until the reload ends.
THEOREM ReloadIsComplete == Spec => []ReloadLeavesNothing
<1>1. IInv => ReloadLeavesNothing
  BY IInvSafe
<1> QED
  BY <1>1, AlwaysIInv, PTL

============================================================================
