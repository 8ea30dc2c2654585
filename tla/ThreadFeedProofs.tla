-------------------------- MODULE ThreadFeedProofs --------------------------
(* Theorems about ThreadFeed. *)
EXTENDS ThreadFeed, FiniteSetTheorems, SequenceTheorems, WellFoundedInduction, TLAPS

-----------------------------------------------------------------------------
(* Induction and recursion over the naturals, as statements about sets *)

\* A non-empty set of naturals has a least element.
LEMMA LeastNatural ==
  ASSUME NEW S \in SUBSET Nat, S # {}
  PROVE  \E s \in S : \A t \in S : s <= t
<1> DEFINE R == OpToRel(<, Nat)
<1>1. \A x, y \in Nat : <<x, y>> \in R <=> x < y
  BY Zenon DEF OpToRel
<1> HIDE DEF R
<1>2. PICK s \in S : \A t \in S : ~ (<<t, s>> \in R)
  BY NatLessThanWellFounded, WFMin, Zenon DEF R
<1>3. \A t \in S : ~ (t < s)
  BY <1>1, <1>2, Zenon
<1> QED
  BY <1>2, <1>3

\* A non-empty set of naturals that is bounded has a greatest element.
LEMMA GreatestNatural ==
  ASSUME NEW S \in SUBSET Nat, S # {}, NEW b \in Nat, \A s \in S : s <= b
  PROVE  \E s \in S : \A t \in S : t <= s
<1> DEFINE D == {d \in Nat : b - d \in S}
<1>1. PICK s \in S : TRUE
  OBVIOUS
<1>2. b - s \in Nat /\ b - (b - s) = s
  BY <1>1
<1>3. D \in SUBSET Nat /\ D # {}
  BY <1>1, <1>2
<1>4. PICK d \in D : \A e \in D : d <= e
  BY <1>3, LeastNatural
<1>5. ASSUME NEW t \in S PROVE t <= b - d
  <2>1. t \in Nat /\ t <= b /\ b - t \in Nat /\ b - (b - t) = t
    OBVIOUS
  <2>2. b - t \in D
    BY <2>1
  <2>3. d <= b - t
    BY <1>4, <2>2
  <2> QED
    BY <1>4, <2>1, <2>3
<1> QED
  BY <1>4, <1>5

\* Induction: a set with 0 and every successor of its members holds every natural.
LEMMA InductiveSet ==
  ASSUME NEW S, 0 \in S, \A n \in Nat : n \in S => n + 1 \in S
  PROVE  Nat \subseteq S
<1> DEFINE T == Nat \ S
<1>1. SUFFICES ASSUME T # {} PROVE FALSE
  OBVIOUS
<1>2. PICK t \in T : \A u \in T : t <= u
  BY <1>1, LeastNatural
<1>3. t - 1 \in Nat /\ t - 1 \notin T
  BY <1>2
<1> QED
  BY <1>2, <1>3

\* Induction up to a bound.
LEMMA InductiveSetUpto ==
  ASSUME NEW S, NEW b \in Nat, 0 \in S,
         \A n \in Nat : n < b /\ n \in S => n + 1 \in S
  PROVE  0 .. b \subseteq S
<1> DEFINE T == {n \in Nat : n <= b => n \in S}
<1>1. 0 \in T /\ \A n \in Nat : n \in T => n + 1 \in T
  OBVIOUS
<1>2. Nat \subseteq T
  BY <1>1, InductiveSet
<1> QED
  BY <1>2

\* `h` runs through the values that start at `v0` and follow `F`, up to `n`.
Runs(h, n, V, v0, F) ==
  /\ h \in [0 .. n -> V] /\ h[0] = v0
  /\ \A m \in Nat : m < n => h[m + 1] = F[m][h[m]]

\* Recursion: such values exist for every length, and there is one way to have them.
LEMMA RunsExist ==
  ASSUME NEW V, NEW v0 \in V, NEW F \in [Nat -> [V -> V]]
  PROVE  \A n \in Nat : \E h : Runs(h, n, V, v0, F)
<1> DEFINE S == {n \in Nat : \E h : Runs(h, n, V, v0, F)}
<1>1. 0 \in S
  <2>1. Runs([m \in 0 .. 0 |-> v0], 0, V, v0, F)
    BY DEF Runs
  <2> QED
    BY <2>1
<1>2. ASSUME NEW n \in Nat, n \in S PROVE n + 1 \in S
  <2>1. PICK h : Runs(h, n, V, v0, F)
    BY <1>2
  <2> DEFINE k == [m \in 0 .. n + 1 |-> IF m = n + 1 THEN F[n][h[n]] ELSE h[m]]
  <2>2. h[n] \in V /\ F[n] \in [V -> V]
    BY <2>1 DEF Runs
  <2>3. k \in [0 .. n + 1 -> V] /\ k[0] = v0
    BY <2>1, <2>2 DEF Runs
  <2>4. ASSUME NEW m \in Nat, m < n + 1 PROVE k[m + 1] = F[m][k[m]]
    BY <2>1, <2>4 DEF Runs
  <2>5. Runs(k, n + 1, V, v0, F)
    BY <2>3, <2>4 DEF Runs
  <2> QED
    BY <2>5
<1>3. Nat \subseteq S
  BY <1>1, <1>2, InductiveSet
<1> QED
  BY <1>3

LEMMA RunsAgree ==
  ASSUME NEW V, NEW v0, NEW F, NEW n \in Nat, NEW k \in Nat, NEW h, NEW g,
         Runs(h, n, V, v0, F), Runs(g, k, V, v0, F)
  PROVE  \A m \in Nat : m <= n /\ m <= k => h[m] = g[m]
<1> DEFINE S == {m \in Nat : m <= n /\ m <= k => h[m] = g[m]}
<1>1. 0 \in S
  BY DEF Runs
<1>2. ASSUME NEW m \in Nat, m \in S PROVE m + 1 \in S
  BY <1>2 DEF Runs
<1>3. Nat \subseteq S
  BY <1>1, <1>2, InductiveSet
<1> QED
  BY <1>3

-----------------------------------------------------------------------------
(* Threads: the fold of a log *)

ThreadsOver(N) == UNION {[D -> Seq(N)] : D \in SUBSET N}
Threads == ThreadsOver(1 .. MaxEvents)

LEMMA ThreadsAre ==
  ASSUME NEW N, NEW t
  PROVE  t \in ThreadsOver(N) <=>
           /\ DOMAIN t \subseteq N /\ t = [u \in DOMAIN t |-> t[u]]
           /\ \A u \in DOMAIN t : t[u] \in Seq(N)
  BY DEF ThreadsOver

Events == [kind: Kinds, of: 0 .. MaxEvents]

\* The reducer takes threads to threads.
LEMMA ReduceType ==
  ASSUME NEW N, NEW t \in ThreadsOver(N), NEW s \in N, NEW e, e.of \in N \/ e.kind # "delta"
  PROVE  Reduce(t, s, e) \in ThreadsOver(N)
<1>1. DOMAIN t \subseteq N /\ \A u \in DOMAIN t : t[u] \in Seq(N)
  BY ThreadsAre
<1>2. ASSUME NEW u \in N, NEW x \in Seq(N) PROVE Put(t, u, x) \in ThreadsOver(N)
  <2> DEFINE p == Put(t, u, x)
  <2>1. DOMAIN p = DOMAIN t \cup {u} /\ p = [v \in DOMAIN p |-> p[v]]
    BY DEF Put
  <2>2. \A v \in DOMAIN p : p[v] \in Seq(N)
    BY <1>1 DEF Put
  <2> QED
    BY <1>1, <2>1, <2>2, ThreadsAre
<1>3. CASE e.kind = "turn"
  <2>1. <<s>> \in Seq(N)
    OBVIOUS
  <2> QED
    BY <1>2, <1>3, <2>1 DEF Reduce
<1>4. CASE e.kind = "delta"
  <2>1. <<s>> \in Seq(N)
    OBVIOUS
  <2>2. \A u \in DOMAIN t : Append(t[u], s) \in Seq(N)
    BY <1>1, AppendProperties
  <2> QED
    BY <1>2, <1>4, <2>1, <2>2 DEF Reduce
<1>5. CASE e.kind = "reverted"
  <2> DEFINE D == {u \in DOMAIN t : u <= e.of}
             r == [u \in D |-> t[u]]
  <2>1. Reduce(t, s, e) = r
    BY <1>5 DEF Reduce, Restrict
  <2>2. r \in ThreadsOver(N)
    BY <1>1, ThreadsAre
  <2> QED
    BY <2>1, <2>2
<1>6. CASE e.kind \notin {"turn", "delta", "reverted"}
  BY <1>6 DEF Reduce
<1> QED
  BY <1>3, <1>4, <1>5, <1>6

LEMMA EmptyThreadType ==
  ASSUME NEW N
  PROVE  EmptyThread \in ThreadsOver(N) /\ DOMAIN EmptyThread = {}
  BY ThreadsAre DEF EmptyThread

Logs == {l \in Seq(Events) : Len(l) <= MaxEvents}

\* The fold is what its recursion says.
LEMMA ThreadOfRecursion ==
  ASSUME NEW l \in Logs
  PROVE  /\ ThreadOf(l, 0) = EmptyThread
         /\ \A n \in Nat : n < Len(l) =>
              ThreadOf(l, n + 1) = Reduce(ThreadOf(l, n), n + 1, l[n + 1])
<1> DEFINE V == ThreadsOver(Nat)
           Step(n, t) == IF n < Len(l) THEN Reduce(t, n + 1, l[n + 1]) ELSE t
           F == [n \in Nat |-> [t \in V |-> Step(n, t)]]
<1>1. Len(l) \in Nat /\ \A i \in 1 .. Len(l) : l[i] \in Events
  BY DEF Logs
<1>2. ASSUME NEW n \in Nat, NEW t \in V PROVE Step(n, t) \in V
  <2>1. CASE n < Len(l)
    <3>1. l[n + 1] \in Events /\ n + 1 \in Nat
      BY <1>1, <2>1
    <3>2. l[n + 1].of \in Nat
      BY <3>1, FeedAssumption DEF Events
    <3> QED
      BY <2>1, <3>1, <3>2, ReduceType
  <2> QED
    BY <2>1
<1>3. F \in [Nat -> [V -> V]]
  BY <1>2
<1>4. EmptyThread \in V
  BY EmptyThreadType
<1>5. PICK g : Runs(g, Len(l), V, EmptyThread, F)
  BY <1>1, <1>3, <1>4, RunsExist
<1>6. g[0] = EmptyThread /\ \A m \in Nat : m <= Len(l) => g[m] \in V
  BY <1>1, <1>5 DEF Runs
<1>7. \A m \in Nat : m < Len(l) => g[m + 1] = Reduce(g[m], m + 1, l[m + 1])
  BY <1>1, <1>5, <1>6 DEF Runs
<1>8. ASSUME NEW n \in Nat, n <= Len(l) PROVE ThreadOf(l, n) = g[n]
  <2> DEFINE Body(a) == [m \in 0 .. n |-> IF m = 0 THEN EmptyThread
                                                  ELSE Reduce(a[m - 1], m, l[m])]
             h == [m \in 0 .. n |-> g[m]]
             f == CHOOSE a : a = Body(a)
  <2>1. h = Body(h)
    <3>1. ASSUME NEW m \in 0 .. n, m # 0 PROVE g[m] = Reduce(h[m - 1], m, l[m])
      <4>1. m - 1 \in Nat /\ m - 1 < Len(l) /\ (m - 1) + 1 = m /\ h[m - 1] = g[m - 1]
        BY <1>1, <1>8, <3>1
      <4> QED
        BY <1>7, <4>1
    <3> QED
      BY <1>6, <3>1
  <2>2. f = Body(f)
    BY <2>1
  <2>3. ThreadOf(l, n) = f[n]
    BY DEF ThreadOf
  <2> HIDE DEF f
  <2> DEFINE S == {m \in Nat : m <= n => f[m] = g[m]}
  <2>4. 0 \in S
    BY <1>6, <2>2
  <2>5. ASSUME NEW m \in Nat, m \in S PROVE m + 1 \in S
    <3>1. SUFFICES ASSUME m + 1 <= n PROVE f[m + 1] = g[m + 1]
      OBVIOUS
    <3>2. f[m + 1] = Reduce(f[m], m + 1, l[m + 1])
      BY <2>2, <3>1
    <3>3. f[m] = g[m] /\ m < Len(l)
      BY <1>1, <1>8, <2>5, <3>1
    <3> QED
      BY <1>7, <3>2, <3>3
  <2>6. Nat \subseteq S
    BY <2>4, <2>5, InductiveSet
  <2> QED
    BY <2>3, <2>6
<1> HIDE DEF V, F
<1>9. ThreadOf(l, 0) = EmptyThread
  BY <1>1, <1>6, <1>8
<1>10. ASSUME NEW n \in Nat, n < Len(l)
       PROVE  ThreadOf(l, n + 1) = Reduce(ThreadOf(l, n), n + 1, l[n + 1])
  BY <1>1, <1>7, <1>8, <1>10
<1> QED
  BY <1>9, <1>10

\* It depends on the events it folds alone.
LEMMA ThreadOfPrefix ==
  ASSUME NEW l \in Logs, NEW k \in Logs, NEW b \in Nat, b <= Len(l), b <= Len(k),
         \A i \in 1 .. b : l[i] = k[i]
  PROVE  \A n \in 0 .. b : ThreadOf(l, n) = ThreadOf(k, n)
<1> DEFINE S == {n \in 0 .. b : ThreadOf(l, n) = ThreadOf(k, n)}
<1>1. 0 \in S
  BY ThreadOfRecursion
<1>2. ASSUME NEW n \in Nat, n < b, n \in S PROVE n + 1 \in S
  <2>1. l[n + 1] = k[n + 1] /\ n < Len(l) /\ n < Len(k)
    BY <1>2 DEF Logs
  <2>2. /\ ThreadOf(l, n + 1) = Reduce(ThreadOf(l, n), n + 1, l[n + 1])
        /\ ThreadOf(k, n + 1) = Reduce(ThreadOf(k, n), n + 1, k[n + 1])
    BY <2>1, ThreadOfRecursion
  <2> QED
    BY <1>2, <2>1, <2>2
<1>3. 0 .. b \subseteq S
  BY <1>1, <1>2, InductiveSetUpto
<1> QED
  BY <1>3

\* In an orderly log a thread has the turns that were opened, and none else.
LEMMA ThreadOfType ==
  ASSUME NEW l, Orderly(l)
  PROVE  /\ l \in Logs
         /\ \A n \in 0 .. Len(l) :
              /\ ThreadOf(l, n) \in Threads
              /\ \A t \in DOMAIN ThreadOf(l, n) : t \in 1 .. n /\ l[t].kind = "turn"
<1>1. l \in Logs /\ Len(l) \in Nat /\ Len(l) <= MaxEvents /\ DOMAIN l = 1 .. Len(l)
  BY DEF Orderly, Logs, Events
<1> DEFINE T(n) == ThreadOf(l, n)
           Turns(n) == \A t \in DOMAIN T(n) : t \in 1 .. n /\ l[t].kind = "turn"
           S == {n \in 0 .. Len(l) : T(n) \in Threads /\ Turns(n)}
<1>2. 0 \in S
  BY <1>1, ThreadOfRecursion, EmptyThreadType DEF Threads
<1>3. ASSUME NEW n \in Nat, n < Len(l), n \in S PROVE n + 1 \in S
  <2> DEFINE e == l[n + 1]
  <2>1. T(n + 1) = Reduce(T(n), n + 1, e)
    BY <1>1, <1>3, ThreadOfRecursion
  <2>2. n + 1 \in 1 .. MaxEvents /\ n + 1 \in DOMAIN l
    BY <1>1, <1>3, FeedAssumption
  <2>3. e.kind = "delta" => e.of \in DOMAIN T(n)
    <3>1. (n + 1) - 1 = n
      OBVIOUS
    <3> QED
      BY <2>2, <3>1 DEF Orderly, Streams
  <2>4. T(n) \in Threads /\ Turns(n)
    BY <1>3
  <2>5. DOMAIN T(n) \subseteq 1 .. MaxEvents
    BY <2>4, ThreadsAre DEF Threads
  <2>6. T(n + 1) \in Threads
    BY <2>1, <2>2, <2>3, <2>4, <2>5, ReduceType DEF Threads
  <2>7. Turns(n + 1)
    <3> HIDE DEF T
    <3>1. CASE e.kind = "turn"
      BY <2>1, <2>4, <3>1 DEF Reduce, Put
    <3>2. CASE e.kind = "delta"
      BY <2>1, <2>3, <2>4, <3>2 DEF Reduce, Put
    <3>3. CASE e.kind = "reverted"
      BY <2>1, <2>4, <3>3 DEF Reduce, Restrict
    <3>4. CASE e.kind \notin {"turn", "delta", "reverted"}
      BY <2>1, <2>4, <3>4 DEF Reduce
    <3> QED
      BY <3>1, <3>2, <3>3, <3>4
  <2> QED
    BY <1>3, <2>6, <2>7
<1>4. 0 .. Len(l) \subseteq S
  BY <1>1, <1>2, <1>3, InductiveSetUpto
<1> QED
  BY <1>1, <1>4

\* Events the subscription does not deliver do not change it.
LEMMA ThreadOfQuiet ==
  ASSUME NEW l \in Logs, NEW a \in Nat, NEW b \in Nat, a <= b, b <= Len(l),
         \A i \in a + 1 .. b : l[i].kind \notin Detail
  PROVE  ThreadOf(l, b) = ThreadOf(l, a)
<1> DEFINE S == {n \in Nat : a + n <= b => ThreadOf(l, a + n) = ThreadOf(l, a)}
<1>1. 0 \in S
  OBVIOUS
<1>2. ASSUME NEW n \in Nat, n \in S PROVE n + 1 \in S
  <2>1. SUFFICES ASSUME a + (n + 1) <= b
                 PROVE  ThreadOf(l, a + (n + 1)) = ThreadOf(l, a)
    OBVIOUS
  <2>2. /\ a + (n + 1) = (a + n) + 1 /\ a + n \in Nat /\ a + n < Len(l)
        /\ (a + n) + 1 \in a + 1 .. b /\ Len(l) \in Nat
    BY <2>1 DEF Logs
  <2>3. ThreadOf(l, (a + n) + 1) = Reduce(ThreadOf(l, a + n), (a + n) + 1, l[(a + n) + 1])
    BY <2>2, ThreadOfRecursion
  <2>4. l[(a + n) + 1].kind \notin Detail
    BY <2>2
  <2>5. Reduce(ThreadOf(l, a + n), (a + n) + 1, l[(a + n) + 1]) = ThreadOf(l, a + n)
    BY <2>4 DEF Reduce, Detail
  <2> QED
    BY <1>2, <2>1, <2>2, <2>3, <2>5
<1>3. Nat \subseteq S
  BY <1>1, <1>2, InductiveSet
<1>4. b - a \in Nat /\ a + (b - a) = b
  OBVIOUS
<1> QED
  BY <1>3, <1>4

-----------------------------------------------------------------------------
(* Watermarks, windows, and the ascending list of a set *)

Told(i) == log[i].kind \in Detail

\* The watermark is the last event the subscription delivers, if there is one.
LEMMA WatermarkIs ==
  ASSUME NEW n \in Nat
  PROVE  /\ Watermark(n) \in 0 .. n
         /\ Watermark(n) # 0 => Told(Watermark(n))
         /\ \A d \in 1 .. n : Told(d) => d <= Watermark(n)
<1> DEFINE S == {0} \cup {i \in 1 .. n : log[i].kind \in Detail}
<1>a. S \in SUBSET Nat /\ S # {} /\ \A s \in S : s <= n
  OBVIOUS
<1>1. \E s \in S : \A t \in S : t <= s
  BY <1>a, GreatestNatural, Zenon
<1>2. Watermark(n) = CHOOSE s \in S : \A t \in S : s >= t
  BY DEF Watermark, Max
<1>3. Watermark(n) \in S /\ \A t \in S : Watermark(n) >= t
  BY <1>1, <1>2
<1> QED
  BY <1>3 DEF Told

Pages == [windowed: BOOLEAN, cursor: 0 .. MaxEvents, more: BOOLEAN, loading: BOOLEAN]

\* What a page shows: the turns before its end, from its own cursor on if there are
\* older ones; the cursor is one of them.
LEMMA TurnWindowIs ==
  ASSUME NEW t \in Threads, NEW c \in Nat
  PROVE  LET w == TurnWindow(t, c)
             shown == {u \in DOMAIN t : /\ c = 0 \/ u < c
                                        /\ w.page.more => u >= w.page.cursor}
         IN  /\ w.page \in Pages /\ w.page.windowed /\ ~w.page.loading
             /\ w.page.more => /\ w.page.cursor \in DOMAIN t
                               /\ c = 0 \/ w.page.cursor < c
             /\ ~w.page.more => w.page.cursor = 0
             /\ w.thread = Restrict(t, shown) /\ w.thread \in Threads
<1> DEFINE before == {u \in DOMAIN t : c = 0 \/ u < c}
           Rest(u) == {v \in before : v >= u}
           shown == {u \in before : Cardinality(Rest(u)) <= Window}
           more == before # shown
           w == TurnWindow(t, c)
<1>1. w = [thread |-> Restrict(t, shown),
           page |-> [windowed |-> TRUE, loading |-> FALSE, more |-> more,
                     cursor |-> IF more THEN Min(shown) ELSE 0]]
  BY DEF TurnWindow
<1>2. DOMAIN t \subseteq 1 .. MaxEvents /\ before \subseteq DOMAIN t /\ shown \subseteq before
  BY ThreadsAre DEF Threads
<1>3. IsFiniteSet(before) /\ \A u \in before : IsFiniteSet(Rest(u))
  <2>1. IsFiniteSet(1 .. MaxEvents)
    BY FS_Interval, FeedAssumption
  <2> QED
    BY <1>2, <2>1, FS_Subset
<1>4. \A u, v \in before : u <= v /\ u \in shown => v \in shown
  <2> TAKE u \in before, v \in before
  <2>1. SUFFICES ASSUME u <= v, u \in shown PROVE v \in shown
    OBVIOUS
  <2>2. Rest(v) \subseteq Rest(u)
    BY <1>2, <2>1
  <2>3. /\ Cardinality(Rest(v)) <= Cardinality(Rest(u))
        /\ Cardinality(Rest(v)) \in Nat /\ Cardinality(Rest(u)) \in Nat
    BY <1>3, <2>2, FS_Subset, FS_CardinalityType
  <2> QED
    BY <2>1, <2>3, FeedAssumption
<1>5. more => shown # {}
  <2>1. SUFFICES ASSUME before # {} PROVE shown # {}
    BY <1>2
  <2>a. before \in SUBSET Nat /\ MaxEvents \in Nat /\ \A v \in before : v <= MaxEvents
    BY <1>2, FeedAssumption
  <2>2. PICK u \in before : \A v \in before : v <= u
    BY <2>1, <2>a, GreatestNatural, Zenon
  <2>3. Rest(u) = {u}
    BY <1>2, <2>2
  <2>4. Cardinality(Rest(u)) = 1
    BY <2>3, FS_Singleton
  <2> QED
    BY <2>4, FeedAssumption
<1>6. more => Min(shown) \in shown /\ \A u \in shown : Min(shown) <= u
  <2>1. SUFFICES ASSUME more
                 PROVE  Min(shown) \in shown /\ \A u \in shown : Min(shown) <= u
    OBVIOUS
  <2>a. shown \in SUBSET Nat
    BY <1>2
  <2>2. \E s \in shown : \A u \in shown : s <= u
    BY <1>5, <2>1, <2>a, LeastNatural, Zenon
  <2> QED
    BY <2>2 DEF Min
<1> HIDE DEF before, Rest
<1>7. more => shown = {u \in before : u >= Min(shown)}
  BY <1>2, <1>4, <1>6
<1> HIDE DEF w, shown
<1>8. /\ w.page.more = more /\ w.page.cursor = IF more THEN Min(shown) ELSE 0
      /\ w.page.windowed = TRUE /\ w.page.loading = FALSE
      /\ w.thread = Restrict(t, shown)
  BY <1>1
<1>9. w.page \in Pages
  BY <1>1, <1>2, <1>6, FeedAssumption DEF Pages
<1>10. shown = {u \in DOMAIN t : /\ c = 0 \/ u < c
                                 /\ w.page.more => u >= w.page.cursor}
  BY <1>2, <1>7, <1>8 DEF before
<1>11. w.thread \in Threads
  <2> DEFINE r == [u \in shown |-> t[u]]
  <2>1. r \in Threads
    BY <1>2, ThreadsAre DEF Threads
  <2> QED
    BY <1>8, <2>1 DEF Restrict
<1>12. w.page.more => w.page.cursor \in DOMAIN t /\ (c = 0 \/ w.page.cursor < c)
  BY <1>2, <1>6, <1>8, <1>10
<1> QED
  BY <1>8, <1>9, <1>10, <1>11, <1>12 DEF w

\* The ascending list of a set has its members, each after every smaller one.
LEMMA AscendingIs ==
  ASSUME NEW D \in SUBSET Nat, NEW n \in Nat
  PROVE  LET q == Ascending(D, n)
         IN  /\ q \in Seq(Nat)
             /\ \A i \in 1 .. Len(q) : q[i] \in D /\ q[i] \in 1 .. n
             /\ \A d \in D : d \in 1 .. n => \E i \in 1 .. Len(q) : q[i] = d
             /\ \A i \in 1 .. Len(q) : \A d \in D :
                  d \in 1 .. n /\ d < q[i] => \E j \in 1 .. i - 1 : q[j] = d
<1> DEFINE V == Seq(Nat)
           Step(m, q) == IF m + 1 \in D THEN Append(q, m + 1) ELSE q
           F == [m \in Nat |-> [q \in V |-> Step(m, q)]]
<1>1. F \in [Nat -> [V -> V]] /\ <<>> \in V
  BY AppendProperties
<1>2. PICK g : Runs(g, n, V, <<>>, F)
  BY <1>1, RunsExist
<1>a. g[0] = <<>> /\ \A m \in Nat : m <= n => g[m] \in V
  BY <1>2 DEF Runs
<1>b. \A m \in Nat : m < n => g[m + 1] = F[m][g[m]]
  BY <1>2 DEF Runs
<1>c. ASSUME NEW m \in Nat, m < n PROVE g[m + 1] = Step(m, g[m])
  <2>a. g[m + 1] = F[m][g[m]]
    BY <1>b, <1>c, Zenon
  <2>b. g[m] \in V
    BY <1>a, <1>c
  <2>1. g[m] \in V /\ g[m + 1] = F[m][g[m]]
    BY <2>a, <2>b, Zenon
  <2> HIDE DEF V
  <2> QED
    BY <2>1
<1>3. /\ g[0] = <<>> /\ \A m \in Nat : m <= n => g[m] \in Seq(Nat)
      /\ \A m \in Nat : m < n =>
           g[m + 1] = IF m + 1 \in D THEN Append(g[m], m + 1) ELSE g[m]
  BY <1>a, <1>c
<1> HIDE DEF F, V, Step
<1>4. Ascending(D, n) = g[n]
  <2> DEFINE Body(a) == [m \in 0 .. n |-> IF m = 0 THEN <<>>
                            ELSE IF m \in D THEN Append(a[m - 1], m) ELSE a[m - 1]]
             h == [m \in 0 .. n |-> g[m]]
             f == CHOOSE a : a = Body(a)
  <2>1. h = Body(h)
    <3>1. ASSUME NEW m \in 0 .. n, m # 0
          PROVE  g[m] = IF m \in D THEN Append(h[m - 1], m) ELSE h[m - 1]
      <4>1. m - 1 \in Nat /\ m - 1 < n /\ (m - 1) + 1 = m /\ h[m - 1] = g[m - 1]
        BY <3>1
      <4> QED
        BY <1>3, <4>1
    <3> QED
      BY <1>3, <3>1
  <2>2. f = Body(f)
    BY <2>1
  <2>3. Ascending(D, n) = f[n]
    BY DEF Ascending
  <2> HIDE DEF f
  <2> DEFINE S == {m \in Nat : m <= n => f[m] = g[m]}
  <2>4. 0 \in S
    BY <1>3, <2>2
  <2>5. ASSUME NEW m \in Nat, m \in S PROVE m + 1 \in S
    <3>1. SUFFICES ASSUME m + 1 <= n PROVE f[m + 1] = g[m + 1]
      OBVIOUS
    <3>2. f[m + 1] = IF m + 1 \in D THEN Append(f[m], m + 1) ELSE f[m]
      <4>1. m + 1 \in 0 .. n /\ m + 1 # 0 /\ (m + 1) - 1 = m
        BY <3>1
      <4>2. f[m + 1] = Body(f)[m + 1]
        BY <2>2, Zenon
      <4> QED
        BY <4>1, <4>2
    <3> QED
      BY <1>3, <2>5, <3>1, <3>2
  <2>6. Nat \subseteq S
    BY <2>4, <2>5, InductiveSet
  <2> QED
    BY <2>3, <2>6
<1> DEFINE Has(q, m) == \A d \in D : d \in 1 .. m => \E i \in 1 .. Len(q) : q[i] = d
           In(q, m) == \A i \in 1 .. Len(q) : q[i] \in D /\ q[i] \in 1 .. m
           Ordered(q, m) == \A i \in 1 .. Len(q) : \A d \in D :
                     d \in 1 .. m /\ d < q[i] => \E j \in 1 .. i - 1 : q[j] = d
           S == {m \in 0 .. n : Has(g[m], m) /\ In(g[m], m) /\ Ordered(g[m], m)}
<1>5. 0 \in S
  BY <1>3
<1>6. ASSUME NEW m \in Nat, m < n, m \in S PROVE m + 1 \in S
  <2> DEFINE q == g[m]
             r == g[m + 1]
  <2>a. q \in Seq(Nat) /\ Len(q) \in Nat
    BY <1>3, <1>6
  <2>b. Has(q, m) /\ In(q, m) /\ Ordered(q, m)
    BY <1>6
  <2>1. q \in Seq(Nat) /\ Has(q, m) /\ In(q, m) /\ Ordered(q, m) /\ Len(q) \in Nat
    BY <2>a, <2>b
  <2>2. CASE m + 1 \in D
    <3>1. r = Append(q, m + 1)
      BY <1>3, <1>6, <2>2
    <3>2. /\ Len(r) = Len(q) + 1 /\ r[Len(q) + 1] = m + 1
          /\ \A i \in 1 .. Len(q) : r[i] = q[i]
      BY <2>1, <3>1, AppendProperties
    <3> HIDE DEF q, r
    <3>3. ASSUME NEW d \in D, d \in 1 .. m + 1 PROVE \E i \in 1 .. Len(r) : r[i] = d
      <4>1. CASE d = m + 1
        <5>1. Len(q) + 1 \in 1 .. Len(r)
          BY <2>1, <3>2
        <5> QED
          BY <3>2, <4>1, <5>1
      <4>2. CASE d # m + 1
        <5>1. d \in 1 .. m
          BY <3>3, <4>2
        <5>2. PICK i \in 1 .. Len(q) : q[i] = d
          BY <2>1, <5>1
        <5>3. i \in 1 .. Len(r) /\ r[i] = d
          BY <2>1, <3>2, <5>2
        <5> QED
          BY <5>3
      <4> QED
        BY <4>1, <4>2
    <3>4. ASSUME NEW i \in 1 .. Len(r) PROVE r[i] \in D /\ r[i] \in 1 .. m + 1
      <4>1. CASE i = Len(q) + 1
        BY <2>2, <3>2, <4>1
      <4>2. CASE i # Len(q) + 1
        <5>1. i \in 1 .. Len(q) /\ r[i] = q[i]
          BY <2>1, <3>2, <4>2
        <5>2. q[i] \in D /\ q[i] \in 1 .. m
          BY <2>1, <5>1
        <5> QED
          BY <5>1, <5>2
      <4> QED
        BY <4>1, <4>2
    <3>5. Ordered(r, m + 1)
      <4>1. ASSUME NEW i \in 1 .. Len(r), NEW d \in D, d \in 1 .. m + 1, d < r[i]
            PROVE  \E j \in 1 .. i - 1 : r[j] = d
        <5>1. CASE i = Len(q) + 1
          <6>1. d \in 1 .. m
            BY <3>2, <4>1, <5>1
          <6>2. PICK j \in 1 .. Len(q) : q[j] = d
            BY <2>1, <6>1
          <6> QED
            BY <2>1, <3>2, <5>1, <6>2
        <5>2. CASE i # Len(q) + 1
          <6>1. i \in 1 .. Len(q) /\ r[i] = q[i] /\ q[i] \in 1 .. m
            BY <2>1, <3>2, <5>2
          <6>2. d \in 1 .. m /\ d < q[i]
            BY <4>1, <6>1
          <6>3. PICK j \in 1 .. i - 1 : q[j] = d
            BY <2>1, <6>1, <6>2
          <6>4. j \in 1 .. Len(q)
            BY <2>1, <6>1
          <6> QED
            BY <3>2, <6>3, <6>4
        <5> QED
          BY <5>1, <5>2
      <4> QED
        BY <4>1
    <3> QED
      BY <1>6, <3>3, <3>4, <3>5 DEF r
  <2>3. CASE m + 1 \notin D
    <3>1. r = q
      BY <1>3, <1>6, <2>3
    <3> HIDE DEF q, r
    <3>2. Has(r, m + 1) /\ In(r, m + 1) /\ Ordered(r, m + 1)
      BY <2>1, <2>3, <3>1
    <3> QED
      BY <1>6, <3>2 DEF r
  <2> QED
    BY <2>2, <2>3
<1>7. 0 .. n \subseteq S
  BY <1>5, <1>6, InductiveSetUpto
<1>8. g[n] \in Seq(Nat) /\ Has(g[n], n) /\ In(g[n], n) /\ Ordered(g[n], n)
  <2>1. n \in S
    <3>1. n \in 0 .. n
      OBVIOUS
    <3> HIDE DEF S
    <3> QED
      BY <1>7, <3>1, Zenon
  <2>2. Has(g[n], n) /\ In(g[n], n) /\ Ordered(g[n], n)
    BY <2>1
  <2>3. g[n] \in Seq(Nat)
    BY <1>3
  <2> QED
    BY <2>2, <2>3, Zenon
<1> QED
  BY <1>4, <1>8

-----------------------------------------------------------------------------
(* Shapes *)

Snapshots ==
  [seq: 0 .. MaxEvents, thread: Threads, page: Pages, watermark: 0 .. MaxEvents]
Fetches == [phase: {"none", "asked", "answered"}, cursor: 0 .. MaxEvents,
            fresh: BOOLEAN, snapshot: Snapshots]
Parks == [on: BOOLEAN, fresh: BOOLEAN, snapshot: Snapshots]
Clients ==
  [has: BOOLEAN, thread: Threads, page: Pages, seq: 0 .. MaxEvents,
   status: {"empty", "cached", "synchronizing", "live"},
   awaiting: BOOLEAN, paging: BOOLEAN,
   phase: {"idle", "loading", "subscribed", "failed"},
   asked: Fetches, parked: Parks, saving: Snapshots]
EventItems == [kind: {"event"}, seq: 1 .. MaxEvents]
SnapshotItems == [kind: {"snapshot"}, snapshot: Snapshots]
Items == EventItems \cup SnapshotItems \cup {Marker}
Subs == [phase: {"none", "open", "replay", "live"}, after: 0 .. MaxEvents,
         head: 0 .. MaxEvents, attached: BOOLEAN, marker: BOOLEAN,
         buffer: Seq(EventItems)]
Conns == [phase: {"down", "prepared", "up"}, server: Servers]

\* Nothing claims to know more than the log.
Known(item) == \/ item.kind = "event" /\ item.seq <= Len(log)
               \/ item.kind = "snapshot" /\ item.snapshot.seq <= Len(log)
               \/ item.kind = "synchronized"

\* Every variable has its shape, and nothing claims to know more than the log.
ServerFits ==
  /\ Orderly(log) /\ published \in 0 .. Len(log) /\ conn \in Conns
  /\ used \in [subscriptions: Nat, views: Nat]
SubFits(s) ==
  /\ s \in Subs /\ s.after <= Len(log) /\ s.head <= Len(log)
  /\ \A i \in DOMAIN s.buffer : s.buffer[i].seq <= Len(log)
WireFits(w) == w \in Seq(Items) /\ \A i \in DOMAIN w : Known(w[i])
ClientFits(c) == c \in Clients /\ c.seq <= Len(log) /\ c.saving.seq <= Len(log)
SnapshotFits(s) == s \in Snapshots /\ s.seq <= Len(log)

TInv ==
  /\ ServerFits /\ SubFits(sub) /\ WireFits(wire)
  /\ ClientFits(cl) /\ SnapshotFits(cache)

-----------------------------------------------------------------------------
(* What the client's operators do to its record *)

\* What the view shows, what it says of itself, and what it waits for.
SameView(c, d) ==
  /\ d.has = c.has /\ d.thread = c.thread /\ d.page = c.page /\ d.seq = c.seq
SameWord(c, d) ==
  /\ d.status = c.status /\ d.awaiting = c.awaiting
  /\ d.paging = c.paging /\ d.phase = c.phase
SameWait(c, d) == d.asked = c.asked /\ d.parked = c.parked

LEMMA NoSnapshotType ==
  /\ NoPage \in Pages /\ NoSnapshot \in Snapshots
  /\ NoFetch \in Fetches /\ NoParked \in Parks
<1>1. 0 \in 0 .. MaxEvents /\ EmptyThread \in Threads
  BY FeedAssumption, EmptyThreadType DEF Threads
<1>2. NoPage \in Pages
  BY <1>1 DEF NoPage, Pages
<1>3. NoSnapshot \in Snapshots
  BY <1>1, <1>2 DEF NoSnapshot, Snapshots
<1> QED
  BY <1>1, <1>2, <1>3 DEF NoFetch, NoParked, Fetches, Parks

\* The four that change no more than what the view says of itself.
LEMMA WordsChange ==
  ASSUME NEW c \in Clients
  PROVE  /\ LET d == SetSynchronizing(c)
            IN  /\ d \in Clients /\ SameView(c, d) /\ SameWait(c, d) /\ d.saving = c.saving
                /\ d.status = "synchronizing" /\ d.awaiting = c.awaiting
                /\ d.paging = c.paging /\ d.phase = c.phase
         /\ LET d == SetReady(c)
            IN  /\ d \in Clients /\ SameView(c, d) /\ SameWait(c, d) /\ d.saving = c.saving
                /\ d.status = (IF c.status = "live" THEN "live" ELSE "synchronizing")
                /\ d.awaiting = c.awaiting /\ d.paging = c.paging /\ d.phase = c.phase
         /\ LET d == SetDisconnected(c)
            IN  /\ d \in Clients /\ SameView(c, d) /\ SameWait(c, d) /\ d.saving = c.saving
                /\ d.status # "live" /\ d.phase = c.phase
         /\ LET d == SetStreamError(c)
            IN  /\ d \in Clients /\ SameView(c, d) /\ SameWait(c, d) /\ d.saving = c.saving
                /\ d.status # "live" /\ d.phase = "failed"
  BY DEF Clients, SetSynchronizing, SetReady, SetDisconnected, SetStreamError,
         StatusWithoutLiveData, SameView, SameWait

LEMMA BumpEpochIs ==
  ASSUME NEW c \in Clients
  PROVE  LET d == BumpEpoch(c)
         IN  /\ d \in Clients /\ SameView(c, d) /\ SameWord(c, d) /\ d.saving = c.saving
             /\ d.asked.phase = c.asked.phase /\ d.asked.cursor = c.asked.cursor
             /\ d.asked.snapshot = c.asked.snapshot /\ ~d.asked.fresh
             /\ ~d.parked.fresh /\ d.parked.on = c.parked.on
<1> DEFINE d == BumpEpoch(c)
<1>1. c.asked \in Fetches /\ c.parked \in Parks
  BY DEF Clients
<1>2. /\ [c.asked EXCEPT !.fresh = FALSE] \in Fetches
      /\ [c.parked EXCEPT !.fresh = FALSE] \in Parks
  BY <1>1 DEF Fetches, Parks
<1>3. d = [c EXCEPT !.asked = [c.asked EXCEPT !.fresh = FALSE],
                    !.parked = [c.parked EXCEPT !.fresh = FALSE]]
  BY DEF BumpEpoch, Clients
<1>4. /\ d.asked = [c.asked EXCEPT !.fresh = FALSE]
      /\ d.parked = [c.parked EXCEPT !.fresh = FALSE]
      /\ d \in Clients /\ SameView(c, d) /\ SameWord(c, d) /\ d.saving = c.saving
  BY <1>2, <1>3 DEF Clients, SameView, SameWord
<1> HIDE DEF d
<1>5. /\ d.asked.phase = c.asked.phase /\ d.asked.cursor = c.asked.cursor
      /\ d.asked.snapshot = c.asked.snapshot /\ ~d.asked.fresh
      /\ ~d.parked.fresh /\ d.parked.on = c.parked.on
  BY <1>1, <1>4 DEF Fetches, Parks
<1> QED
  BY <1>4, <1>5 DEF d

\* What is saved is what is shown, with nothing loading.
Saves(d) == /\ d.saving.seq = d.seq /\ d.saving.thread = d.thread
            /\ d.saving.page.windowed = d.page.windowed
            /\ d.saving.page.more = d.page.more
            /\ d.saving.page.cursor = d.page.cursor
            /\ ~d.saving.page.loading

LEMMA PersistIs ==
  ASSUME NEW c \in Clients
  PROVE  LET d == Persist(c)
         IN  /\ d \in Clients /\ SameView(c, d) /\ SameWord(c, d) /\ SameWait(c, d)
             /\ Saves(d)
<1> DEFINE page == [c.page EXCEPT !.loading = FALSE]
           saving == [NoSnapshot EXCEPT !.seq = c.seq, !.thread = c.thread, !.page = page]
           d == Persist(c)
<1>1. /\ page \in Pages /\ page.windowed = c.page.windowed
      /\ page.more = c.page.more /\ page.cursor = c.page.cursor /\ ~page.loading
  BY DEF Clients, Pages
<1> HIDE DEF page
<1>2. /\ saving \in Snapshots /\ saving.seq = c.seq /\ saving.thread = c.thread
      /\ saving.page = page
  BY <1>1, NoSnapshotType DEF Clients, Snapshots
<1>3. d = [c EXCEPT !.saving = saving]
  BY DEF Persist, page
<1> HIDE DEF saving
<1>4. /\ d \in Clients /\ SameView(c, d) /\ SameWord(c, d) /\ SameWait(c, d)
      /\ d.saving = saving
  BY <1>2, <1>3 DEF Clients, SameView, SameWord, SameWait
<1> QED
  BY <1>1, <1>2, <1>4 DEF Saves, SameView

LEMMA SetThreadIs ==
  ASSUME NEW c \in Clients, NEW thread \in Threads, NEW page \in Pages
  PROVE  LET d == SetThread(c, thread, page)
         IN  /\ d \in Clients /\ SameWait(c, d) /\ Saves(d)
             /\ d.has = TRUE /\ d.thread = thread /\ d.page = page /\ d.seq = c.seq
             /\ d.awaiting = c.awaiting /\ d.paging = c.paging /\ d.phase = c.phase
             /\ d.status = IF c.awaiting THEN "synchronizing" ELSE "live"
<1> DEFINE e == [c EXCEPT !.has = TRUE, !.thread = thread, !.page = page,
                          !.status = IF c.awaiting THEN "synchronizing" ELSE "live"]
<1>1. /\ e \in Clients /\ SameWait(c, e)
      /\ e.has = TRUE /\ e.thread = thread /\ e.page = page /\ e.seq = c.seq
      /\ e.awaiting = c.awaiting /\ e.paging = c.paging /\ e.phase = c.phase
      /\ e.status = IF c.awaiting THEN "synchronizing" ELSE "live"
  BY DEF Clients, SameWait
<1>2. SetThread(c, thread, page) = Persist(e)
  BY DEF SetThread
<1> HIDE DEF e
<1> QED
  BY <1>1, <1>2, PersistIs DEF SameView, SameWord, SameWait

LEMMA MergeRowsType ==
  ASSUME NEW s \in Threads, NEW t \in Threads
  PROVE  MergeRows(s, t) \in Threads
<1>1. /\ DOMAIN s \subseteq 1 .. MaxEvents /\ DOMAIN t \subseteq 1 .. MaxEvents
      /\ \A u \in DOMAIN s : s[u] \in Seq(1 .. MaxEvents)
      /\ \A u \in DOMAIN t : t[u] \in Seq(1 .. MaxEvents)
  BY ThreadsAre DEF Threads
<1>2. /\ DOMAIN MergeRows(s, t) = DOMAIN s \cup DOMAIN t
      /\ MergeRows(s, t) = [u \in DOMAIN MergeRows(s, t) |-> MergeRows(s, t)[u]]
      /\ \A u \in DOMAIN s \cup DOMAIN t : MergeRows(s, t)[u] \in Seq(1 .. MaxEvents)
  BY <1>1 DEF MergeRows
<1> QED
  BY <1>1, <1>2, ThreadsAre DEF Threads

LEMMA MergeOlderPageIs ==
  ASSUME NEW c \in Clients, NEW s \in Snapshots
  PROVE  LET d == MergeOlderPage(c, s)
         IN  /\ d \in Clients /\ SameWord(c, d) /\ SameWait(c, d)
             /\ d.has = c.has /\ d.seq = c.seq
             /\ c.has => /\ d.thread = MergeRows(c.thread, s.thread)
                         /\ d.page = s.page /\ Saves(d)
             /\ ~c.has => d = c
<1> DEFINE e == [c EXCEPT !.thread = MergeRows(c.thread, s.thread), !.page = s.page]
<1>1. MergeRows(c.thread, s.thread) \in Threads /\ s.page \in Pages
  BY MergeRowsType DEF Clients, Snapshots
<1>2. /\ e \in Clients /\ SameWait(c, e) /\ SameWord(c, e)
      /\ e.has = c.has /\ e.thread = MergeRows(c.thread, s.thread)
      /\ e.page = s.page /\ e.seq = c.seq
  BY <1>1 DEF Clients, SameWait, SameWord
<1>3. MergeOlderPage(c, s) = IF ~c.has THEN c ELSE Persist(e)
  BY DEF MergeOlderPage
<1> HIDE DEF e
<1>4. CASE c.has
  BY <1>2, <1>3, <1>4, PersistIs DEF SameView, SameWord, SameWait
<1>5. CASE ~c.has
  BY <1>3, <1>5 DEF SameWord, SameWait
<1> QED
  BY <1>4, <1>5

\* Two pages that differ in nothing but whether an older one is loading.
SameCut(p, q) == /\ q.windowed = p.windowed /\ q.more = p.more /\ q.cursor = p.cursor

Parked(c) == c.parked.on /\ c.parked.fresh

LEMMA TryMergePendingIs ==
  ASSUME NEW c \in Clients
  PROVE  LET d == TryMergePending(c)
         IN  /\ d \in Clients /\ SameWord(c, d)
             /\ d.has = c.has /\ d.seq = c.seq /\ d.asked = c.asked
             /\ Parked(d) => d = c /\ c.parked.snapshot.watermark > c.seq
             /\ c.has /\ d.page.loading =>
                  \/ d = c /\ (c.parked.on => Parked(c))
                  \/ Parked(c) /\ d.page = c.parked.snapshot.page
             /\ ~Parked(c) => /\ d.thread = c.thread /\ SameCut(c.page, d.page)
                              /\ d.saving = c.saving
             /\ Parked(c) /\ ~Parked(d) /\ c.has =>
                  /\ c.parked.snapshot.watermark <= c.seq
                  /\ d.thread = MergeRows(c.thread, c.parked.snapshot.thread)
                  /\ d.page = c.parked.snapshot.page /\ Saves(d)
<1> DEFINE s == c.parked.snapshot
           e == [c EXCEPT !.parked = NoParked]
           f == [c EXCEPT !.parked = NoParked, !.page = [c.page EXCEPT !.loading = FALSE]]
           d == TryMergePending(c)
<1>1. c.parked \in Parks /\ s \in Snapshots /\ c.page \in Pages /\ c.seq \in 0 .. MaxEvents
  BY DEF Clients, Parks
<1>2. s.watermark \in 0 .. MaxEvents
  BY <1>1 DEF Snapshots
<1>3. ~NoParked.on
  BY DEF NoParked
<1>4. /\ e \in Clients /\ SameWord(c, e) /\ SameView(c, e) /\ e.asked = c.asked
      /\ e.parked = NoParked /\ e.saving = c.saving
  BY NoSnapshotType DEF Clients, SameWord, SameView
<1>5. /\ [c.page EXCEPT !.loading = FALSE] \in Pages
      /\ SameCut(c.page, [c.page EXCEPT !.loading = FALSE])
      /\ ~[c.page EXCEPT !.loading = FALSE].loading
  BY <1>1 DEF Pages, SameCut
<1>6. /\ f \in Clients /\ SameWord(c, f) /\ f.has = c.has /\ f.seq = c.seq
      /\ f.asked = c.asked /\ f.thread = c.thread /\ f.parked = NoParked
      /\ f.saving = c.saving /\ f.page = [c.page EXCEPT !.loading = FALSE]
  BY <1>5, NoSnapshotType DEF Clients, SameWord
<1>7. d = IF ~c.parked.on THEN c
          ELSE IF ~c.parked.fresh THEN f
          ELSE IF s.watermark > c.seq THEN c
          ELSE MergeOlderPage(e, s)
  BY DEF TryMergePending
<1> HIDE DEF d, e, f
<1>8. CASE ~c.parked.on
  BY <1>7, <1>8 DEF SameWord, SameCut, Parked, d
<1>9. CASE c.parked.on /\ ~c.parked.fresh
  BY <1>3, <1>5, <1>6, <1>7, <1>9 DEF Parked, d
<1>10. CASE Parked(c) /\ s.watermark > c.seq
  BY <1>7, <1>10 DEF SameWord, Parked, d
<1>11. CASE Parked(c) /\ ~(s.watermark > c.seq)
  <2> DEFINE m == MergeOlderPage(e, s)
  <2>1. /\ m \in Clients /\ SameWord(e, m) /\ SameWait(e, m)
        /\ m.has = e.has /\ m.seq = e.seq
        /\ e.has => /\ m.thread = MergeRows(e.thread, s.thread)
                    /\ m.page = s.page /\ Saves(m)
    BY <1>1, <1>4, MergeOlderPageIs
  <2>2. d = m
    BY <1>7, <1>11 DEF Parked
  <2> HIDE DEF m
  <2>3. ~Parked(d)
    BY <1>3, <1>4, <2>1, <2>2 DEF SameWait, Parked
  <2>4. d \in Clients /\ SameWord(c, d) /\ d.has = c.has /\ d.seq = c.seq /\ d.asked = c.asked
    BY <1>4, <2>1, <2>2 DEF SameWord, SameWait, SameView
  <2>5. c.has => /\ d.thread = MergeRows(c.thread, s.thread)
                 /\ d.page = s.page /\ Saves(d)
    BY <1>4, <2>1, <2>2 DEF SameView
  <2>6. s.watermark <= c.seq
    BY <1>1, <1>2, <1>11, FeedAssumption
  <2> QED
    BY <1>11, <2>3, <2>4, <2>5, <2>6 DEF d
<1> QED
  BY <1>8, <1>9, <1>10, <1>11 DEF Parked

LEMMA ApplySnapshotIs ==
  ASSUME NEW c \in Clients, NEW s \in Snapshots
  PROVE  LET d == ApplySnapshot(c, s)
         IN  /\ d \in Clients /\ Saves(d)
             /\ d.has = TRUE /\ d.thread = s.thread /\ d.page = s.page /\ d.seq = s.seq
             /\ d.awaiting = c.awaiting /\ d.paging = c.paging /\ d.phase = c.phase
             /\ d.status = (IF c.awaiting THEN "synchronizing" ELSE "live")
             /\ d.asked.phase = c.asked.phase /\ d.asked.cursor = c.asked.cursor
             /\ d.asked.snapshot = c.asked.snapshot /\ ~d.asked.fresh /\ ~Parked(d)
<1> DEFINE b == BumpEpoch(c)
           e == [b EXCEPT !.seq = s.seq]
<1>1. /\ b \in Clients /\ SameView(c, b) /\ SameWord(c, b) /\ b.saving = c.saving
      /\ b.asked.phase = c.asked.phase /\ b.asked.cursor = c.asked.cursor
      /\ b.asked.snapshot = c.asked.snapshot /\ ~b.asked.fresh /\ ~b.parked.fresh
  BY BumpEpochIs
<1> HIDE DEF b
<1>2. s.seq \in 0 .. MaxEvents /\ s.thread \in Threads /\ s.page \in Pages
  BY DEF Snapshots
<1>3. e \in Clients /\ SameWord(b, e) /\ SameWait(b, e) /\ e.seq = s.seq
  BY <1>1, <1>2 DEF Clients, SameWord, SameWait
<1>4. ApplySnapshot(c, s) = SetThread(e, s.thread, s.page)
  BY DEF ApplySnapshot, b
<1> HIDE DEF e
<1> DEFINE d == SetThread(e, s.thread, s.page)
<1>5. /\ d \in Clients /\ SameWait(e, d) /\ Saves(d)
      /\ d.has = TRUE /\ d.thread = s.thread /\ d.page = s.page /\ d.seq = e.seq
      /\ d.awaiting = e.awaiting /\ d.paging = e.paging /\ d.phase = e.phase
      /\ d.status = IF e.awaiting THEN "synchronizing" ELSE "live"
  BY <1>2, <1>3, SetThreadIs
<1> HIDE DEF d
<1>6. ApplySnapshot(c, s) = d
  BY <1>4 DEF d
<1> QED
  BY <1>1, <1>3, <1>5, <1>6 DEF SameWord, SameWait, Parked

LEMMA ApplyMarkerIs ==
  ASSUME NEW c \in Clients
  PROVE  LET d == ApplyMarker(c)
         IN  /\ d \in Clients /\ SameView(c, d) /\ SameWait(c, d) /\ d.saving = c.saving
             /\ d.phase = c.phase /\ d.awaiting = FALSE
  BY DEF ApplyMarker, Clients, SameView, SameWait

\* An event that is new: it is seen, folded, and then the page that waited is merged.
Seen(c, s) == IF log[s].kind = "reverted" THEN BumpEpoch([c EXCEPT !.seq = s])
                                          ELSE [c EXCEPT !.seq = s]
Folded(c, s) == SetThread(Seen(c, s), Reduce(c.thread, s, log[s]), c.page)

LEMMA SeenIs ==
  ASSUME NEW c \in Clients, NEW s \in 1 .. MaxEvents
  PROVE  LET d == Seen(c, s)
         IN  /\ d \in Clients /\ SameWord(c, d) /\ d.seq = s
             /\ d.has = c.has /\ d.page = c.page /\ d.saving = c.saving
             /\ d.asked.phase = c.asked.phase /\ d.asked.cursor = c.asked.cursor
             /\ d.asked.snapshot = c.asked.snapshot
             /\ IF log[s].kind = "reverted" THEN ~d.asked.fresh /\ ~Parked(d)
                                            ELSE SameWait(c, d)
             /\ d.parked.on = c.parked.on
<1> DEFINE e == [c EXCEPT !.seq = s]
<1>1. /\ e \in Clients /\ SameWord(c, e) /\ SameWait(c, e) /\ e.seq = s
      /\ e.has = c.has /\ e.page = c.page /\ e.saving = c.saving
  BY DEF Clients, SameWord, SameWait
<1>2. Seen(c, s) = IF log[s].kind = "reverted" THEN BumpEpoch(e) ELSE e
  BY DEF Seen
<1> HIDE DEF e
<1> QED
  BY <1>1, <1>2, BumpEpochIs DEF SameWord, SameWait, SameView, Parked

LEMMA FoldedIs ==
  ASSUME NEW c \in Clients, NEW s \in 1 .. MaxEvents,
         Reduce(c.thread, s, log[s]) \in Threads
  PROVE  LET d == Folded(c, s)
         IN  /\ d \in Clients /\ Saves(d)
             /\ d.has = TRUE /\ d.thread = Reduce(c.thread, s, log[s])
             /\ d.page = c.page /\ d.seq = s
             /\ d.awaiting = c.awaiting /\ d.phase = c.phase
             /\ d.status = (IF c.awaiting THEN "synchronizing" ELSE "live")
             /\ d.asked.phase = c.asked.phase /\ d.asked.cursor = c.asked.cursor
             /\ d.asked.snapshot = c.asked.snapshot
             /\ IF log[s].kind = "reverted" THEN ~d.asked.fresh /\ ~Parked(d)
                                            ELSE SameWait(c, d)
             /\ d.parked.on = c.parked.on
<1> DEFINE b == Seen(c, s)
           e == [b EXCEPT !.has = TRUE, !.thread = Reduce(c.thread, s, log[s]),
                          !.page = c.page,
                          !.status = IF b.awaiting THEN "synchronizing" ELSE "live"]
           d == Persist(e)
<1>1. /\ b \in Clients /\ SameWord(c, b) /\ b.seq = s
      /\ b.asked.phase = c.asked.phase /\ b.asked.cursor = c.asked.cursor
      /\ b.asked.snapshot = c.asked.snapshot
      /\ IF log[s].kind = "reverted" THEN ~b.asked.fresh /\ ~Parked(b)
                                     ELSE SameWait(c, b)
      /\ b.parked.on = c.parked.on
  BY SeenIs
<1>2. Folded(c, s) = d
  BY DEF Folded, SetThread
<1> HIDE DEF b
<1>3. c.page \in Pages
  BY DEF Clients
<1>4. e \in Clients /\ SameWait(b, e)
  BY <1>1, <1>3 DEF Clients, SameWait
<1>5. /\ e.has = TRUE /\ e.thread = Reduce(c.thread, s, log[s])
      /\ e.page = c.page /\ e.seq = b.seq
      /\ e.awaiting = b.awaiting /\ e.phase = b.phase
      /\ e.status = IF b.awaiting THEN "synchronizing" ELSE "live"
  BY <1>1 DEF Clients
<1> HIDE DEF e
<1>6. d \in Clients /\ SameView(e, d) /\ SameWord(e, d) /\ SameWait(e, d) /\ Saves(d)
  BY <1>4, PersistIs
<1> HIDE DEF d
<1> QED
  BY <1>1, <1>2, <1>4, <1>5, <1>6 DEF SameView, SameWord, SameWait, Parked

LEMMA ApplyEventIs ==
  ASSUME NEW c \in Clients, NEW s \in 1 .. MaxEvents
  PROVE  ApplyEvent(c, s) = IF s <= c.seq THEN c
                            ELSE IF c.has THEN TryMergePending(Folded(c, s))
                                          ELSE [c EXCEPT !.seq = s]
  BY DEF ApplyEvent, Folded, Seen

\* A subscription begins: the view is kept or dropped.
LEMMA BeginIs ==
  ASSUME NEW c \in Clients, NEW v \in Servers
  PROVE  LET d == Begin(c, v)
         IN  /\ d \in Clients /\ d.saving = c.saving
             /\ d.phase = "loading" /\ d.awaiting = v.marker /\ d.status # "live"
             /\ \/ SameView(c, d) /\ SameWait(c, d)
                \/ /\ ~d.has /\ d.page = NoPage /\ d.seq = 0
                   /\ d.asked.phase = c.asked.phase /\ d.asked.cursor = c.asked.cursor
                   /\ d.asked.snapshot = c.asked.snapshot /\ ~d.asked.fresh /\ ~Parked(d)
<1> DEFINE s == SetSynchronizing(c)
           told == [s EXCEPT !.paging = v.paging, !.awaiting = v.marker]
           b == BumpEpoch(told)
           dropped == [b EXCEPT !.has = FALSE, !.seq = 0, !.thread = EmptyThread,
                                !.page = NoPage, !.status = "empty"]
           drop == ~v.paging /\ c.page.windowed
<1>1. v.paging \in BOOLEAN /\ v.marker \in BOOLEAN
  BY FeedAssumption
<1>2. /\ s \in Clients /\ SameView(c, s) /\ SameWait(c, s) /\ s.saving = c.saving
      /\ s.status = "synchronizing"
  BY WordsChange
<1> HIDE DEF s
<1>3. /\ told \in Clients /\ SameView(c, told) /\ SameWait(c, told)
      /\ told.saving = c.saving /\ told.status = "synchronizing"
      /\ told.awaiting = v.marker
  BY <1>1, <1>2 DEF Clients, SameView, SameWait
<1>4. Begin(c, v) = [(IF drop THEN dropped ELSE told) EXCEPT !.phase = "loading"]
  BY DEF Begin, s
<1> HIDE DEF told
<1>5. CASE ~drop
  BY <1>3, <1>4, <1>5 DEF Clients, SameView, SameWait
<1>6. CASE drop
  <2>1. /\ b \in Clients /\ SameView(told, b) /\ SameWord(told, b) /\ b.saving = c.saving
        /\ b.asked.phase = c.asked.phase /\ b.asked.cursor = c.asked.cursor
        /\ b.asked.snapshot = c.asked.snapshot /\ ~b.asked.fresh /\ ~b.parked.fresh
    BY <1>3, BumpEpochIs DEF SameWait
  <2> HIDE DEF b
  <2>2. /\ dropped \in Clients /\ ~dropped.has /\ dropped.seq = 0
        /\ dropped.page = NoPage /\ dropped.status = "empty"
        /\ SameWait(b, dropped) /\ dropped.saving = c.saving
        /\ dropped.awaiting = v.marker
    <3>1. EmptyThread \in Threads /\ 0 \in 0 .. MaxEvents /\ NoPage \in Pages
      BY NoSnapshotType, EmptyThreadType, FeedAssumption DEF Threads
    <3>2. b.awaiting = v.marker
      BY <1>3, <2>1 DEF SameWord
    <3> QED
      BY <2>1, <3>1, <3>2 DEF Clients, SameWait
  <2> HIDE DEF dropped
  <2>3. Begin(c, v) = [dropped EXCEPT !.phase = "loading"]
    BY <1>4, <1>6
  <2> QED
    BY <2>1, <2>2, <2>3 DEF Clients, SameWait, Parked
<1> QED
  BY <1>5, <1>6

LEMMA AskIs ==
  ASSUME NEW c \in Clients, NEW v \in Servers
  PROVE  LET d == Ask(c, v)
         IN  /\ d \in Clients /\ SameView(c, d) /\ SameWait(c, d) /\ d.saving = c.saving
             /\ d.phase = "subscribed" /\ d.awaiting = c.awaiting
             /\ v.marker => d.status = c.status
  BY FeedAssumption DEF Ask, Clients, SameView, SameWait

LEMMA FreshIs ==
  ASSUME NEW s \in Snapshots
  PROVE  LET d == Fresh(s)
         IN  /\ d \in Clients /\ d.thread = s.thread /\ d.page = s.page /\ d.seq = s.seq
             /\ d.has = (s # NoSnapshot) /\ d.phase = "idle" /\ d.awaiting = FALSE
             /\ d.asked = NoFetch /\ d.parked = NoParked /\ d.saving = NoSnapshot
  BY NoSnapshotType DEF Fresh, Clients, Snapshots

LEMMA OpenedIs ==
  ASSUME NEW c \in Clients, NEW v \in Servers
  PROVE  LET d == Opened(c, v)
         IN  /\ d \in Subs /\ d.phase = "open" /\ d.marker = v.marker /\ ~d.attached
             /\ d.after = (IF c.has THEN c.seq ELSE 0) /\ d.head = 0 /\ d.buffer = <<>>
<1>1. v.marker \in BOOLEAN /\ 0 \in 0 .. MaxEvents /\ c.seq \in 0 .. MaxEvents
  BY FeedAssumption DEF Clients
<1>2. <<>> \in Seq(EventItems)
  OBVIOUS
<1>3. NoSub \in Subs /\ NoSub.head = 0 /\ NoSub.buffer = <<>> /\ ~NoSub.attached
  BY <1>1, <1>2 DEF NoSub, Subs
<1> QED
  BY <1>1, <1>3 DEF Opened, Subs

-----------------------------------------------------------------------------
(* Types and bounds are kept *)

\* What is on the wire, item by item.
LEMMA WireIs ==
  ASSUME NEW w, WireFits(w)
  PROVE  /\ Len(w) \in Nat /\ DOMAIN w = 1 .. Len(w) /\ (w = <<>> <=> Len(w) = 0)
         /\ \A i \in 1 .. Len(w) : w[i] \in Items /\ Known(w[i])
  BY LenProperties, EmptySeq DEF WireFits

LEMMA WireAppend ==
  ASSUME NEW w, WireFits(w), NEW x \in Items, Known(x)
  PROVE  /\ WireFits(Append(w, x)) /\ Len(Append(w, x)) = Len(w) + 1
         /\ Append(w, x)[Len(w) + 1] = x
         /\ \A i \in 1 .. Len(w) : Append(w, x)[i] = w[i]
<1> DEFINE r == Append(w, x)
<1>1. w \in Seq(Items) /\ Len(w) \in Nat /\ \A i \in 1 .. Len(w) : Known(w[i])
  BY WireIs DEF WireFits
<1>2. /\ r \in Seq(Items) /\ Len(r) = Len(w) + 1 /\ r[Len(w) + 1] = x
      /\ \A i \in 1 .. Len(w) : r[i] = w[i]
  BY <1>1, AppendProperties
<1>3. DOMAIN r = 1 .. Len(r)
  BY <1>2, LenProperties
<1> HIDE DEF r
<1>4. \A i \in DOMAIN r : Known(r[i])
  <2> TAKE i \in DOMAIN r
  <2>1. CASE i = Len(w) + 1
    BY <1>2, <2>1
  <2>2. CASE i # Len(w) + 1
    <3>1. i \in 1 .. Len(w)
      BY <1>1, <1>2, <1>3, <2>2
    <3>2. r[i] = w[i] /\ Known(w[i])
      BY <1>1, <1>2, <3>1
    <3> QED
      BY <3>2
  <2> QED
    BY <2>1, <2>2
<1> QED
  BY <1>2, <1>4 DEF WireFits, r

LEMMA WireTail ==
  ASSUME NEW w, WireFits(w), w # <<>>
  PROVE  /\ Head(w) = w[1] /\ w[1] \in Items /\ Known(w[1])
         /\ WireFits(Tail(w)) /\ Len(Tail(w)) = Len(w) - 1
         /\ \A i \in 1 .. Len(w) - 1 : Tail(w)[i] = w[i + 1]
<1> DEFINE r == Tail(w)
<1>1. w \in Seq(Items) /\ Len(w) \in Nat \ {0} /\ \A i \in 1 .. Len(w) : w[i] \in Items /\ Known(w[i])
  BY WireIs DEF WireFits
<1>2. /\ r \in Seq(Items) /\ Len(r) = Len(w) - 1
      /\ \A i \in 1 .. Len(r) : r[i] = w[i + 1]
  BY <1>1, HeadTailProperties
<1>3. DOMAIN r = 1 .. Len(r)
  BY <1>2, LenProperties
<1>4. Head(w) = w[1]
  BY <1>1
<1> HIDE DEF r
<1>5. \A i \in DOMAIN r : Known(r[i])
  <2> TAKE i \in DOMAIN r
  <2>1. i + 1 \in 1 .. Len(w) /\ r[i] = w[i + 1]
    BY <1>1, <1>2, <1>3
  <2> QED
    BY <1>1, <2>1
<1> QED
  BY <1>1, <1>2, <1>4, <1>5 DEF WireFits, r

LEMMA WireConcat ==
  ASSUME NEW w, WireFits(w), NEW x, WireFits(x)
  PROVE  /\ WireFits(w \o x) /\ Len(w \o x) = Len(w) + Len(x)
         /\ \A i \in 1 .. Len(w) : (w \o x)[i] = w[i]
         /\ \A i \in 1 .. Len(x) : (w \o x)[Len(w) + i] = x[i]
<1> DEFINE r == w \o x
<1>1. /\ w \in Seq(Items) /\ Len(w) \in Nat /\ \A i \in 1 .. Len(w) : Known(w[i])
      /\ x \in Seq(Items) /\ Len(x) \in Nat /\ \A i \in 1 .. Len(x) : Known(x[i])
  BY WireIs DEF WireFits
<1>2. /\ r \in Seq(Items) /\ Len(r) = Len(w) + Len(x)
      /\ \A i \in 1 .. Len(w) + Len(x) : r[i] = IF i <= Len(w) THEN w[i] ELSE x[i - Len(w)]
  BY <1>1, ConcatProperties
<1>3. DOMAIN r = 1 .. Len(r)
  BY <1>2, LenProperties
<1> HIDE DEF r
<1>4. \A i \in 1 .. Len(w) : r[i] = w[i]
  BY <1>1, <1>2
<1>5. \A i \in 1 .. Len(x) : r[Len(w) + i] = x[i]
  <2> TAKE i \in 1 .. Len(x)
  <2>1. /\ Len(w) + i \in 1 .. Len(w) + Len(x) /\ ~(Len(w) + i <= Len(w))
        /\ (Len(w) + i) - Len(w) = i
    BY <1>1
  <2> QED
    BY <1>2, <2>1
<1>6. \A i \in DOMAIN r : Known(r[i])
  <2> TAKE i \in DOMAIN r
  <2>1. CASE i <= Len(w)
    BY <1>1, <1>2, <1>3, <2>1
  <2>2. CASE ~(i <= Len(w))
    <3>1. i - Len(w) \in 1 .. Len(x) /\ r[i] = x[i - Len(w)]
      BY <1>1, <1>2, <1>3, <2>2
    <3> QED
      BY <1>1, <3>1
  <2> QED
    BY <2>1, <2>2
<1> QED
  BY <1>2, <1>4, <1>5, <1>6 DEF WireFits, r

LEMMA WireEmpty == WireFits(<<>>) /\ Len(<<>>) = 0
  BY EmptySeq DEF WireFits

LEMMA WireOne ==
  ASSUME NEW x \in Items, Known(x)
  PROVE  WireFits(<<x>>) /\ Len(<<x>>) = 1 /\ <<x>>[1] = x
  BY DEF WireFits

LEMMA MarkerIs == Marker \in Items /\ Known(Marker) /\ Marker.kind = "synchronized"
  BY DEF Marker, Items, Known

LEMMA EventItemIs ==
  ASSUME Orderly(log), NEW k \in 1 .. Len(log)
  PROVE  /\ EventItem(k) \in EventItems /\ EventItem(k) \in Items /\ Known(EventItem(k))
         /\ EventItem(k).kind = "event" /\ EventItem(k).seq = k
<1>1. k \in 1 .. MaxEvents
  BY FeedAssumption DEF Orderly
<1> QED
  BY <1>1 DEF EventItem, EventItems, Items, Known

LEMMA BufferIs ==
  ASSUME NEW s, SubFits(s)
  PROVE  WireFits(s.buffer) /\ \A i \in 1 .. Len(s.buffer) : s.buffer[i].kind = "event"
<1>1. s.buffer \in Seq(EventItems) /\ \A i \in DOMAIN s.buffer : s.buffer[i].seq <= Len(log)
  BY DEF SubFits, Subs
<1>2. s.buffer \in Seq(Items)
  BY <1>1, SeqMonotonic DEF Items
<1>3. \A i \in DOMAIN s.buffer : s.buffer[i].kind = "event"
  <2>1. \A i \in DOMAIN s.buffer : s.buffer[i] \in EventItems
    BY <1>1
  <2> QED
    BY <2>1 DEF EventItems
<1>4. DOMAIN s.buffer = 1 .. Len(s.buffer)
  BY <1>2, LenProperties
<1> QED
  BY <1>1, <1>2, <1>3, <1>4 DEF WireFits, Known

\* A page, and the whole thread, as the server reads them.
LEMMA LogIs ==
  ASSUME Orderly(log)
  PROVE  /\ log \in Logs /\ Len(log) \in 0 .. MaxEvents /\ DOMAIN log = 1 .. Len(log)
         /\ \A n \in 0 .. Len(log) : ThreadAt(n) \in Threads
         /\ \A n \in 0 .. Len(log) : \A t \in DOMAIN ThreadAt(n) :
              t \in 1 .. n /\ log[t].kind = "turn"
<1>1. log \in Logs /\ \A n \in 0 .. Len(log) : /\ ThreadAt(n) \in Threads
                        /\ \A t \in DOMAIN ThreadAt(n) : t \in 1 .. n /\ log[t].kind = "turn"
  BY ThreadOfType DEF ThreadAt
<1>2. Len(log) \in 0 .. MaxEvents /\ DOMAIN log = 1 .. Len(log)
  BY FeedAssumption DEF Orderly
<1> QED
  BY <1>1, <1>2

LEMMA PageIs ==
  ASSUME Orderly(log), NEW c \in Nat
  PROVE  LET p == Page(c)
             w == TurnWindow(ThreadAt(Len(log)), c)
         IN  /\ SnapshotFits(p) /\ p.seq = Len(log) /\ p.watermark = Watermark(Len(log))
             /\ p.thread = w.thread /\ p.page = w.page
<1> DEFINE w == TurnWindow(ThreadAt(Len(log)), c)
<1>1. Len(log) \in 0 .. MaxEvents /\ ThreadAt(Len(log)) \in Threads
  BY LogIs
<1>2. w.thread \in Threads /\ w.page \in Pages
  BY <1>1, TurnWindowIs
<1>3. Watermark(Len(log)) \in 0 .. MaxEvents
  BY <1>1, WatermarkIs, FeedAssumption
<1>4. Page(c) = [seq |-> Len(log), watermark |-> Watermark(Len(log)),
                 thread |-> w.thread, page |-> w.page]
  BY DEF Page
<1> HIDE DEF w
<1>5. /\ Page(c) \in Snapshots /\ Page(c).seq = Len(log)
      /\ Page(c).watermark = Watermark(Len(log))
      /\ Page(c).thread = w.thread /\ Page(c).page = w.page
  BY <1>1, <1>2, <1>3, <1>4 DEF Snapshots
<1> QED
  BY <1>1, <1>5 DEF SnapshotFits, w

LEMMA WholeIs ==
  ASSUME Orderly(log)
  PROVE  /\ SnapshotFits(Whole) /\ Whole.seq = Len(log)
         /\ Whole.thread = ThreadAt(Len(log)) /\ Whole.page = NoPage
<1>1. Len(log) \in 0 .. MaxEvents /\ ThreadAt(Len(log)) \in Threads
  BY LogIs
<1>2. /\ Whole \in Snapshots /\ Whole.seq = Len(log)
      /\ Whole.thread = ThreadAt(Len(log)) /\ Whole.page = NoSnapshot.page
  BY <1>1, NoSnapshotType DEF Whole, Snapshots
<1> QED
  BY <1>1, <1>2 DEF SnapshotFits, NoSnapshot

LEMMA FirstPageIs ==
  ASSUME Orderly(log), NEW v
  PROVE  /\ SnapshotFits(FirstPage(v)) /\ FirstPage(v).seq = Len(log)
         /\ ~FirstPage(v).page.loading
<1>1. ~Page(0).page.loading
  <2>1. ThreadAt(Len(log)) \in Threads
    BY LogIs
  <2>2. ~TurnWindow(ThreadAt(Len(log)), 0).page.loading
    BY <2>1, TurnWindowIs
  <2> QED
    BY <2>2 DEF Page
<1>2. ~Whole.page.loading
  BY WholeIs DEF NoPage
<1> QED
  BY <1>1, <1>2, PageIs, WholeIs DEF FirstPage

\* An event of the log, folded into any thread.
LEMMA ReduceFits ==
  ASSUME Orderly(log), NEW s \in 1 .. Len(log), NEW t \in Threads
  PROVE  s \in 1 .. MaxEvents /\ Reduce(t, s, log[s]) \in Threads
<1>1. log[s] \in Events /\ s \in 1 .. MaxEvents /\ s \in DOMAIN log /\ s - 1 \in 0 .. Len(log)
  BY LogIs, FeedAssumption DEF Logs
<1>2. log[s].kind = "delta" => log[s].of \in 1 .. MaxEvents
  <2>1. log[s].kind = "delta" => log[s].of \in DOMAIN ThreadAt(s - 1)
    BY <1>1 DEF Orderly, Streams, ThreadAt
  <2>2. \A u \in DOMAIN ThreadAt(s - 1) : u \in 1 .. s - 1
    BY <1>1, LogIs
  <2> QED
    BY <1>1, <2>1, <2>2, FeedAssumption
<1> QED
  BY <1>1, <1>2, ReduceType DEF Threads

LEMMA ApplyEventFits ==
  ASSUME Orderly(log), NEW c, ClientFits(c), NEW s \in 1 .. Len(log)
  PROVE  ClientFits(ApplyEvent(c, s))
<1>1. /\ c \in Clients /\ c.seq <= Len(log) /\ c.saving.seq <= Len(log)
      /\ s \in 1 .. MaxEvents /\ s <= Len(log)
  BY LogIs, FeedAssumption DEF ClientFits
<1>2. CASE s <= c.seq
  BY <1>1, <1>2, ApplyEventIs DEF ClientFits
<1>3. CASE ~(s <= c.seq) /\ ~c.has
  <2>1. ApplyEvent(c, s) = [c EXCEPT !.seq = s]
    BY <1>1, <1>3, ApplyEventIs
  <2> QED
    BY <1>1, <2>1 DEF ClientFits, Clients
<1>4. CASE ~(s <= c.seq) /\ c.has
  <2> DEFINE e == Folded(c, s)
             d == TryMergePending(e)
  <2>1. ApplyEvent(c, s) = d
    BY <1>1, <1>4, ApplyEventIs
  <2>2. Reduce(c.thread, s, log[s]) \in Threads
    BY <1>1, ReduceFits DEF Clients
  <2>3. e \in Clients /\ e.seq = s /\ Saves(e) /\ e.has
    BY <1>1, <2>2, FoldedIs
  <2> HIDE DEF e
  <2>4. /\ d \in Clients /\ d.seq = e.seq
        /\ d.saving = e.saving \/ Saves(d)
    BY <2>3, TryMergePendingIs
  <2> HIDE DEF d
  <2> QED
    BY <1>1, <2>1, <2>3, <2>4 DEF ClientFits, Saves
<1> QED
  BY <1>2, <1>3, <1>4

LEMMA ItemIs ==
  ASSUME NEW x \in Items, Known(x), Orderly(log)
  PROVE  \/ x.kind = "event" /\ x.seq \in 1 .. Len(log)
         \/ x.kind = "snapshot" /\ SnapshotFits(x.snapshot)
         \/ x = Marker
<1>1. CASE x \in EventItems
  BY <1>1, LogIs DEF EventItems, Known
<1>2. CASE x \in SnapshotItems
  BY <1>2 DEF SnapshotItems, Known, SnapshotFits
<1> QED
  BY <1>1, <1>2 DEF Items

LEMMA ApplyItemFits ==
  ASSUME Orderly(log), NEW c, ClientFits(c), NEW x \in Items, Known(x)
  PROVE  /\ ClientFits(ApplyItem(c, x))
         /\ x.kind = "event" => ApplyItem(c, x) = ApplyEvent(c, x.seq)
         /\ x.kind = "snapshot" => ApplyItem(c, x) = ApplySnapshot(c, x.snapshot)
         /\ x.kind = "synchronized" => ApplyItem(c, x) = ApplyMarker(c)
<1>1. /\ x.kind = "event" => ApplyItem(c, x) = ApplyEvent(c, x.seq)
      /\ x.kind = "snapshot" => ApplyItem(c, x) = ApplySnapshot(c, x.snapshot)
      /\ x.kind = "synchronized" => ApplyItem(c, x) = ApplyMarker(c)
  BY DEF ApplyItem
<1>2. CASE x.kind = "event" /\ x.seq \in 1 .. Len(log)
  BY <1>1, <1>2, ApplyEventFits
<1>3. CASE x.kind = "snapshot" /\ SnapshotFits(x.snapshot)
  <2> DEFINE d == ApplySnapshot(c, x.snapshot)
  <2>1. d \in Clients /\ Saves(d) /\ d.seq = x.snapshot.seq
    BY <1>3, ApplySnapshotIs DEF SnapshotFits, ClientFits
  <2>2. ApplyItem(c, x) = d
    BY <1>1, <1>3
  <2> HIDE DEF d
  <2> QED
    BY <1>1, <1>3, <2>1, <2>2 DEF ClientFits, Saves, SnapshotFits
<1>4. CASE x = Marker
  <2> DEFINE d == ApplyMarker(c)
  <2>1. d \in Clients /\ SameView(c, d) /\ d.saving = c.saving
    BY ApplyMarkerIs DEF ClientFits
  <2>2. ApplyItem(c, x) = d
    BY <1>1, <1>4, MarkerIs
  <2> HIDE DEF d
  <2>3. ClientFits(ApplyItem(c, x))
    BY <2>1, <2>2 DEF ClientFits, SameView
  <2> QED
    BY <1>1, <2>3
<1> QED
  BY <1>1, <1>2, <1>3, <1>4, ItemIs

\* A view that shows as much, and saves as much, still fits.
LEMMA FitsStill ==
  ASSUME NEW c, NEW d \in Clients, ClientFits(c),
         d.seq = c.seq \/ d.seq = 0, d.saving = c.saving \/ Saves(d), Orderly(log)
  PROVE  ClientFits(d)
  BY LogIs DEF ClientFits, Saves

LEMMA BeginFits ==
  ASSUME Orderly(log), NEW c, ClientFits(c), NEW v \in Servers
  PROVE  /\ ClientFits(Begin(c, v)) /\ ClientFits(SetReady(Begin(c, v)))
         /\ Begin(c, v) \in Clients
<1> DEFINE d == Begin(c, v)
           e == SetReady(d)
<1>1. d \in Clients /\ d.saving = c.saving /\ (d.seq = c.seq \/ d.seq = 0)
  BY BeginIs DEF ClientFits, SameView
<1> HIDE DEF d
<1>2. ClientFits(d)
  BY <1>1, FitsStill
<1>3. e \in Clients /\ e.saving = d.saving /\ e.seq = d.seq
  BY <1>1, WordsChange DEF SameView
<1> HIDE DEF e
<1>4. ClientFits(e)
  BY <1>2, <1>3, FitsStill
<1> QED
  BY <1>1, <1>2, <1>4 DEF d, e

LEMMA FreshFits ==
  ASSUME Orderly(log), NEW s, SnapshotFits(s)
  PROVE  ClientFits(Fresh(s)) /\ ClientFits(SetDisconnected(Fresh(s)))
<1> DEFINE d == Fresh(s)
           e == SetDisconnected(d)
<1>1. d \in Clients /\ d.seq = s.seq /\ d.saving = NoSnapshot
  BY FreshIs DEF SnapshotFits
<1> HIDE DEF d
<1>2. ClientFits(d)
  BY <1>1, LogIs DEF ClientFits, SnapshotFits, NoSnapshot
<1>3. e \in Clients /\ e.saving = d.saving /\ e.seq = d.seq
  BY <1>1, WordsChange DEF SameView
<1> HIDE DEF e
<1>4. ClientFits(e)
  BY <1>2, <1>3, FitsStill
<1> QED
  BY <1>2, <1>4 DEF d, e

LEMMA NothingFits ==
  ASSUME Orderly(log)
  PROVE  SubFits(NoSub) /\ WireFits(<<>>) /\ SnapshotFits(NoSnapshot)
<1>1. NoSub \in Subs
  <2>1. 0 \in 0 .. MaxEvents /\ <<>> \in Seq(EventItems)
    BY FeedAssumption
  <2> QED
    BY <2>1 DEF NoSub, Subs
<1> QED
  BY <1>1, WireEmpty, NoSnapshotType, LogIs DEF SubFits, NoSub, SnapshotFits, NoSnapshot

\* A commit lengthens the log and leaves what it told before.
LEMMA CommitIs ==
  ASSUME Orderly(log), published \in 0 .. Len(log), Commit
  PROVE  /\ Orderly(log') /\ Len(log') = Len(log) + 1
         /\ \A i \in 1 .. Len(log) : log'[i] = log[i]
         /\ \A n \in 0 .. Len(log) : ThreadOf(log', n) = ThreadOf(log, n)
         /\ published = Len(log)
         /\ UNCHANGED <<published, conn, sub, wire, cl, cache, used>>
<1> DEFINE n == Len(log)
<1>1. PICK e \in Commits : log' = Append(log, e)
  BY DEF Commit
<1>2. /\ n < MaxEvents /\ published = n
      /\ UNCHANGED <<published, conn, sub, wire, cl, cache, used>>
  BY DEF Commit
<1>3. /\ log \in Logs /\ n \in Nat /\ DOMAIN log = 1 .. n
      /\ \A t \in DOMAIN ThreadAt(n) : t \in 1 .. n
  BY LogIs
<1>4. /\ e.kind = "delta" => Streams(log, e.of, n)
      /\ e.kind # "delta" => e.of = 0 \/ e.of \in DOMAIN ThreadAt(n)
      /\ e = [kind |-> e.kind, of |-> e.of] /\ e.kind \in Kinds
  BY <1>1 DEF Commits, Kinds
<1>5. e.of \in 0 .. MaxEvents
  <2>1. e.of = 0 \/ e.of \in DOMAIN ThreadAt(n)
    BY <1>4 DEF Streams, ThreadAt
  <2> QED
    BY <1>2, <1>3, <2>1, FeedAssumption
<1>6. e \in Events
  BY <1>4, <1>5 DEF Events
<1>7. /\ log' \in Seq(Events) /\ Len(log') = n + 1 /\ log'[n + 1] = e
      /\ \A i \in 1 .. n : log'[i] = log[i]
  BY <1>1, <1>3, <1>6, AppendProperties DEF Logs
<1>8. log' \in Logs /\ DOMAIN log' = 1 .. n + 1
  BY <1>2, <1>3, <1>7, LenProperties, FeedAssumption DEF Logs
<1>9. \A m \in 0 .. n : ThreadOf(log', m) = ThreadOf(log, m)
  BY <1>3, <1>7, <1>8, ThreadOfPrefix
<1>10. \A m \in 0 .. n : \A t : Streams(log, t, m) => Streams(log', t, m)
  <2> TAKE m \in 0 .. n
  <2>1. ThreadOf(log', m) = ThreadOf(log, m)
    BY <1>9
  <2> QED
    BY <2>1 DEF Streams
<1>11. \A s \in DOMAIN log' : log'[s].kind = "delta" => Streams(log', log'[s].of, s - 1)
  <2> TAKE s \in DOMAIN log'
  <2>1. CASE s = n + 1
    BY <1>3, <1>4, <1>7, <1>10, <2>1
  <2>2. CASE s # n + 1
    <3>1. s \in 1 .. n /\ s \in DOMAIN log /\ s - 1 \in 0 .. n /\ log'[s] = log[s]
      BY <1>3, <1>7, <1>8, <2>2
    <3>2. log[s].kind = "delta" => Streams(log, log[s].of, s - 1)
      BY <3>1 DEF Orderly
    <3> QED
      BY <1>10, <3>1, <3>2
  <2> QED
    BY <2>1, <2>2
<1>12. Orderly(log')
  BY <1>8, <1>11 DEF Orderly, Logs, Events
<1> QED
  BY <1>2, <1>7, <1>9, <1>12

LEMMA CommitFits == TInv /\ Commit => TInv'
<1> SUFFICES ASSUME TInv, Commit PROVE TInv'
  OBVIOUS
<1>1. /\ Orderly(log') /\ Len(log') = Len(log) + 1 /\ Len(log) \in Nat
      /\ published = Len(log) /\ published' = published /\ conn' = conn /\ sub' = sub
      /\ wire' = wire /\ cl' = cl /\ cache' = cache /\ used' = used
  BY CommitIs, LogIs DEF TInv, ServerFits
<1>2. ServerFits'
  BY <1>1 DEF TInv, ServerFits
<1>3. SubFits(sub)'
  <2>1. /\ sub \in Subs /\ sub.after <= Len(log) /\ sub.head <= Len(log)
        /\ sub.after \in Int /\ sub.head \in Int
    BY FeedAssumption DEF TInv, SubFits, Subs
  <2>2. ASSUME NEW i \in DOMAIN sub.buffer PROVE sub.buffer[i].seq <= Len(log) + 1
    <3>1. sub.buffer[i] \in EventItems /\ sub.buffer[i].seq <= Len(log)
      BY <2>1, <2>2 DEF TInv, SubFits, Subs
    <3>2. sub.buffer[i].seq \in Int
      BY <3>1, FeedAssumption DEF EventItems
    <3> QED
      BY <1>1, <3>1, <3>2
  <2> QED
    BY <1>1, <2>1, <2>2 DEF SubFits
<1>4. WireFits(wire)'
  <2>1. wire \in Seq(Items)
    BY DEF TInv, WireFits
  <2>2. ASSUME NEW i \in DOMAIN wire PROVE Known(wire[i])'
    <3>1. wire[i] \in Items /\ Known(wire[i])
      BY <2>2 DEF TInv, WireFits
    <3>2. CASE wire[i].kind = "event" /\ wire[i].seq \in 1 .. Len(log)
      BY <1>1, <3>2 DEF Known
    <3>3. CASE wire[i].kind = "snapshot" /\ SnapshotFits(wire[i].snapshot)
      BY <1>1, <3>3, FeedAssumption DEF Known, SnapshotFits, Snapshots
    <3>4. CASE wire[i] = Marker
      BY <1>1, <3>4 DEF Known, Marker
    <3> QED
      BY <3>1, <3>2, <3>3, <3>4, ItemIs DEF TInv, ServerFits
  <2> QED
    BY <1>1, <2>1, <2>2 DEF WireFits
<1>5. ClientFits(cl)' /\ SnapshotFits(cache)'
  <2>1. cl.seq \in Int /\ cl.saving.seq \in Int /\ cache.seq \in Int
    BY FeedAssumption DEF TInv, ClientFits, Clients, SnapshotFits, Snapshots
  <2> QED
    BY <1>1, <2>1 DEF TInv, ClientFits, SnapshotFits
<1> QED
  BY <1>2, <1>3, <1>4, <1>5 DEF TInv

\* When the log stays as it is, each part may be looked at by itself.
LEMMA StillFits ==
  ASSUME log' = log, ServerFits, published' \in 0 .. Len(log), conn' \in Conns,
         used' \in [subscriptions: Nat, views: Nat],
         SubFits(sub'), WireFits(wire'), ClientFits(cl'), SnapshotFits(cache')
  PROVE  TInv'
<1>1. ServerFits'
  BY DEF ServerFits
<1>2. SubFits(sub)'
  BY DEF SubFits
<1>3. WireFits(wire)'
  BY DEF WireFits, Known
<1>4. ClientFits(cl)' /\ SnapshotFits(cache)'
  BY DEF ClientFits, SnapshotFits
<1> QED
  BY <1>1, <1>2, <1>3, <1>4 DEF TInv

\* The subscription goes live: what it found, then what it buffered, then the marker.
LEMMA GoLiveIs ==
  ASSUME TInv, NEW items, WireFits(items), NEW head \in 0 .. Len(log), GoLive(items, head)
  PROVE  /\ WireFits(wire') /\ SubFits(sub')
         /\ sub'.phase = "live" /\ sub'.head = head /\ sub'.after = sub.after
         /\ sub'.attached = sub.attached /\ sub'.marker = sub.marker
         /\ sub'.buffer = <<>>
<1> DEFINE last == IF sub.marker THEN <<Marker>> ELSE <<>>
<1>1. WireFits(wire) /\ WireFits(sub.buffer) /\ WireFits(last)
  BY BufferIs, WireEmpty, WireOne, MarkerIs DEF TInv
<1>2. wire' = wire \o items \o sub.buffer \o last
  BY DEF GoLive
<1> HIDE DEF last
<1>3. WireFits(wire \o items)
  BY <1>1, WireConcat
<1>4. WireFits((wire \o items) \o sub.buffer)
  BY <1>1, <1>3, WireConcat
<1>5. WireFits(wire')
  BY <1>1, <1>2, <1>4, WireConcat
<1>6. sub' = [sub EXCEPT !.phase = "live", !.buffer = <<>>, !.head = head]
  BY DEF GoLive
<1>7. sub \in Subs /\ head \in 0 .. MaxEvents /\ <<>> \in Seq(EventItems) /\ head <= Len(log)
  BY LogIs, FeedAssumption DEF TInv, SubFits, ServerFits
<1>8. /\ sub' \in Subs
      /\ sub'.phase = "live" /\ sub'.head = head /\ sub'.after = sub.after
      /\ sub'.attached = sub.attached /\ sub'.marker = sub.marker
      /\ sub'.buffer = <<>>
  BY <1>6, <1>7 DEF Subs
<1> QED
  BY <1>5, <1>7, <1>8 DEF SubFits, TInv

\* What a replay sends: events of the thread after the cursor, every one up to the
\* tail of the store that was read, each after all before it.
LEMMA ReplayIs ==
  ASSUME TInv, Replay
  PROVE  \E items :
           /\ WireFits(items) /\ GoLive(items, sub.head)
           /\ UNCHANGED <<log, published, conn, cl, cache, used>>
           /\ \A i \in 1 .. Len(items) : items[i].kind = "event"
           /\ \A d \in sub.after + 1 .. sub.head :
                Told(d) => \E i \in 1 .. Len(items) : items[i].seq = d
           /\ \A i \in 1 .. Len(items) : \A d \in sub.after + 1 .. items[i].seq - 1 :
                Told(d) => \E j \in 1 .. i - 1 : items[j].seq = d
<1> DEFINE N == Len(log)
           a == sub.after
           stream == {i \in a + 1 .. N : log[i].kind # "other"}
           Upto(i) == {j \in stream : j <= i}
           read == {i \in stream : Cardinality(Upto(i)) <= sub.head - a}
           D == {i \in read : log[i].kind \in Detail}
           q == Ascending(D, N)
           items == [i \in 1 .. Len(q) |-> EventItem(q[i])]
<1>1. GoLive(items, sub.head) /\ UNCHANGED <<log, published, conn, cl, cache, used>>
  BY DEF Replay
<1>2. N \in Nat /\ a \in Nat /\ sub.head \in Nat /\ sub.head <= N /\ Orderly(log)
  BY LogIs, FeedAssumption DEF TInv, ServerFits, SubFits, Subs
<1>3. /\ stream \subseteq a + 1 .. N /\ read \subseteq stream /\ D \subseteq read
      /\ D \in SUBSET Nat /\ \A i \in read : i \in Nat /\ i \in 1 .. N
  BY <1>2
<1>4. ASSUME NEW i \in stream
      PROVE  /\ IsFiniteSet(Upto(i)) /\ Cardinality(Upto(i)) \in Nat
             /\ Cardinality(Upto(i)) <= i - a
  <2>1. /\ IsFiniteSet(a + 1 .. i)
        /\ Cardinality(a + 1 .. i) = IF a + 1 > i THEN 0 ELSE i - (a + 1) + 1
    <3>1. a + 1 \in Int /\ i \in Int
      BY <1>2, <1>3
    <3> QED
      BY <3>1, FS_Interval, Zenon
  <2>2. Upto(i) \subseteq a + 1 .. i
    BY <1>2, <1>3
  <2>3. /\ IsFiniteSet(Upto(i)) /\ Cardinality(Upto(i)) <= Cardinality(a + 1 .. i)
    BY <2>1, <2>2, FS_Subset
  <2>4. Cardinality(Upto(i)) \in Nat
    BY <2>3, FS_CardinalityType
  <2>5. i \in a + 1 .. N
    BY <1>3
  <2> QED
    BY <1>2, <2>1, <2>3, <2>4, <2>5
<1>a. D \in SUBSET Nat /\ N \in Nat
  BY <1>2, <1>3
<1> HIDE DEF D
<1>b. /\ q \in Seq(Nat)
      /\ \A i \in 1 .. Len(q) : q[i] \in D /\ q[i] \in 1 .. N
      /\ \A d \in D : d \in 1 .. N => \E i \in 1 .. Len(q) : q[i] = d
      /\ \A i \in 1 .. Len(q) : \A d \in D :
           d \in 1 .. N /\ d < q[i] => \E j \in 1 .. i - 1 : q[j] = d
  BY <1>a, AscendingIs, Zenon
<1>5. /\ q \in Seq(Nat) /\ Len(q) \in Nat
      /\ \A i \in 1 .. Len(q) : q[i] \in D /\ q[i] \in 1 .. N
      /\ \A d \in D : d \in 1 .. N => \E i \in 1 .. Len(q) : q[i] = d
      /\ \A i \in 1 .. Len(q) : \A d \in D :
           d \in 1 .. N /\ d < q[i] => \E j \in 1 .. i - 1 : q[j] = d
  <2>1. Len(q) \in Nat
    BY <1>b
  <2> QED
    BY <1>b, <2>1, Zenon
<1> HIDE DEF q
<1>6. \A i \in 1 .. Len(q) : /\ EventItem(q[i]) \in Items /\ Known(EventItem(q[i]))
                             /\ EventItem(q[i]).kind = "event" /\ EventItem(q[i]).seq = q[i]
  BY <1>2, <1>5, EventItemIs
<1>7. /\ Len(items) = Len(q) /\ DOMAIN items = 1 .. Len(q) /\ items \in Seq(Items)
      /\ \A i \in 1 .. Len(q) : items[i] = EventItem(q[i])
  BY <1>5, <1>6
<1> HIDE DEF items
<1>8. WireFits(items)
  BY <1>6, <1>7 DEF WireFits
<1>9. ASSUME NEW d \in a + 1 .. sub.head, Told(d)
      PROVE  \E i \in 1 .. Len(items) : items[i].seq = d
  <2>1. d \in stream /\ d \in 1 .. N /\ log[d].kind \in Detail
    BY <1>2, <1>9 DEF Told, Detail
  <2>2. Cardinality(Upto(d)) <= d - a /\ Cardinality(Upto(d)) \in Nat
    BY <1>4, <2>1
  <2>3. Cardinality(Upto(d)) <= sub.head - a
    BY <1>2, <1>9, <2>2
  <2>4. d \in D
    BY <2>1, <2>3 DEF D
  <2>5. PICK i \in 1 .. Len(q) : q[i] = d
    BY <1>5, <2>1, <2>4
  <2> QED
    BY <1>6, <1>7, <2>5
<1>10. ASSUME NEW i \in 1 .. Len(items), NEW d \in a + 1 .. items[i].seq - 1, Told(d)
       PROVE  \E j \in 1 .. i - 1 : items[j].seq = d
  <2>1. i \in 1 .. Len(q) /\ items[i].seq = q[i] /\ q[i] \in D /\ q[i] \in 1 .. N
    BY <1>5, <1>6, <1>7
  <2>2. d \in stream /\ d \in 1 .. N /\ d < q[i] /\ log[d].kind \in Detail
    BY <1>2, <1>10, <2>1 DEF Told, Detail
  <2>3. q[i] \in stream /\ Cardinality(Upto(q[i])) <= sub.head - a
    BY <2>1 DEF D
  <2>4. Upto(d) \subseteq Upto(q[i])
    BY <1>2, <2>1, <2>2
  <2>5. /\ Cardinality(Upto(d)) <= Cardinality(Upto(q[i]))
        /\ Cardinality(Upto(d)) \in Nat /\ Cardinality(Upto(q[i])) \in Nat
    BY <1>4, <2>2, <2>3, <2>4, FS_Subset
  <2>6. Cardinality(Upto(d)) <= sub.head - a
    BY <1>2, <2>3, <2>5
  <2>7. d \in D
    BY <2>2, <2>6 DEF D
  <2>8. PICK j \in 1 .. i - 1 : q[j] = d
    BY <1>5, <2>1, <2>2, <2>7
  <2>9. j \in 1 .. Len(q)
    BY <1>5, <2>1
  <2> QED
    BY <1>6, <1>7, <2>8, <2>9
<1>11. \A i \in 1 .. Len(items) : items[i].kind = "event"
  BY <1>6, <1>7
<1> QED
  BY <1>1, <1>8, <1>9, <1>10, <1>11

LEMMA ServerFitsStill == TInv /\ ServerStep => TInv'
<1> SUFFICES ASSUME TInv, ServerStep PROVE TInv'
  OBVIOUS
<1>1. /\ ServerFits /\ SubFits(sub) /\ WireFits(wire) /\ ClientFits(cl)
      /\ SnapshotFits(cache) /\ Orderly(log) /\ published \in 0 .. Len(log)
      /\ conn \in Conns /\ used \in [subscriptions: Nat, views: Nat]
      /\ Len(log) \in 0 .. MaxEvents
  BY LogIs DEF TInv, ServerFits
<1>2. CASE Publish
  <2> DEFINE item == EventItem(published + 1)
  <2>1. /\ published + 1 \in 1 .. Len(log) /\ published' = published + 1
        /\ UNCHANGED <<log, conn, cl, cache, used>>
        /\ wire' = wire \/ wire' = Append(wire, item)
        /\ sub' = sub \/ sub' = [sub EXCEPT !.buffer = Append(sub.buffer, item)]
    BY <1>1, <1>2 DEF Publish
  <2>2. /\ item \in EventItems /\ item \in Items /\ Known(item)
        /\ item.kind = "event" /\ item.seq <= Len(log)
    BY <1>1, <2>1, EventItemIs
  <2> HIDE DEF item
  <2>a. WireFits(Append(wire, item))
    BY <1>1, <2>2, WireAppend
  <2>3. WireFits(wire')
    BY <1>1, <2>1, <2>a, Zenon
  <2>4. SubFits([sub EXCEPT !.buffer = Append(sub.buffer, item)])
    <3> DEFINE b == Append(sub.buffer, item)
    <3>1. sub.buffer \in Seq(EventItems) /\ sub \in Subs
      BY <1>1 DEF SubFits, Subs
    <3>2. /\ b \in Seq(EventItems) /\ Len(b) = Len(sub.buffer) + 1
          /\ b[Len(sub.buffer) + 1] = item
          /\ \A i \in 1 .. Len(sub.buffer) : b[i] = sub.buffer[i]
      BY <2>2, <3>1, AppendProperties
    <3>3. /\ DOMAIN b = 1 .. Len(b) /\ DOMAIN sub.buffer = 1 .. Len(sub.buffer)
          /\ Len(sub.buffer) \in Nat
      BY <3>1, <3>2, LenProperties
    <3> HIDE DEF b
    <3>4. \A i \in DOMAIN b : b[i].seq <= Len(log)
      <4> TAKE i \in DOMAIN b
      <4>1. CASE i = Len(sub.buffer) + 1
        BY <2>2, <3>2, <4>1
      <4>2. CASE i # Len(sub.buffer) + 1
        <5>1. i \in 1 .. Len(sub.buffer)
          BY <3>2, <3>3, <4>2
        <5>2. b[i] = sub.buffer[i] /\ sub.buffer[i].seq <= Len(log)
          BY <1>1, <3>2, <3>3, <5>1 DEF SubFits
        <5> QED
          BY <5>2
      <4> QED
        BY <4>1, <4>2
    <3>5. LET s == [sub EXCEPT !.buffer = b]
          IN  s \in Subs /\ s.after = sub.after /\ s.head = sub.head /\ s.buffer = b
      BY <3>1, <3>2 DEF Subs
    <3> QED
      BY <1>1, <3>4, <3>5 DEF SubFits, b
  <2>5. SubFits(sub')
    BY <1>1, <2>1, <2>4
  <2> QED
    BY <1>1, <2>1, <2>3, <2>5, StillFits
<1>3. CASE Attach
  <2>1. /\ sub' = [sub EXCEPT !.attached = TRUE]
        /\ UNCHANGED <<log, published, conn, wire, cl, cache, used>>
    BY <1>3 DEF Attach
  <2>2. SubFits(sub')
    BY <1>1, <2>1 DEF SubFits, Subs
  <2> QED
    BY <1>1, <2>1, <2>2, StillFits
<1>4. CASE ReadHead
  <2>0. UNCHANGED <<log, published, conn, cache, used>>
    BY <1>4 DEF ReadHead
  <2>1. CASE sub' = [sub EXCEPT !.phase = "replay", !.head = Len(log)] /\ UNCHANGED <<wire, cl>>
    <3>a. sub \in Subs
      BY <1>1 DEF SubFits
    <3>b. /\ sub' \in Subs /\ sub'.after = sub.after /\ sub'.head = Len(log)
          /\ sub'.buffer = sub.buffer
      BY <1>1, <2>1, <3>a DEF Subs
    <3>c. Len(log) <= Len(log)
      BY <1>1, FeedAssumption
    <3>1. SubFits(sub')
      BY <1>1, <3>b, <3>c DEF SubFits
    <3> QED
      BY <1>1, <2>0, <2>1, <3>1, StillFits
  <2>2. CASE /\ GoLive(<<[kind |-> "snapshot", snapshot |-> FirstPage(conn.server)]>>, Len(log))
             /\ UNCHANGED cl
    <3> DEFINE item == [kind |-> "snapshot", snapshot |-> FirstPage(conn.server)]
    <3>1. item \in Items /\ Known(item)
      BY <1>1, FirstPageIs DEF SnapshotFits, SnapshotItems, Items, Known
    <3>2. GoLive(<<item>>, Len(log))
      BY <2>2
    <3> HIDE DEF item
    <3>3. WireFits(<<item>>) /\ Len(log) \in 0 .. Len(log)
      BY <1>1, <3>1, WireOne
    <3>4. WireFits(wire') /\ SubFits(sub')
      BY <3>2, <3>3, GoLiveIs
    <3> QED
      BY <1>1, <2>0, <2>2, <3>4, StillFits
  <2>3. CASE sub' = NoSub /\ cl' = SetStreamError(cl) /\ UNCHANGED wire
    <3>1. cl' \in Clients /\ cl'.seq = cl.seq /\ cl'.saving = cl.saving
      BY <1>1, <2>3, WordsChange DEF ClientFits, SameView
    <3>2. ClientFits(cl')
      BY <1>1, <3>1, FitsStill
    <3> QED
      BY <1>1, <2>0, <2>3, <3>2, NothingFits, StillFits
  <2> QED
    BY <1>4, <2>1, <2>2, <2>3 DEF ReadHead
<1>5. CASE Replay
  <2>1. PICK items : /\ WireFits(items) /\ GoLive(items, sub.head)
                     /\ UNCHANGED <<log, published, conn, cl, cache, used>>
    BY <1>5, ReplayIs
  <2>2. sub.head \in 0 .. Len(log)
    BY <1>1, FeedAssumption DEF SubFits, Subs
  <2>3. WireFits(wire') /\ SubFits(sub')
    BY <2>1, <2>2, GoLiveIs
  <2> QED
    BY <1>1, <2>1, <2>3, StillFits
<1> QED
  BY <1>2, <1>3, <1>4, <1>5 DEF ServerStep

LEMMA ConnectionFits == TInv /\ (Connect \/ Disconnect \/ Reconnect \/ Establish) => TInv'
<1> SUFFICES ASSUME TInv, Connect \/ Disconnect \/ Reconnect \/ Establish PROVE TInv'
  OBVIOUS
<1>1. /\ ServerFits /\ SubFits(sub) /\ WireFits(wire) /\ ClientFits(cl)
      /\ SnapshotFits(cache) /\ Orderly(log) /\ published \in 0 .. Len(log)
      /\ conn \in Conns /\ used \in [subscriptions: Nat, views: Nat]
      /\ cl \in Clients /\ conn.server \in Servers
  BY DEF TInv, ServerFits, ClientFits, Conns
<1> DEFINE idle(c) == [c EXCEPT !.phase = "idle"]
<1>2. \A c \in Clients : /\ idle(c) \in Clients /\ idle(c).seq = c.seq
                         /\ idle(c).saving = c.saving
  BY DEF Clients
<1>3. /\ SetSynchronizing(cl) \in Clients /\ SetSynchronizing(cl).seq = cl.seq
      /\ SetSynchronizing(cl).saving = cl.saving
  BY <1>1, WordsChange DEF SameView
<1>4. /\ SetDisconnected(cl) \in Clients /\ SetDisconnected(cl).seq = cl.seq
      /\ SetDisconnected(cl).saving = cl.saving
  BY <1>1, WordsChange DEF SameView
<1>5. ClientFits(SetSynchronizing(cl))
  BY <1>1, <1>3, FitsStill
<1>6. ClientFits(idle(SetSynchronizing(cl))) /\ ClientFits(idle(SetDisconnected(cl)))
  BY <1>1, <1>2, <1>3, <1>4, FitsStill
<1>7. \A v \in Servers : [phase |-> "prepared", server |-> v] \in Conns
  BY DEF Conns
<1>8. /\ [conn EXCEPT !.phase = "up"] \in Conns /\ [conn EXCEPT !.phase = "down"] \in Conns
      /\ [used EXCEPT !.subscriptions = used.subscriptions + 1] \in [subscriptions: Nat, views: Nat]
  BY <1>1 DEF Conns
<1>9. CASE Connect
  <2>1. /\ conn' \in Conns /\ used' \in [subscriptions: Nat, views: Nat]
        /\ cl' = SetSynchronizing(cl) /\ UNCHANGED <<log, published, sub, wire, cache>>
    BY <1>7, <1>8, <1>9 DEF Connect
  <2> QED
    BY <1>1, <1>5, <2>1, StillFits
<1>10. CASE Establish
  <2>1. /\ conn' \in Conns /\ cl' = SetReady(Begin(cl, conn.server))
        /\ UNCHANGED <<log, published, sub, wire, cache, used>>
    BY <1>8, <1>10 DEF Establish
  <2>2. ClientFits(cl')
    BY <1>1, <2>1, BeginFits
  <2> QED
    BY <1>1, <2>1, <2>2, StillFits
<1>11. CASE Disconnect
  <2>1. /\ conn' \in Conns /\ cl' = idle(SetDisconnected(cl)) /\ sub' = NoSub /\ wire' = <<>>
        /\ UNCHANGED <<log, published, cache, used>>
    BY <1>8, <1>11 DEF Disconnect
  <2> HIDE DEF idle
  <2> QED
    BY <1>1, <1>6, <2>1, NothingFits, StillFits
<1>12. CASE Reconnect
  <2>1. /\ conn' \in Conns /\ used' \in [subscriptions: Nat, views: Nat]
        /\ cl' = idle(SetSynchronizing(cl)) /\ sub' = NoSub /\ wire' = <<>>
        /\ UNCHANGED <<log, published, cache>>
    BY <1>7, <1>8, <1>12 DEF Reconnect
  <2> HIDE DEF idle
  <2> QED
    BY <1>1, <1>6, <2>1, NothingFits, StillFits
<1> QED
  BY <1>9, <1>10, <1>11, <1>12

\* The steps of the older pages and of the save, which leave the stream alone.
LEMMA LoadOlderTurnsIs ==
  ASSUME NEW c \in Clients, c = cl, LoadOlderTurns
  PROVE  /\ cl' \in Clients /\ SameWord(c, cl')
         /\ cl'.has = c.has /\ cl'.thread = c.thread /\ cl'.seq = c.seq
         /\ SameCut(c.page, cl'.page) /\ cl'.saving = c.saving /\ cl'.parked = c.parked
         /\ c.asked.phase = "none" /\ c.page.windowed /\ c.page.more
         /\ cl'.asked.phase = "asked" /\ cl'.asked.cursor = c.page.cursor
         /\ cl'.asked.snapshot = NoSnapshot
         /\ UNCHANGED <<log, published, conn, sub, wire, cache, used>>
<1> DEFINE p == [c.page EXCEPT !.loading = TRUE]
           a == [NoFetch EXCEPT !.phase = "asked", !.cursor = c.page.cursor]
<1>1. /\ c.asked.phase = "none" /\ c.page.windowed /\ c.page.more
      /\ UNCHANGED <<log, published, conn, sub, wire, cache, used>>
  BY DEF LoadOlderTurns
<1>2. p \in Pages /\ SameCut(c.page, p)
  BY DEF Clients, Pages, SameCut
<1>3. a \in Fetches /\ a.phase = "asked" /\ a.cursor = c.page.cursor /\ a.snapshot = NoSnapshot
  <2>1. c.page.cursor \in 0 .. MaxEvents
    BY DEF Clients, Pages
  <2> QED
    BY <2>1, NoSnapshotType DEF NoFetch, Fetches
<1>4. cl' = [c EXCEPT !.page = p, !.asked = a]
  BY DEF LoadOlderTurns, Clients
<1> HIDE DEF p, a
<1>5. /\ cl' \in Clients /\ SameWord(c, cl')
      /\ cl'.has = c.has /\ cl'.thread = c.thread /\ cl'.seq = c.seq
      /\ cl'.saving = c.saving /\ cl'.parked = c.parked /\ cl'.page = p /\ cl'.asked = a
  BY <1>2, <1>3, <1>4 DEF Clients, SameWord
<1> QED
  BY <1>1, <1>2, <1>3, <1>5

LEMMA AnswerOlderTurnsIs ==
  ASSUME Orderly(log), NEW c \in Clients, c = cl, AnswerOlderTurns
  PROVE  /\ cl' \in Clients /\ SameWord(c, cl') /\ SameView(c, cl')
         /\ cl'.saving = c.saving /\ cl'.parked = c.parked
         /\ c.asked.phase = "asked" /\ cl'.asked.phase = "answered"
         /\ cl'.asked.cursor = c.asked.cursor /\ cl'.asked.fresh = c.asked.fresh
         /\ cl'.asked.snapshot = NoSnapshot \/ cl'.asked.snapshot = Page(c.asked.cursor)
         /\ UNCHANGED <<log, published, conn, sub, wire, cache, used>>
<1>1. /\ c.asked.phase = "asked"
      /\ UNCHANGED <<log, published, conn, sub, wire, cache, used>>
  BY DEF AnswerOlderTurns
<1>2. PICK s : /\ s = NoSnapshot \/ s = Page(c.asked.cursor)
               /\ cl' = [c EXCEPT !.asked.phase = "answered", !.asked.snapshot = s]
  BY DEF AnswerOlderTurns
<1>3. c.asked \in Fetches
  BY DEF Clients
<1>4. c.asked.cursor \in Nat
  BY <1>3, FeedAssumption DEF Fetches
<1>5. s \in Snapshots
  BY <1>2, <1>4, PageIs, NoSnapshotType DEF SnapshotFits
<1> DEFINE a == [c.asked EXCEPT !.phase = "answered", !.snapshot = s]
<1>6. /\ a \in Fetches /\ a.phase = "answered" /\ a.snapshot = s
      /\ a.cursor = c.asked.cursor /\ a.fresh = c.asked.fresh
  BY <1>3, <1>5 DEF Fetches
<1>7. cl' = [c EXCEPT !.asked = a]
  BY <1>2 DEF Clients
<1> HIDE DEF a
<1>8. /\ cl' \in Clients /\ SameWord(c, cl') /\ SameView(c, cl')
      /\ cl'.saving = c.saving /\ cl'.parked = c.parked /\ cl'.asked = a
  BY <1>6, <1>7 DEF Clients, SameWord, SameView
<1> QED
  BY <1>1, <1>2, <1>6, <1>8

LEMMA TakeOlderTurnsIs ==
  ASSUME NEW c \in Clients, c = cl, TakeOlderTurns
  PROVE  /\ cl' \in Clients /\ SameWord(c, cl') /\ cl'.has = c.has /\ cl'.seq = c.seq
         /\ c.asked.phase = "answered" /\ cl'.asked = NoFetch
         /\ UNCHANGED <<log, published, conn, sub, wire, cache, used>>
         /\ \/ /\ cl'.thread = c.thread /\ SameCut(c.page, cl'.page)
               /\ cl'.page.loading => ~c.has /\ cl'.page = c.page
               /\ cl'.parked = c.parked /\ cl'.saving = c.saving
            \/ /\ c.asked.fresh /\ c.asked.snapshot # NoSnapshot
               /\ c.asked.snapshot.seq >= c.seq /\ c.asked.snapshot.watermark > c.seq
               /\ cl'.thread = c.thread /\ cl'.page = c.page /\ cl'.saving = c.saving
               /\ cl'.parked = [on |-> TRUE, fresh |-> TRUE, snapshot |-> c.asked.snapshot]
            \/ /\ c.has /\ c.asked.fresh /\ c.asked.snapshot # NoSnapshot
               /\ c.asked.snapshot.seq >= c.seq /\ c.asked.snapshot.watermark <= c.seq
               /\ cl'.thread = MergeRows(c.thread, c.asked.snapshot.thread)
               /\ cl'.page = c.asked.snapshot.page /\ cl'.parked = c.parked /\ Saves(cl')
<1> DEFINE s == c.asked.snapshot
           done == [c EXCEPT !.asked = NoFetch]
           q == [c.page EXCEPT !.loading = FALSE]
           dropped == [done EXCEPT !.page = q]
           k == [on |-> TRUE, fresh |-> TRUE, snapshot |-> s]
           waits == [done EXCEPT !.parked = k]
           merged == MergeOlderPage(done, s)
<1>1. /\ c.asked.phase = "answered"
      /\ UNCHANGED <<log, published, conn, sub, wire, cache, used>>
      /\ cl' = IF s = NoSnapshot \/ ~c.asked.fresh \/ s.seq < c.seq
               THEN [done EXCEPT !.page.loading = FALSE]
               ELSE IF s.watermark > c.seq THEN waits ELSE merged
  BY DEF TakeOlderTurns
<1>2. /\ s \in Snapshots /\ c.page \in Pages /\ c.seq \in Int /\ c.asked.fresh \in BOOLEAN
  <2>1. c.asked \in Fetches /\ c.page \in Pages /\ c.seq \in 0 .. MaxEvents
    BY DEF Clients
  <2> QED
    BY <2>1, FeedAssumption DEF Fetches
<1>3. s.seq \in Int /\ s.watermark \in Int
  BY <1>2, FeedAssumption DEF Snapshots
<1>4. q \in Pages /\ SameCut(c.page, q) /\ ~q.loading /\ k \in Parks
  BY <1>2 DEF Pages, SameCut, Parks
<1>5. /\ done \in Clients /\ SameWord(c, done) /\ SameView(c, done)
      /\ done.parked = c.parked /\ done.saving = c.saving /\ done.asked = NoFetch
  BY NoSnapshotType DEF Clients, SameWord, SameView
<1>6. [done EXCEPT !.page.loading = FALSE] = dropped
  BY DEF Clients
<1> HIDE DEF done, q, k, s
<1>7. /\ dropped \in Clients /\ SameWord(c, dropped) /\ dropped.has = c.has
      /\ dropped.seq = c.seq /\ dropped.thread = c.thread /\ dropped.page = q
      /\ dropped.parked = c.parked /\ dropped.saving = c.saving /\ dropped.asked = NoFetch
  BY <1>4, <1>5 DEF Clients, SameWord, SameView
<1>8. /\ waits \in Clients /\ SameWord(c, waits) /\ waits.has = c.has
      /\ waits.seq = c.seq /\ waits.thread = c.thread /\ waits.page = c.page
      /\ waits.parked = k /\ waits.saving = c.saving /\ waits.asked = NoFetch
  BY <1>4, <1>5 DEF Clients, SameWord, SameView
<1>9. /\ merged \in Clients /\ SameWord(done, merged) /\ SameWait(done, merged)
      /\ merged.has = done.has /\ merged.seq = done.seq
      /\ done.has => /\ merged.thread = MergeRows(done.thread, s.thread)
                     /\ merged.page = s.page /\ Saves(merged)
      /\ ~done.has => merged = done
  BY <1>2, <1>5, MergeOlderPageIs
<1> HIDE DEF dropped, waits, merged
<1>10. CASE s = NoSnapshot \/ ~c.asked.fresh \/ s.seq < c.seq
  BY <1>1, <1>4, <1>6, <1>7, <1>10
<1>11. CASE /\ ~(s = NoSnapshot \/ ~c.asked.fresh \/ s.seq < c.seq)
            /\ s.watermark > c.seq
  <2>1. cl' = waits
    BY <1>1, <1>11
  <2>2. s.seq >= c.seq
    BY <1>2, <1>3, <1>11
  <2> QED
    BY <1>1, <1>8, <1>11, <2>1, <2>2 DEF k, s
<1>12. CASE /\ ~(s = NoSnapshot \/ ~c.asked.fresh \/ s.seq < c.seq)
            /\ ~(s.watermark > c.seq)
  <2>1. cl' = merged
    BY <1>1, <1>12
  <2>2. s.seq >= c.seq /\ s.watermark <= c.seq
    BY <1>2, <1>3, <1>12
  <2>3. CASE c.has
    BY <1>1, <1>5, <1>9, <1>12, <2>1, <2>2, <2>3 DEF SameWord, SameWait, SameView, s
  <2>4. CASE ~c.has
    BY <1>1, <1>5, <1>9, <2>1, <2>4 DEF SameWord, SameView, SameCut
  <2> QED
    BY <2>3, <2>4
<1> QED
  BY <1>10, <1>11, <1>12

LEMMA SaveIs ==
  ASSUME NEW c \in Clients, c = cl, Save
  PROVE  /\ cl' \in Clients /\ SameWord(c, cl') /\ SameView(c, cl') /\ SameWait(c, cl')
         /\ cl'.saving = NoSnapshot /\ cache' \in {cache, c.saving}
         /\ UNCHANGED <<log, published, conn, sub, wire, used>>
  BY NoSnapshotType DEF Save, Clients, SameWord, SameView, SameWait

LEMMA ClientFitsStill ==
  TInv /\ (LoadOlderTurns \/ AnswerOlderTurns \/ TakeOlderTurns \/ Save) =>
    /\ TInv' /\ SameWord(cl, cl') /\ cl'.seq = cl.seq /\ cl'.has = cl.has
    /\ UNCHANGED <<log, published, conn, sub, wire, used>>
<1> SUFFICES ASSUME TInv, LoadOlderTurns \/ AnswerOlderTurns \/ TakeOlderTurns \/ Save
             PROVE  /\ TInv' /\ SameWord(cl, cl') /\ cl'.seq = cl.seq /\ cl'.has = cl.has
                    /\ UNCHANGED <<log, published, conn, sub, wire, used>>
  OBVIOUS
<1>1. /\ ServerFits /\ SubFits(sub) /\ WireFits(wire) /\ ClientFits(cl)
      /\ SnapshotFits(cache) /\ Orderly(log) /\ published \in 0 .. Len(log)
      /\ conn \in Conns /\ used \in [subscriptions: Nat, views: Nat] /\ cl \in Clients
  BY DEF TInv, ServerFits, ClientFits
<1>2. /\ cl' \in Clients /\ SameWord(cl, cl') /\ cl'.seq = cl.seq /\ cl'.has = cl.has
      /\ cl'.saving = cl.saving \/ Saves(cl') \/ cl'.saving = NoSnapshot
      /\ cache' = cache \/ cache' = cl.saving
      /\ UNCHANGED <<log, published, conn, sub, wire, used>>
  <2>1. CASE LoadOlderTurns
    BY <1>1, <2>1, LoadOlderTurnsIs
  <2>2. CASE AnswerOlderTurns
    BY <1>1, <2>2, AnswerOlderTurnsIs DEF SameView
  <2>3. CASE TakeOlderTurns
    BY <1>1, <2>3, TakeOlderTurnsIs
  <2>4. CASE Save
    BY <1>1, <2>4, SaveIs DEF SameView
  <2> QED
    BY <2>1, <2>2, <2>3, <2>4
<1>3. ClientFits(cl')
  <2>1. CASE cl'.saving = NoSnapshot
    BY <1>1, <1>2, <2>1, LogIs DEF ClientFits, NoSnapshot
  <2> QED
    BY <1>1, <1>2, <2>1, FitsStill
<1>4. SnapshotFits(cache')
  BY <1>1, <1>2 DEF SnapshotFits, ClientFits, Clients
<1> QED
  BY <1>1, <1>2, <1>3, <1>4, StillFits

\* The steps that begin, or end, what the stream feeds.
LEMMA SubscribeIs ==
  ASSUME TInv, Subscribe
  PROVE  /\ conn.phase = "up" /\ cl.phase = "loading"
         /\ UNCHANGED <<log, published, conn, wire, cache, used>>
         /\ ClientFits(cl') /\ SubFits(sub')
         /\ \E l \in Clients :
              /\ ClientFits(l) /\ cl' = Ask(l, conn.server) /\ sub' = Opened(l, conn.server)
              /\ \/ l = cl
                 \/ ~cl.has /\ l = ApplySnapshot(cl, FirstPage(conn.server))
<1>1. /\ conn.phase = "up" /\ cl.phase = "loading"
      /\ UNCHANGED <<log, published, conn, wire, cache, used>>
  BY DEF Subscribe
<1>2. PICK l : /\ cl' = Ask(l, conn.server) /\ sub' = Opened(l, conn.server)
               /\ \/ l = cl
                  \/ ~cl.has /\ l = ApplySnapshot(cl, FirstPage(conn.server))
  BY DEF Subscribe
<1>3. Orderly(log) /\ ClientFits(cl) /\ cl \in Clients /\ conn.server \in Servers
  BY DEF TInv, ServerFits, ClientFits, Conns
<1>4. ClientFits(l)
  <2> DEFINE s == FirstPage(conn.server)
             d == ApplySnapshot(cl, s)
  <2>1. SnapshotFits(s) /\ s \in Snapshots
    BY <1>3, FirstPageIs DEF SnapshotFits
  <2> HIDE DEF s
  <2>2. d \in Clients /\ Saves(d) /\ d.seq = s.seq
    BY <1>3, <2>1, ApplySnapshotIs
  <2> HIDE DEF d
  <2>3. ClientFits(d)
    BY <2>1, <2>2 DEF ClientFits, Saves, SnapshotFits
  <2> QED
    BY <1>2, <1>3, <2>3 DEF d, s
<1>5. l \in Clients
  BY <1>4 DEF ClientFits
<1>6. /\ cl' \in Clients /\ cl'.seq = l.seq /\ cl'.saving = l.saving
  BY <1>2, <1>3, <1>5, AskIs DEF SameView
<1>7. ClientFits(cl')
  BY <1>3, <1>4, <1>6, FitsStill
<1>8. /\ sub' \in Subs /\ sub'.after = (IF l.has THEN l.seq ELSE 0) /\ sub'.head = 0
      /\ sub'.buffer = <<>>
  BY <1>2, <1>3, <1>5, OpenedIs
<1>9. SubFits(sub')
  BY <1>3, <1>4, <1>8, LogIs DEF SubFits, ClientFits
<1> QED
  BY <1>1, <1>2, <1>4, <1>5, <1>7, <1>9

LEMMA DeliverIs ==
  ASSUME TInv, Deliver
  PROVE  /\ wire # <<>> /\ wire[1] \in Items /\ Known(wire[1])
         /\ cl' = ApplyItem(cl, wire[1]) /\ wire' = Tail(wire)
         /\ ClientFits(cl') /\ WireFits(wire')
         /\ UNCHANGED <<log, published, conn, sub, cache, used>>
<1>1. /\ wire # <<>> /\ cl' = ApplyItem(cl, Head(wire)) /\ wire' = Tail(wire)
      /\ UNCHANGED <<log, published, conn, sub, cache, used>>
  BY DEF Deliver
<1>2. /\ Head(wire) = wire[1] /\ wire[1] \in Items /\ Known(wire[1]) /\ WireFits(Tail(wire))
  BY <1>1, WireTail DEF TInv
<1>3. ClientFits(ApplyItem(cl, wire[1]))
  BY <1>2, ApplyItemFits DEF TInv, ServerFits
<1> QED
  BY <1>1, <1>2, <1>3

LEMMA ResubscribeIs ==
  ASSUME TInv, Resubscribe
  PROVE  /\ conn.phase = "up" /\ cl' = Begin(cl, conn.server) /\ sub' = NoSub /\ wire' = <<>>
         /\ used' \in [subscriptions: Nat, views: Nat]
         /\ UNCHANGED <<log, published, conn, cache>>
<1>1. used \in [subscriptions: Nat, views: Nat]
  BY DEF TInv, ServerFits
<1> QED
  BY <1>1 DEF Resubscribe

LEMMA ReopenIs ==
  ASSUME TInv, Reopen
  PROVE  /\ sub' = NoSub /\ wire' = <<>> /\ UNCHANGED <<log, published, conn>>
         /\ used' \in [subscriptions: Nat, views: Nat]
         /\ \/ cache' = cache
            \/ /\ cl.has /\ cache'.seq = cl.seq /\ cache'.thread = cl.thread
               /\ SameCut(cl.page, cache'.page) /\ ~cache'.page.loading
         /\ SnapshotFits(cache')
         /\ \E f \in Clients :
              /\ f = Fresh(cache') /\ ClientFits(f)
              /\ \/ conn.phase = "up" /\ cl' = SetReady(Begin(f, conn.server))
                 \/ conn.phase = "down" /\ cl' = SetDisconnected(f)
                 \/ conn.phase = "prepared" /\ cl' = f
         /\ ClientFits(cl')
<1>1. /\ sub' = NoSub /\ wire' = <<>> /\ UNCHANGED <<log, published, conn>>
      /\ used' = [used EXCEPT !.views = used.views + 1]
      /\ cache' = cache \/ (cl.has /\ cache' = Persist(cl).saving)
      /\ cl' = IF conn.phase = "up" THEN SetReady(Begin(Fresh(cache'), conn.server))
               ELSE IF conn.phase = "down" THEN SetDisconnected(Fresh(cache'))
               ELSE Fresh(cache')
  BY DEF Reopen
<1>2. /\ Orderly(log) /\ ClientFits(cl) /\ cl \in Clients /\ conn.server \in Servers
      /\ conn.phase \in {"down", "prepared", "up"} /\ SnapshotFits(cache)
      /\ used \in [subscriptions: Nat, views: Nat]
  BY DEF TInv, ServerFits, ClientFits, Conns
<1>3. used' \in [subscriptions: Nat, views: Nat]
  BY <1>1, <1>2
<1>4. \/ cache' = cache
      \/ /\ cl.has /\ cache'.seq = cl.seq /\ cache'.thread = cl.thread
         /\ SameCut(cl.page, cache'.page) /\ ~cache'.page.loading /\ cache' \in Snapshots
  <2> DEFINE d == Persist(cl)
  <2>1. d \in Clients /\ SameView(cl, d) /\ Saves(d)
    BY <1>2, PersistIs
  <2>2. cache' = cache \/ (cl.has /\ cache' = d.saving)
    BY <1>1
  <2> HIDE DEF d
  <2>3. d.saving \in Snapshots
    BY <2>1 DEF Clients
  <2> QED
    BY <2>1, <2>2, <2>3 DEF SameView, Saves, SameCut
<1>5. SnapshotFits(cache')
  BY <1>2, <1>4 DEF SnapshotFits, ClientFits
<1> DEFINE f == Fresh(cache')
<1>6. ClientFits(f) /\ ClientFits(SetDisconnected(f)) /\ f \in Clients
  BY <1>2, <1>5, FreshFits DEF ClientFits
<1>7. ClientFits(SetReady(Begin(f, conn.server)))
  BY <1>2, <1>6, BeginFits
<1>8. \/ conn.phase = "up" /\ cl' = SetReady(Begin(f, conn.server))
      \/ conn.phase = "down" /\ cl' = SetDisconnected(f)
      \/ conn.phase = "prepared" /\ cl' = f
  BY <1>1, <1>2
<1>9. f = Fresh(cache')
  OBVIOUS
<1> HIDE DEF f
<1>10. ClientFits(cl')
  BY <1>6, <1>7, <1>8
<1> QED
  BY <1>1, <1>3, <1>4, <1>5, <1>6, <1>8, <1>9, <1>10

LEMMA FeedingFits ==
  TInv /\ (Subscribe \/ Deliver \/ Resubscribe \/ Reopen) => TInv'
<1> SUFFICES ASSUME TInv, Subscribe \/ Deliver \/ Resubscribe \/ Reopen PROVE TInv'
  OBVIOUS
<1>1. /\ ServerFits /\ SubFits(sub) /\ WireFits(wire) /\ ClientFits(cl)
      /\ SnapshotFits(cache) /\ Orderly(log) /\ published \in 0 .. Len(log)
      /\ conn \in Conns /\ used \in [subscriptions: Nat, views: Nat]
      /\ conn.server \in Servers
  BY DEF TInv, ServerFits, ClientFits, Conns
<1>2. CASE Subscribe
  <2>1. /\ UNCHANGED <<log, published, conn, wire, cache, used>>
        /\ ClientFits(cl') /\ SubFits(sub')
    BY <1>2, SubscribeIs
  <2> QED
    BY <1>1, <2>1, StillFits
<1>3. CASE Deliver
  <2>1. /\ ClientFits(cl') /\ WireFits(wire')
        /\ UNCHANGED <<log, published, conn, sub, cache, used>>
    BY <1>3, DeliverIs
  <2> QED
    BY <1>1, <2>1, StillFits
<1>4. CASE Resubscribe
  <2>1. /\ cl' = Begin(cl, conn.server) /\ sub' = NoSub /\ wire' = <<>>
        /\ used' \in [subscriptions: Nat, views: Nat]
        /\ UNCHANGED <<log, published, conn, cache>>
    BY <1>4, ResubscribeIs
  <2>2. ClientFits(cl')
    BY <1>1, <2>1, BeginFits
  <2> QED
    BY <1>1, <2>1, <2>2, NothingFits, StillFits
<1>5. CASE Reopen
  <2>1. /\ sub' = NoSub /\ wire' = <<>> /\ UNCHANGED <<log, published, conn>>
        /\ used' \in [subscriptions: Nat, views: Nat]
        /\ SnapshotFits(cache') /\ ClientFits(cl')
    BY <1>5, ReopenIs
  <2> QED
    BY <1>1, <2>1, NothingFits, StillFits
<1> QED
  BY <1>2, <1>3, <1>4, <1>5

LEMMA InitFits == Init => TInv
<1> SUFFICES ASSUME Init PROVE TInv
  OBVIOUS
<1>1. Orderly(log) /\ published = Len(log)
  BY LogAssumption DEF Init
<1>2. ServerFits
  <2>1. conn \in Conns /\ used \in [subscriptions: Nat, views: Nat]
    BY DEF Init, Conns
  <2> QED
    BY <1>1, <2>1, LogIs DEF ServerFits
<1>3. ClientFits(cl)
  BY <1>1, FreshFits, NothingFits DEF Init
<1> QED
  BY <1>1, <1>2, <1>3, NothingFits DEF Init, TInv

LEMMA StepFits == TInv /\ [Next]_vars => TInv'
<1> SUFFICES ASSUME TInv, [Next]_vars PROVE TInv'
  OBVIOUS
<1>1. CASE UNCHANGED vars
  <2>1. /\ ServerFits /\ SubFits(sub) /\ WireFits(wire) /\ ClientFits(cl)
        /\ SnapshotFits(cache) /\ published \in 0 .. Len(log)
        /\ conn \in Conns /\ used \in [subscriptions: Nat, views: Nat]
    BY DEF TInv, ServerFits
  <2> QED
    BY <1>1, <2>1, StillFits DEF vars
<1> QED
  BY <1>1, CommitFits, ServerFitsStill, ConnectionFits, ClientFitsStill, FeedingFits
     DEF Next, ClientStep

\* What was published to no one stays on record, and is in the log.
LEMMA UnheardGrows ==
  [Next]_vars => \/ unheard' = unheard
                 \/ Publish /\ unheard' = unheard \cup {published + 1}
<1> SUFFICES ASSUME [Next]_vars
             PROVE  \/ unheard' = unheard
                    \/ Publish /\ unheard' = unheard \cup {published + 1}
  OBVIOUS
<1>1. CASE UNCHANGED vars
  BY <1>1 DEF vars
<1>2. CASE Publish
  BY <1>2 DEF Publish
<1>3. CASE Commit \/ Attach \/ ReadHead \/ Replay
  BY <1>3 DEF Commit, Attach, ReadHead, Replay
<1>4. CASE Connect \/ Disconnect \/ Reconnect \/ Establish
  BY <1>4 DEF Connect, Disconnect, Reconnect, Establish
<1>5. CASE Subscribe \/ Deliver \/ Resubscribe \/ Reopen \/ Save
  BY <1>5 DEF Subscribe, Deliver, Resubscribe, Reopen, Save
<1>6. CASE LoadOlderTurns \/ AnswerOlderTurns \/ TakeOlderTurns
  BY <1>6 DEF LoadOlderTurns, AnswerOlderTurns, TakeOlderTurns
<1> QED
  BY <1>1, <1>2, <1>3, <1>4, <1>5, <1>6 DEF Next, ServerStep, ClientStep

UnheardFits == unheard \subseteq 1 .. MaxEvents

LEMMA StepUnheard == TInv /\ UnheardFits /\ [Next]_vars => UnheardFits'
<1> SUFFICES ASSUME TInv, UnheardFits, [Next]_vars PROVE UnheardFits'
  OBVIOUS
<1>1. Publish => published + 1 \in 1 .. MaxEvents
  BY LogIs, FeedAssumption DEF Publish, TInv, ServerFits
<1> QED
  BY <1>1, UnheardGrows DEF UnheardFits

LEMMA FitsMeans == TInv /\ UnheardFits => TypeOK
<1> SUFFICES ASSUME TInv, UnheardFits PROVE TypeOK
  OBVIOUS
<1>1. /\ SubFits(sub) /\ WireFits(wire) /\ ClientFits(cl)
      /\ SnapshotFits(cache) /\ Orderly(log) /\ published \in 0 .. Len(log)
      /\ conn \in [phase: {"down", "prepared", "up"}, server: Servers]
      /\ cl \in Clients /\ cache \in Snapshots
  BY DEF TInv, ServerFits, ClientFits, SnapshotFits, Conns
<1>2. Len(log) <= MaxEvents
  BY <1>1 DEF Orderly
<1>3. /\ sub.phase \in {"none", "open", "replay", "live"}
      /\ sub.after \in 0 .. Len(log) /\ sub.head \in 0 .. Len(log)
  BY <1>1, FeedAssumption DEF SubFits, Subs
<1>4. \A i \in DOMAIN wire : wire[i].kind \in {"event", "snapshot", "synchronized"}
  BY <1>1 DEF WireFits, Known
<1>5. \A t \in Threads : IsThread(t)
  BY ThreadsAre DEF Threads, IsThread
<1>6. \A s \in Snapshots : IsSnapshot(s)
  BY <1>5 DEF Snapshots, IsSnapshot, Pages
<1>7. /\ cl.status \in {"empty", "cached", "synchronizing", "live"}
      /\ cl.phase \in {"idle", "loading", "subscribed", "failed"}
      /\ cl.seq \in 0 .. Len(log) /\ cl.thread \in Threads
      /\ cl.asked \in Fetches /\ cl.parked \in Parks /\ cl.saving \in Snapshots
  BY <1>1, FeedAssumption DEF ClientFits, Clients
<1>8. /\ cl.asked.phase \in {"none", "asked", "answered"}
      /\ cl.asked.snapshot \in Snapshots /\ cl.parked.snapshot \in Snapshots
  BY <1>7 DEF Fetches, Parks
<1> QED
  BY <1>1, <1>2, <1>3, <1>4, <1>5, <1>6, <1>7, <1>8 DEF TypeOK, UnheardFits

\* In every reachable state each variable has its shape, from any orderly logs: the fold
\* of a log is a thread, a delta names a turn that was opened, and neither the view, the
\* cache nor the subscription claims an event the log does not have.
THEOREM TypeCorrect == Spec => []TypeOK
<1>1. Init => UnheardFits
  BY DEF Init, UnheardFits
<1> QED
  BY <1>1, InitFits, StepFits, StepUnheard, FitsMeans, PTL DEF Spec

-----------------------------------------------------------------------------
(* A view that says it is live *)

\* Of the items before the `m`th, and of what the view has, one brings event `d`.
CoveredBy(w, q, d, m) ==
  \/ d <= q
  \/ \E j \in 1 .. m - 1 : \/ w[j].kind = "event" /\ w[j].seq = d
                           \/ w[j].kind = "snapshot" /\ w[j].snapshot.seq >= d

\* Which phases go together; a snapshot is the first thing a subscription sends, and
\* does not take the view back.
Phases ==
  /\ conn.phase # "up" => sub.phase = "none"
  /\ sub.phase # "live" => wire = <<>>
  /\ cl.phase # "subscribed" => sub.phase = "none"
  /\ cl.phase = "loading" => /\ conn.phase = "up"
                             /\ cl.awaiting = conn.server.marker
                             /\ cl.awaiting => cl.status # "live"
  /\ sub.phase \in {"open", "replay"} => sub.after <= cl.seq
  /\ \A i \in 1 .. Len(wire) : wire[i].kind = "snapshot"
       => i = 1 /\ wire[i].snapshot.seq >= cl.seq

\* Either the view still waits, and the marker is behind all it has to wait for, or
\* it has it all.
Waits ==
  /\ cl.awaiting /\ cl.status # "live"
  /\ sub.phase = "live" =>
       \A m \in 1 .. Len(wire) : wire[m].kind = "synchronized" =>
         \A d \in 1 .. sub.head : Told(d) => CoveredBy(wire, cl.seq, d, m)
HasAll == sub.phase = "live" /\ \A d \in 1 .. sub.head : Told(d) => d <= cl.seq
Caught == sub.phase # "none" /\ sub.marker => Waits \/ HasAll

CInv == Phases /\ Caught

\* What covered an event before the first item is applied covers it afterwards.
LEMMA CoveredAfter ==
  ASSUME NEW w, WireFits(w), w # <<>>, NEW q \in Nat, NEW r \in Nat, q <= r,
         w[1].kind = "event" => w[1].seq <= r,
         w[1].kind = "snapshot" => w[1].snapshot.seq <= r,
         NEW d \in Nat, NEW m \in 1 .. Len(w) + 1, CoveredBy(w, q, d, m),
         w[1].kind = "snapshot" => w[1].snapshot.seq \in Nat
  PROVE  CoveredBy(Tail(w), r, d, m - 1)
<1>1. /\ Len(w) \in Nat /\ Len(Tail(w)) = Len(w) - 1
      /\ \A i \in 1 .. Len(w) - 1 : Tail(w)[i] = w[i + 1]
  BY WireIs, WireTail
<1>2. CASE d <= q
  BY <1>2 DEF CoveredBy
<1>3. CASE ~(d <= q)
  <2>1. PICK j \in 1 .. m - 1 : \/ w[j].kind = "event" /\ w[j].seq = d
                                \/ w[j].kind = "snapshot" /\ w[j].snapshot.seq >= d
    BY <1>3 DEF CoveredBy
  <2>2. CASE j = 1
    BY <2>1, <2>2 DEF CoveredBy
  <2>3. CASE j # 1
    <3>1. j - 1 \in 1 .. (m - 1) - 1 /\ j - 1 \in 1 .. Len(w) - 1 /\ (j - 1) + 1 = j
      BY <1>1, <2>3
    <3>2. Tail(w)[j - 1] = w[j]
      BY <1>1, <3>1
    <3> QED
      BY <2>1, <3>1, <3>2 DEF CoveredBy
  <2> QED
    BY <2>2, <2>3
<1> QED
  BY <1>2, <1>3

\* What covers an event in a wire covers it in a longer one.
LEMMA CoveredLonger ==
  ASSUME NEW w, NEW x, NEW q, NEW d, NEW m \in Nat, NEW n \in Nat, m <= n,
         \A i \in 1 .. m - 1 : x[i] = w[i], CoveredBy(w, q, d, m)
  PROVE  CoveredBy(x, q, d, n)
<1>1. 1 .. m - 1 \subseteq 1 .. n - 1
  OBVIOUS
<1> QED
  BY <1>1 DEF CoveredBy

LEMMA InitCaught == Init => CInv
  BY EmptySeq DEF Init, CInv, Phases, Caught, NoSub, SetDisconnected, Fresh

LEMMA StillCaught ==
  ASSUME CInv, SameWord(cl, cl'), cl'.seq = cl.seq,
         UNCHANGED <<log, conn, sub, wire>>
  PROVE  CInv'
<1>1. Phases'
  BY DEF CInv, Phases, SameWord
<1>2. Caught'
  BY DEF CInv, Caught, Waits, HasAll, Told, CoveredBy, SameWord
<1> QED
  BY <1>1, <1>2 DEF CInv

LEMMA ResetCaught ==
  ASSUME sub'.phase = "none", wire' = <<>>,
         cl'.phase = "loading" => /\ conn'.phase = "up"
                                  /\ cl'.awaiting = conn'.server.marker
                                  /\ cl'.awaiting => cl'.status # "live"
  PROVE  CInv'
<1>1. Len(wire') = 0
  BY EmptySeq
<1>2. Phases'
  BY <1>1 DEF Phases
<1>3. Caught'
  BY DEF Caught
<1> QED
  BY <1>2, <1>3 DEF CInv

\* What applying an item does to the sequence of the view and to what it says.
LEMMA ItemEffect ==
  ASSUME Orderly(log), NEW c, ClientFits(c), NEW x \in Items, Known(x),
         x.kind = "snapshot" => x.snapshot.seq >= c.seq
  PROVE  LET d == ApplyItem(c, x)
         IN  /\ d.phase = c.phase /\ d.seq \in Nat /\ c.seq \in Nat /\ c.seq <= d.seq
             /\ x.kind = "event" => /\ x.seq \in 1 .. Len(log)
                                    /\ d.seq = (IF x.seq <= c.seq THEN c.seq ELSE x.seq)
             /\ x.kind = "snapshot" => SnapshotFits(x.snapshot) /\ d.seq = x.snapshot.seq
             /\ x.kind # "synchronized" => /\ d.awaiting = c.awaiting
                                           /\ c.awaiting /\ c.status # "live" => d.status # "live"
             /\ x.kind = "synchronized" => d.seq = c.seq
<1> DEFINE d == ApplyItem(c, x)
<1>1. c \in Clients /\ c.seq \in 0 .. MaxEvents /\ c.seq \in Nat /\ Len(log) \in 0 .. MaxEvents
  BY LogIs, FeedAssumption DEF ClientFits, Clients
<1>2. /\ x.kind = "event" => d = ApplyEvent(c, x.seq)
      /\ x.kind = "snapshot" => d = ApplySnapshot(c, x.snapshot)
      /\ x.kind = "synchronized" => d = ApplyMarker(c)
  BY ApplyItemFits
<1> HIDE DEF d
<1>3. CASE x.kind = "event" /\ x.seq \in 1 .. Len(log)
  <2> DEFINE s == x.seq
             e == Folded(c, s)
  <2>1. s \in 1 .. MaxEvents
    BY <1>1, <1>3, FeedAssumption
  <2>2. d = IF s <= c.seq THEN c
            ELSE IF c.has THEN TryMergePending(e) ELSE [c EXCEPT !.seq = s]
    BY <1>1, <1>2, <1>3, <2>1, ApplyEventIs
  <2>3. CASE s <= c.seq
    BY <1>1, <1>3, <2>2, <2>3 DEF d
  <2>4. CASE ~(s <= c.seq) /\ ~c.has
    <3>1. /\ d.seq = s /\ d.phase = c.phase /\ d.awaiting = c.awaiting
          /\ d.status = c.status
      BY <1>1, <2>1, <2>2, <2>4 DEF Clients
    <3> QED
      BY <1>1, <1>3, <2>4, <3>1 DEF d
  <2>5. CASE ~(s <= c.seq) /\ c.has
    <3>1. Reduce(c.thread, s, log[s]) \in Threads
      BY <1>1, <1>3, ReduceFits DEF Clients
    <3>2. /\ e \in Clients /\ e.seq = s /\ e.phase = c.phase /\ e.awaiting = c.awaiting
          /\ e.status = (IF c.awaiting THEN "synchronizing" ELSE "live")
      BY <1>1, <2>1, <3>1, FoldedIs
    <3> HIDE DEF e
    <3>3. SameWord(e, TryMergePending(e)) /\ TryMergePending(e).seq = e.seq
      BY <3>2, TryMergePendingIs
    <3>4. /\ d.seq = s /\ d.phase = c.phase /\ d.awaiting = c.awaiting
          /\ c.awaiting => d.status # "live"
      BY <2>2, <2>5, <3>2, <3>3 DEF SameWord
    <3> QED
      BY <1>1, <1>3, <2>5, <3>4 DEF d
  <2> QED
    BY <2>3, <2>4, <2>5
<1>4. CASE x.kind = "snapshot" /\ SnapshotFits(x.snapshot)
  <2>1. x.snapshot \in Snapshots /\ x.snapshot.seq \in Nat
    BY <1>4, FeedAssumption DEF SnapshotFits, Snapshots
  <2>2. /\ d.seq = x.snapshot.seq /\ d.awaiting = c.awaiting /\ d.phase = c.phase
        /\ d.status = (IF c.awaiting THEN "synchronizing" ELSE "live")
    <3> DEFINE f == ApplySnapshot(c, x.snapshot)
    <3>1. f.seq = x.snapshot.seq
      BY <1>1, <2>1, ApplySnapshotIs
    <3>2. f.awaiting = c.awaiting
      BY <1>1, <2>1, ApplySnapshotIs
    <3>3. f.phase = c.phase
      BY <1>1, <2>1, ApplySnapshotIs
    <3>4. f.status = (IF c.awaiting THEN "synchronizing" ELSE "live")
      BY <1>1, <2>1, ApplySnapshotIs
    <3>5. d = f
      BY <1>2, <1>4
    <3> HIDE DEF f
    <3> QED
      BY <3>1, <3>2, <3>3, <3>4, <3>5
  <2> QED
    BY <1>1, <1>4, <2>1, <2>2 DEF d
<1>5. CASE x = Marker
  <2>1. SameView(c, d) /\ d.phase = c.phase
    BY <1>1, <1>2, <1>5, MarkerIs, ApplyMarkerIs
  <2> QED
    BY <1>1, <1>5, <2>1, MarkerIs DEF SameView, d
<1> QED
  BY <1>3, <1>4, <1>5, ItemIs

LEMMA DeliverCaught == TInv /\ CInv /\ Deliver => CInv'
<1> SUFFICES ASSUME TInv, CInv, Deliver PROVE CInv'
  OBVIOUS
<1> DEFINE x == wire[1]
<1>1. /\ wire # <<>> /\ x \in Items /\ Known(x)
      /\ cl' = ApplyItem(cl, x) /\ wire' = Tail(wire)
      /\ UNCHANGED <<log, published, conn, sub, cache, used>>
      /\ WireFits(wire) /\ Orderly(log) /\ ClientFits(cl) /\ WireFits(wire')
  BY DeliverIs DEF TInv, ServerFits
<1>2. Len(wire) \in Nat \ {0} /\ sub.phase = "live" /\ cl.phase = "subscribed"
  BY <1>1, WireIs DEF CInv, Phases
<1>3. x.kind = "snapshot" => x.snapshot.seq >= cl.seq
  BY <1>2 DEF CInv, Phases
<1>4. /\ cl'.phase = cl.phase /\ cl'.seq \in Nat /\ cl.seq \in Nat /\ cl.seq <= cl'.seq
      /\ x.kind = "event" => /\ x.seq \in 1 .. Len(log)
                             /\ cl'.seq = (IF x.seq <= cl.seq THEN cl.seq ELSE x.seq)
      /\ x.kind = "snapshot" => SnapshotFits(x.snapshot) /\ cl'.seq = x.snapshot.seq
      /\ x.kind # "synchronized" => /\ cl'.awaiting = cl.awaiting
                                    /\ cl.awaiting /\ cl.status # "live" => cl'.status # "live"
  BY <1>1, <1>3, ItemEffect
<1>5. /\ x.kind = "event" => x.seq <= cl'.seq
      /\ x.kind = "snapshot" => x.snapshot.seq <= cl'.seq /\ x.snapshot.seq \in Nat
  BY <1>4, FeedAssumption, LogIs, <1>1
<1>6. /\ Len(wire') = Len(wire) - 1
      /\ \A i \in 1 .. Len(wire') : wire'[i] = wire[i + 1] /\ i + 1 \in 1 .. Len(wire) /\ i + 1 # 1
  BY <1>1, <1>2, WireTail
<1>7. ASSUME NEW d \in Nat, NEW m \in 1 .. Len(wire) + 1, CoveredBy(wire, cl.seq, d, m)
      PROVE  CoveredBy(wire', cl'.seq, d, m - 1)
  BY <1>1, <1>4, <1>5, <1>7, CoveredAfter
<1> HIDE DEF x
<1>8. Phases'
  <2>1. \A i \in 1 .. Len(wire') : wire'[i].kind # "snapshot"
    BY <1>6 DEF CInv, Phases
  <2> QED
    BY <1>1, <1>2, <1>4, <2>1 DEF CInv, Phases
<1>9. Caught'
  <2>1. SUFFICES ASSUME sub.marker PROVE (Waits \/ HasAll)'
    BY <1>1 DEF Caught
  <2>a. sub.head \in Nat
    BY FeedAssumption DEF TInv, SubFits, Subs
  <2>2. CASE HasAll
    <3>1. \A d \in 1 .. sub.head : Told(d) => d <= cl'.seq
      BY <1>4, <2>2, <2>a DEF HasAll
    <3> QED
      BY <1>1, <1>2, <3>1 DEF HasAll, Told
  <2>3. CASE Waits /\ x.kind = "synchronized"
    <3>1. \A d \in 1 .. sub.head : Told(d) => CoveredBy(wire, cl.seq, d, 1)
      BY <1>2, <2>3 DEF Waits, x
    <3>2. \A d \in 1 .. sub.head : Told(d) => d <= cl.seq
      BY <3>1 DEF CoveredBy
    <3>3. \A d \in 1 .. sub.head : Told(d) => d <= cl'.seq
      BY <1>4, <2>a, <3>2
    <3> QED
      BY <1>1, <1>2, <3>3 DEF HasAll, Told
  <2>4. CASE Waits /\ x.kind # "synchronized"
    <3>1. cl'.awaiting /\ cl'.status # "live"
      BY <1>4, <2>4 DEF Waits
    <3>2. ASSUME NEW m \in 1 .. Len(wire'), wire'[m].kind = "synchronized",
                 NEW d \in 1 .. sub.head, Told(d)
          PROVE  CoveredBy(wire', cl'.seq, d, m)
      <4>1. wire[m + 1].kind = "synchronized" /\ m + 1 \in 1 .. Len(wire)
        BY <1>6, <3>2
      <4>2. CoveredBy(wire, cl.seq, d, m + 1)
        BY <1>2, <2>4, <3>2, <4>1 DEF Waits
      <4>3. m + 1 \in 1 .. Len(wire) + 1 /\ (m + 1) - 1 = m /\ d \in Nat
        BY <1>2, <2>a, <4>1
      <4>4. CoveredBy(wire', cl'.seq, d, (m + 1) - 1)
        BY <1>7, <4>2, <4>3
      <4> QED
        BY <4>3, <4>4
    <3> QED
      BY <1>1, <3>1, <3>2 DEF Waits, Told
  <2> QED
    BY <1>2, <2>1, <2>2, <2>3, <2>4 DEF CInv, Caught
<1> QED
  BY <1>8, <1>9 DEF CInv

LEMMA CommitCaught == TInv /\ CInv /\ Commit => CInv'
<1> SUFFICES ASSUME TInv, CInv, Commit PROVE CInv'
  OBVIOUS
<1>1. /\ UNCHANGED <<published, conn, sub, wire, cl, cache, used>>
      /\ \A i \in 1 .. Len(log) : log'[i] = log[i]
  BY CommitIs DEF TInv, ServerFits
<1>2. Phases'
  BY <1>1 DEF CInv, Phases
<1>3. \A d \in 1 .. sub.head : Told(d)' <=> Told(d)
  <2>1. \A d \in 1 .. sub.head : d \in 1 .. Len(log)
    BY LogIs, FeedAssumption DEF TInv, SubFits, Subs, ServerFits
  <2> QED
    BY <1>1, <2>1 DEF Told
<1> HIDE DEF Told
<1>4. Caught'
  BY <1>1, <1>3 DEF CInv, Caught, Waits, HasAll, CoveredBy
<1> QED
  BY <1>2, <1>4 DEF CInv

\* What is published is buffered, or is appended to the wire.
LEMMA PublishIs ==
  ASSUME TInv, Publish
  PROVE  LET k == published + 1
         IN  /\ k \in 1 .. Len(log) /\ published' = k /\ k - 1 = published
             /\ UNCHANGED <<log, conn, cl, cache, used>>
             /\ sub'.phase = sub.phase /\ sub'.after = sub.after /\ sub'.head = sub.head
             /\ sub'.attached = sub.attached /\ sub'.marker = sub.marker
             /\ IF sub.phase = "live"
                THEN /\ sub' = sub
                     /\ IF sub.attached /\ Told(k)
                        THEN wire' = Append(wire, EventItem(k)) ELSE wire' = wire
                ELSE /\ wire' = wire
                     /\ IF sub.attached /\ Told(k)
                        THEN sub'.buffer = Append(sub.buffer, EventItem(k))
                        ELSE sub' = sub
<1>1. sub \in Subs /\ published \in 0 .. Len(log) /\ Len(log) \in Nat
  BY LogIs, FeedAssumption DEF TInv, SubFits, ServerFits
<1> DEFINE k == published + 1
           told == sub.attached /\ log[k].kind \in Detail
<1>2. /\ k \in 1 .. Len(log) /\ published' = k /\ k - 1 = published
      /\ UNCHANGED <<log, conn, cl, cache, used>>
      /\ wire' = IF told /\ sub.phase = "live" THEN Append(wire, EventItem(k)) ELSE wire
      /\ sub' = IF told /\ sub.phase # "live"
                THEN [sub EXCEPT !.buffer = Append(sub.buffer, EventItem(k))] ELSE sub
  <2>1. k \in 1 .. Len(log) /\ published' = k /\ k - 1 = published
    <3>1. published < Len(log) /\ published' = published + 1
      BY DEF Publish
    <3> HIDE DEF told
    <3> QED
      BY <1>1, <3>1
  <2>2. UNCHANGED <<log, conn, cl, cache, used>>
    BY DEF Publish
  <2>3. wire' = IF told /\ sub.phase = "live" THEN Append(wire, EventItem(k)) ELSE wire
    BY DEF Publish
  <2>4. sub' = IF told /\ sub.phase # "live"
               THEN [sub EXCEPT !.buffer = Append(sub.buffer, EventItem(k))] ELSE sub
    BY DEF Publish
  <2> QED
    BY <2>1, <2>2, <2>3, <2>4
<1>3. told <=> sub.attached /\ Told(k)
  BY DEF Told
<1> HIDE DEF told, k
<1>4. /\ sub'.phase = sub.phase /\ sub'.after = sub.after /\ sub'.head = sub.head
      /\ sub'.attached = sub.attached /\ sub'.marker = sub.marker
  BY <1>1, <1>2 DEF Subs
<1>5. told /\ sub.phase # "live" => sub'.buffer = Append(sub.buffer, EventItem(k))
  BY <1>1, <1>2 DEF Subs
<1> QED
  BY <1>2, <1>3, <1>4, <1>5 DEF k

LEMMA PublishCaught == TInv /\ CInv /\ Publish => CInv'
<1> SUFFICES ASSUME TInv, CInv, Publish PROVE CInv'
  OBVIOUS
<1> DEFINE k == published + 1
<1>1. /\ k \in 1 .. Len(log) /\ UNCHANGED <<log, conn, cl>>
      /\ sub'.phase = sub.phase /\ sub'.after = sub.after /\ sub'.head = sub.head
      /\ sub'.marker = sub.marker
      /\ \/ wire' = wire
         \/ sub.phase = "live" /\ wire' = Append(wire, EventItem(k))
  BY PublishIs
<1>2. /\ EventItem(k) \in Items /\ Known(EventItem(k)) /\ EventItem(k).kind = "event"
      /\ WireFits(wire)
  BY <1>1, EventItemIs DEF TInv, ServerFits
<1> HIDE DEF k
<1>3. CASE wire' = wire
  <2>1. Phases'
    BY <1>1, <1>3 DEF CInv, Phases
  <2>2. Caught'
    BY <1>1, <1>3 DEF CInv, Caught, Waits, HasAll, Told, CoveredBy
  <2> QED
    BY <2>1, <2>2 DEF CInv
<1>4. CASE sub.phase = "live" /\ wire' = Append(wire, EventItem(k))
  <2>1. /\ Len(wire) \in Nat /\ Len(wire') = Len(wire) + 1
        /\ wire'[Len(wire) + 1] = EventItem(k)
        /\ \A i \in 1 .. Len(wire) : wire'[i] = wire[i]
    BY <1>2, <1>4, WireIs, WireAppend
  <2>2. \A i \in 1 .. Len(wire') : wire'[i].kind # "event" => i \in 1 .. Len(wire) /\ wire'[i] = wire[i]
    <3> TAKE i \in 1 .. Len(wire')
    <3>1. i = Len(wire) + 1 => wire'[i].kind = "event"
      BY <1>2, <2>1
    <3>2. i # Len(wire) + 1 => i \in 1 .. Len(wire)
      BY <2>1
    <3> QED
      BY <2>1, <3>1, <3>2
  <2>3. Phases'
    BY <1>1, <1>4, <2>2 DEF CInv, Phases
  <2>4. Waits => Waits'
    <3>1. SUFFICES ASSUME Waits PROVE Waits'
      OBVIOUS
    <3>2. ASSUME NEW m \in 1 .. Len(wire'), wire'[m].kind = "synchronized",
                 NEW d \in 1 .. sub.head, Told(d)
          PROVE  CoveredBy(wire', cl.seq, d, m)
      <4>1. m \in 1 .. Len(wire) /\ wire[m].kind = "synchronized"
        BY <2>2, <3>2
      <4>2. CoveredBy(wire, cl.seq, d, m)
        BY <1>4, <3>1, <3>2, <4>1 DEF Waits
      <4>3. m \in Nat /\ \A i \in 1 .. m - 1 : wire'[i] = wire[i]
        BY <2>1, <4>1
      <4> QED
        BY <4>2, <4>3, CoveredLonger
    <3> QED
      BY <1>1, <3>1, <3>2 DEF Waits, Told
  <2>5. HasAll => HasAll'
    BY <1>1 DEF HasAll, Told
  <2>6. Caught'
    BY <1>1, <2>4, <2>5 DEF CInv, Caught
  <2> QED
    BY <2>3, <2>6 DEF CInv
<1> QED
  BY <1>1, <1>3, <1>4

LEMMA AttachCaught == TInv /\ CInv /\ Attach => CInv'
<1> SUFFICES ASSUME TInv, CInv, Attach PROVE CInv'
  OBVIOUS
<1>1. sub \in Subs
  BY DEF TInv, SubFits
<1>2. /\ UNCHANGED <<log, conn, wire, cl>>
      /\ sub'.phase = sub.phase /\ sub'.after = sub.after /\ sub'.head = sub.head
      /\ sub'.marker = sub.marker
  BY <1>1 DEF Attach, Subs
<1>3. Phases'
  BY <1>2 DEF CInv, Phases
<1>4. Caught'
  BY <1>2 DEF CInv, Caught, Waits, HasAll, Told, CoveredBy
<1> QED
  BY <1>3, <1>4 DEF CInv

LEMMA WireConcatThree ==
  ASSUME NEW x, WireFits(x), NEW y, WireFits(y), NEW z, WireFits(z)
  PROVE  LET w == x \o y \o z
         IN  /\ Len(w) = Len(x) + Len(y) + Len(z)
             /\ Len(x) \in Nat /\ Len(y) \in Nat /\ Len(z) \in Nat
             /\ \A i \in 1 .. Len(x) : w[i] = x[i]
             /\ \A i \in 1 .. Len(y) : w[Len(x) + i] = y[i]
             /\ \A i \in 1 .. Len(z) : w[Len(x) + Len(y) + i] = z[i]
<1>1. PICK u : u = x \o y
  OBVIOUS
<1>2. PICK w : w = u \o z
  OBVIOUS
<1>3. /\ WireFits(u) /\ Len(u) = Len(x) + Len(y)
      /\ \A i \in 1 .. Len(x) : u[i] = x[i]
      /\ \A i \in 1 .. Len(y) : u[Len(x) + i] = y[i]
  BY <1>1, WireConcat
<1>4. /\ Len(w) = Len(u) + Len(z)
      /\ \A i \in 1 .. Len(u) : w[i] = u[i]
      /\ \A i \in 1 .. Len(z) : w[Len(u) + i] = z[i]
  <2>1. WireFits(u)
    BY <1>3
  <2>2. Len(u \o z) = Len(u) + Len(z)
    BY <2>1, WireConcat
  <2>3. \A i \in 1 .. Len(u) : (u \o z)[i] = u[i]
    BY <2>1, WireConcat
  <2>4. \A i \in 1 .. Len(z) : (u \o z)[Len(u) + i] = z[i]
    BY <2>1, WireConcat
  <2> QED
    BY <1>2, <2>2, <2>3, <2>4
<1>5. Len(x) \in Nat /\ Len(y) \in Nat /\ Len(z) \in Nat
  BY WireIs
<1>6. \A i \in 1 .. Len(x) : w[i] = x[i]
  BY <1>3, <1>4, <1>5
<1>7. \A i \in 1 .. Len(y) : w[Len(x) + i] = y[i]
  <2> TAKE i \in 1 .. Len(y)
  <2>1. Len(x) + i \in 1 .. Len(u)
    BY <1>3, <1>5
  <2> QED
    BY <1>3, <1>4, <2>1
<1> QED
  BY <1>1, <1>2, <1>3, <1>4, <1>5, <1>6, <1>7

\* Going live from an empty wire: the found, the buffered, the marker.
LEMMA WireOfLive ==
  ASSUME TInv, wire = <<>>, NEW items, WireFits(items), NEW head, GoLive(items, head)
  PROVE  /\ Len(items) \in Nat /\ Len(sub.buffer) \in Nat
         /\ \A i \in 1 .. Len(items) : wire'[i] = items[i]
         /\ \A i \in 1 .. Len(sub.buffer) : wire'[Len(items) + i] = sub.buffer[i]
         /\ IF sub.marker THEN /\ Len(wire') = Len(items) + Len(sub.buffer) + 1
                               /\ wire'[Len(items) + Len(sub.buffer) + 1] = Marker
                          ELSE Len(wire') = Len(items) + Len(sub.buffer)
<1>1. PICK last : last = IF sub.marker THEN <<Marker>> ELSE <<>>
  OBVIOUS
<1>2. PICK buffer : buffer = sub.buffer
  OBVIOUS
<1>3. WireFits(buffer) /\ WireFits(<<>>)
  BY <1>2, BufferIs, WireEmpty DEF TInv
<1>4. /\ WireFits(last)
      /\ IF sub.marker THEN Len(last) = 1 /\ last[1] = Marker ELSE Len(last) = 0
  BY <1>1, WireEmpty, WireOne, MarkerIs
<1>5. <<>> \o items = items
  BY ConcatEmptySeq DEF WireFits
<1>6. wire' = items \o buffer \o last
  BY <1>1, <1>2, <1>5 DEF GoLive
<1>7. /\ Len(wire') = Len(items) + Len(buffer) + Len(last)
      /\ Len(items) \in Nat /\ Len(buffer) \in Nat
      /\ \A i \in 1 .. Len(items) : wire'[i] = items[i]
      /\ \A i \in 1 .. Len(buffer) : wire'[Len(items) + i] = buffer[i]
      /\ \A i \in 1 .. Len(last) : wire'[Len(items) + Len(buffer) + i] = last[i]
  BY <1>3, <1>4, <1>6, WireConcatThree
<1>8. CASE sub.marker
  <2>1. Len(last) = 1 /\ last[1] = Marker
    BY <1>4, <1>8
  <2>2. wire'[Len(items) + Len(buffer) + 1] = Marker
    BY <1>7, <2>1
  <2>3. Len(wire') = Len(items) + Len(buffer) + 1
    BY <1>7, <2>1
  <2> QED
    BY <1>2, <1>7, <1>8, <2>2, <2>3
<1>9. CASE ~sub.marker
  <2>1. Len(last) = 0
    BY <1>4, <1>9
  <2>2. Len(wire') = Len(items) + Len(buffer)
    BY <1>7, <2>1
  <2> QED
    BY <1>2, <1>7, <1>9, <2>2
<1> QED
  BY <1>8, <1>9

LEMMA ReadHeadCaught == TInv /\ CInv /\ ReadHead => CInv'
<1> SUFFICES ASSUME TInv, CInv, ReadHead PROVE CInv'
  OBVIOUS
<1>1. /\ Orderly(log) /\ Len(log) \in Nat /\ cl \in Clients /\ sub \in Subs /\ WireFits(wire)
      /\ cl.seq <= Len(log)
  BY LogIs, FeedAssumption DEF TInv, ServerFits, ClientFits, SubFits
<1>2. sub.phase = "open" /\ UNCHANGED <<log, published, conn, cache, used>>
  BY DEF ReadHead
<1>3. wire = <<>> /\ sub.after <= cl.seq /\ conn.phase = "up" /\ cl.phase = "subscribed"
  BY <1>2 DEF CInv, Phases
<1>4. sub.marker => cl.awaiting /\ cl.status # "live"
  BY <1>2 DEF CInv, Caught, Waits, HasAll
<1>5. CASE sub' = [sub EXCEPT !.phase = "replay", !.head = Len(log)] /\ UNCHANGED <<wire, cl>>
  <2>1. sub'.phase = "replay" /\ sub'.after = sub.after /\ sub'.marker = sub.marker
    BY <1>1, <1>5 DEF Subs
  <2>2. Phases'
    BY <1>2, <1>3, <1>5, <2>1, EmptySeq DEF Phases
  <2>3. Caught'
    BY <1>4, <1>5, <2>1 DEF Caught, Waits
  <2> QED
    BY <2>2, <2>3 DEF CInv
<1>6. CASE /\ GoLive(<<[kind |-> "snapshot", snapshot |-> FirstPage(conn.server)]>>, Len(log))
           /\ UNCHANGED cl
  <2>1. PICK s : s = FirstPage(conn.server)
    OBVIOUS
  <2>2. PICK x : x = [kind |-> "snapshot", snapshot |-> s]
    OBVIOUS
  <2>3. SnapshotFits(s) /\ s.seq = Len(log)
    BY <1>1, <2>1, FirstPageIs
  <2>4. x \in Items /\ Known(x) /\ x.kind = "snapshot" /\ x.snapshot = s
    BY <2>2, <2>3 DEF SnapshotFits, SnapshotItems, Items, Known
  <2>5. GoLive(<<x>>, Len(log)) /\ Len(log) \in 0 .. Len(log)
    BY <1>1, <1>6, <2>1, <2>2
  <2>6. WireFits(<<x>>) /\ Len(<<x>>) = 1 /\ <<x>>[1] = x
    BY <2>4, WireOne
  <2>7. /\ sub'.phase = "live" /\ sub'.head = Len(log) /\ sub'.marker = sub.marker
        /\ sub'.after = sub.after
    BY <2>5, <2>6, GoLiveIs
  <2>8. PICK items : items = <<x>>
    OBVIOUS
  <2>9. /\ Len(items) = 1 /\ Len(sub.buffer) \in Nat
        /\ \A i \in 1 .. Len(items) : wire'[i] = items[i]
        /\ \A i \in 1 .. Len(sub.buffer) : wire'[Len(items) + i] = sub.buffer[i]
        /\ IF sub.marker THEN /\ Len(wire') = Len(items) + Len(sub.buffer) + 1
                              /\ wire'[Len(items) + Len(sub.buffer) + 1] = Marker
                         ELSE Len(wire') = Len(items) + Len(sub.buffer)
    BY <1>3, <2>5, <2>6, <2>8, WireOfLive
  <2>10. \A i \in 1 .. Len(sub.buffer) : sub.buffer[i].kind = "event"
    BY BufferIs DEF TInv
  <2>11. wire'[1] = x
    BY <2>6, <2>8, <2>9
  <2>12. ASSUME NEW i \in 1 .. Len(wire'), i # 1
         PROVE  wire'[i].kind \in {"event", "synchronized"}
    <3>1. CASE i \in 2 .. Len(sub.buffer) + 1
      <4>1. i - 1 \in 1 .. Len(sub.buffer) /\ 1 + (i - 1) = i
        BY <2>9, <3>1
      <4>2. wire'[1 + (i - 1)] = sub.buffer[i - 1]
        BY <2>9, <4>1
      <4> QED
        BY <2>10, <4>1, <4>2
    <3>2. CASE i \notin 2 .. Len(sub.buffer) + 1
      <4>1. sub.marker /\ i = Len(items) + Len(sub.buffer) + 1
        BY <2>9, <2>12, <3>2
      <4> QED
        BY <2>9, <4>1, MarkerIs
    <3> QED
      BY <3>1, <3>2
  <2>13. Phases'
    BY <1>1, <1>2, <1>3, <1>6, <2>3, <2>4, <2>7, <2>11, <2>12 DEF Phases
  <2>14. ASSUME sub.marker PROVE Waits'
    <3>1. ASSUME NEW m \in 1 .. Len(wire'), wire'[m].kind = "synchronized",
                 NEW d \in 1 .. Len(log)
          PROVE  CoveredBy(wire', cl.seq, d, m)
      <4>1. m # 1
        BY <2>4, <2>11, <3>1
      <4>2. 1 \in 1 .. m - 1 /\ wire'[1].kind = "snapshot" /\ wire'[1].snapshot.seq >= d
        BY <1>1, <2>3, <2>4, <2>11, <4>1
      <4> QED
        BY <4>2 DEF CoveredBy
    <3> QED
      BY <1>4, <1>6, <2>7, <2>14, <3>1 DEF Waits
  <2>15. Caught'
    BY <2>7, <2>14 DEF Caught
  <2> QED
    BY <2>13, <2>15 DEF CInv
<1>7. CASE sub' = NoSub /\ cl' = SetStreamError(cl) /\ UNCHANGED wire
  <2>1. cl'.phase = "failed"
    BY <1>1, <1>7, WordsChange
  <2> QED
    BY <1>3, <1>7, <2>1, ResetCaught DEF NoSub
<1> QED
  BY <1>5, <1>6, <1>7 DEF ReadHead

LEMMA ReplayCaught == TInv /\ CInv /\ Replay => CInv'
<1> SUFFICES ASSUME TInv, CInv, Replay PROVE CInv'
  OBVIOUS
<1>1. PICK items :
           /\ WireFits(items) /\ GoLive(items, sub.head)
           /\ UNCHANGED <<log, published, conn, cl, cache, used>>
           /\ \A i \in 1 .. Len(items) : items[i].kind = "event"
           /\ \A d \in sub.after + 1 .. sub.head :
                Told(d) => \E i \in 1 .. Len(items) : items[i].seq = d
  BY ReplayIs
<1>2. /\ sub.phase = "replay" /\ wire = <<>> /\ sub.after <= cl.seq
      /\ conn.phase = "up" /\ cl.phase = "subscribed"
  BY DEF Replay, CInv, Phases
<1>3. /\ Len(log) \in Nat /\ sub.head \in Nat /\ sub.head <= Len(log) /\ sub.after \in Nat
      /\ cl.seq \in Nat
  BY LogIs, FeedAssumption DEF TInv, ServerFits, ClientFits, Clients, SubFits, Subs
<1>4. sub.marker => cl.awaiting /\ cl.status # "live"
  BY <1>2 DEF CInv, Caught, Waits, HasAll
<1>5. sub.head \in 0 .. Len(log)
  BY <1>3
<1>6. sub'.phase = "live" /\ sub'.head = sub.head /\ sub'.marker = sub.marker
  BY <1>1, <1>5, GoLiveIs
<1>7. /\ Len(items) \in Nat /\ Len(sub.buffer) \in Nat
      /\ \A i \in 1 .. Len(items) : wire'[i] = items[i]
      /\ \A i \in 1 .. Len(sub.buffer) : wire'[Len(items) + i] = sub.buffer[i]
      /\ IF sub.marker THEN /\ Len(wire') = Len(items) + Len(sub.buffer) + 1
                            /\ wire'[Len(items) + Len(sub.buffer) + 1] = Marker
                       ELSE Len(wire') = Len(items) + Len(sub.buffer)
  BY <1>1, <1>2, WireOfLive
<1>8. \A i \in 1 .. Len(sub.buffer) : sub.buffer[i].kind = "event"
  BY BufferIs DEF TInv
<1>9. ASSUME NEW i \in 1 .. Len(wire')
      PROVE  \/ wire'[i].kind = "event"
             \/ wire'[i].kind = "synchronized" /\ i = Len(items) + Len(sub.buffer) + 1
  <2>1. CASE i \in 1 .. Len(items)
    BY <1>1, <1>7, <2>1
  <2>2. CASE i \in Len(items) + 1 .. Len(items) + Len(sub.buffer)
    <3>1. i - Len(items) \in 1 .. Len(sub.buffer) /\ Len(items) + (i - Len(items)) = i
      BY <1>7, <2>2
    <3>2. wire'[Len(items) + (i - Len(items))] = sub.buffer[i - Len(items)]
      BY <1>7, <3>1
    <3> QED
      BY <1>8, <3>1, <3>2
  <2>3. CASE i \notin 1 .. Len(items) /\ i \notin Len(items) + 1 .. Len(items) + Len(sub.buffer)
    <3>1. sub.marker /\ i = Len(items) + Len(sub.buffer) + 1
      BY <1>7, <1>9, <2>3
    <3> QED
      BY <1>7, <3>1, MarkerIs
  <2> QED
    BY <2>1, <2>2, <2>3
<1>10. Phases'
  BY <1>1, <1>2, <1>6, <1>9 DEF Phases
<1>11. ASSUME sub.marker PROVE Waits'
  <2>1. ASSUME NEW m \in 1 .. Len(wire'), wire'[m].kind = "synchronized",
               NEW d \in 1 .. sub.head, Told(d)
        PROVE  CoveredBy(wire', cl.seq, d, m)
    <3>1. m = Len(items) + Len(sub.buffer) + 1
      BY <1>9, <2>1
    <3>2. CASE d <= cl.seq
      BY <3>2 DEF CoveredBy
    <3>3. CASE ~(d <= cl.seq)
      <4>1. d \in sub.after + 1 .. sub.head
        BY <1>2, <1>3, <3>3
      <4>2. PICK j \in 1 .. Len(items) : items[j].seq = d
        BY <1>1, <2>1, <4>1
      <4>3. j \in 1 .. m - 1 /\ wire'[j].kind = "event" /\ wire'[j].seq = d
        BY <1>1, <1>7, <3>1, <4>2
      <4> QED
        BY <4>3 DEF CoveredBy
    <3> QED
      BY <3>2, <3>3
  <2> QED
    BY <1>1, <1>4, <1>6, <1>11, <2>1 DEF Waits, Told
<1>12. Caught'
  BY <1>6, <1>11 DEF Caught
<1> QED
  BY <1>10, <1>12 DEF CInv

\* A view that begins, and one that then hears it is ready, waits for its marker.
LEMMA BeginWaits ==
  ASSUME NEW c \in Clients, NEW v \in Servers
  PROVE  /\ Begin(c, v).awaiting = v.marker /\ Begin(c, v).status # "live"
         /\ SetReady(Begin(c, v)).awaiting = v.marker /\ SetReady(Begin(c, v)).status # "live"
<1>1. PICK d : d = Begin(c, v)
  OBVIOUS
<1>2. d \in Clients /\ d.awaiting = v.marker /\ d.status # "live"
  BY <1>1, BeginIs
<1>3. SetReady(d).awaiting = d.awaiting
  BY <1>2, WordsChange
<1>4. SetReady(d).status = (IF d.status = "live" THEN "live" ELSE "synchronizing")
  BY <1>2, WordsChange
<1> QED
  BY <1>1, <1>2, <1>3, <1>4

LEMMA ConnectionCaught ==
  TInv /\ CInv /\ (Connect \/ Disconnect \/ Reconnect \/ Establish) => CInv'
<1> SUFFICES ASSUME TInv, CInv, Connect \/ Disconnect \/ Reconnect \/ Establish PROVE CInv'
  OBVIOUS
<1>1. cl \in Clients /\ conn \in Conns /\ conn.server \in Servers
  BY DEF TInv, ServerFits, ClientFits, Conns
<1>2. CASE Connect
  <2>1. /\ conn.phase = "down" /\ cl' = SetSynchronizing(cl) /\ UNCHANGED <<sub, wire>>
    BY <1>2 DEF Connect
  <2>2. sub.phase = "none" /\ wire = <<>> /\ cl.phase # "loading"
    BY <2>1 DEF CInv, Phases
  <2>3. cl'.phase = cl.phase
    BY <1>1, <2>1, WordsChange
  <2> QED
    BY <2>1, <2>2, <2>3, ResetCaught
<1>3. CASE Establish
  <2>1. /\ conn.phase = "prepared" /\ conn' = [conn EXCEPT !.phase = "up"]
        /\ cl' = SetReady(Begin(cl, conn.server)) /\ UNCHANGED <<sub, wire>>
    BY <1>3 DEF Establish
  <2>2. sub.phase = "none" /\ wire = <<>>
    BY <2>1 DEF CInv, Phases
  <2>3. conn'.phase = "up" /\ conn'.server = conn.server
    BY <1>1, <2>1 DEF Conns
  <2>4. cl'.awaiting = conn.server.marker /\ cl'.status # "live"
    BY <1>1, <2>1, BeginWaits
  <2> QED
    BY <2>1, <2>2, <2>3, <2>4, ResetCaught
<1>4. CASE Disconnect
  <2>1. PICK d : d = SetDisconnected(cl)
    OBVIOUS
  <2>2. d \in Clients
    BY <1>1, <2>1, WordsChange
  <2>3. cl' = [d EXCEPT !.phase = "idle"] /\ sub' = NoSub /\ wire' = <<>>
    BY <1>4, <2>1 DEF Disconnect
  <2>4. cl'.phase = "idle"
    BY <2>2, <2>3 DEF Clients
  <2> QED
    BY <2>3, <2>4, ResetCaught DEF NoSub
<1>5. CASE Reconnect
  <2>1. PICK d : d = SetSynchronizing(cl)
    OBVIOUS
  <2>2. d \in Clients
    BY <1>1, <2>1, WordsChange
  <2>3. cl' = [d EXCEPT !.phase = "idle"] /\ sub' = NoSub /\ wire' = <<>>
    BY <1>5, <2>1 DEF Reconnect
  <2>4. cl'.phase = "idle"
    BY <2>2, <2>3 DEF Clients
  <2> QED
    BY <2>3, <2>4, ResetCaught DEF NoSub
<1> QED
  BY <1>2, <1>3, <1>4, <1>5

LEMMA SubscribeCaught == TInv /\ CInv /\ Subscribe => CInv'
<1> SUFFICES ASSUME TInv, CInv, Subscribe PROVE CInv'
  OBVIOUS
<1>1. /\ conn.phase = "up" /\ cl.phase = "loading"
      /\ UNCHANGED <<log, published, conn, wire, cache, used>>
  BY SubscribeIs
<1>2. PICK l \in Clients :
              /\ cl' = Ask(l, conn.server) /\ sub' = Opened(l, conn.server)
              /\ \/ l = cl
                 \/ ~cl.has /\ l = ApplySnapshot(cl, FirstPage(conn.server))
  BY SubscribeIs
<1>3. cl \in Clients /\ conn.server \in Servers /\ Orderly(log)
  BY DEF TInv, ServerFits, ClientFits, Conns
<1>4. /\ wire = <<>> /\ cl.awaiting = conn.server.marker
      /\ cl.awaiting => cl.status # "live"
  BY <1>1 DEF CInv, Phases
<1>5. l.awaiting = conn.server.marker /\ (conn.server.marker => l.status # "live")
  <2>1. CASE l = cl
    BY <1>4, <2>1
  <2>2. CASE l = ApplySnapshot(cl, FirstPage(conn.server))
    <3>1. PICK s \in Snapshots : s = FirstPage(conn.server)
      BY <1>3, FirstPageIs DEF SnapshotFits
    <3>2. l = ApplySnapshot(cl, s)
      BY <2>2, <3>1
    <3>3. l.awaiting = cl.awaiting
      BY <1>3, <3>2, ApplySnapshotIs
    <3>4. l.status = (IF cl.awaiting THEN "synchronizing" ELSE "live")
      BY <1>3, <3>2, ApplySnapshotIs
    <3> QED
      BY <1>4, <3>3, <3>4
  <2> QED
    BY <1>2, <2>1, <2>2
<1>6. /\ cl'.phase = "subscribed" /\ cl'.awaiting = l.awaiting /\ cl'.seq = l.seq
      /\ conn.server.marker => cl'.status = l.status
  BY <1>2, <1>3, AskIs DEF SameView
<1>7. /\ sub'.phase = "open" /\ sub'.marker = conn.server.marker
      /\ sub'.after = (IF l.has THEN l.seq ELSE 0)
  BY <1>2, <1>3, OpenedIs
<1>8. l.seq \in Nat
  BY FeedAssumption DEF Clients
<1>9. Phases'
  BY <1>1, <1>4, <1>6, <1>7, <1>8, EmptySeq DEF Phases
<1>10. Caught'
  BY <1>5, <1>6, <1>7 DEF Caught, Waits
<1> QED
  BY <1>9, <1>10 DEF CInv

LEMMA RestartCaught == TInv /\ CInv /\ (Resubscribe \/ Reopen) => CInv'
<1> SUFFICES ASSUME TInv, CInv, Resubscribe \/ Reopen PROVE CInv'
  OBVIOUS
<1>1. cl \in Clients /\ conn.server \in Servers /\ NoSub.phase = "none"
  BY DEF TInv, ServerFits, ClientFits, Conns, NoSub
<1>2. CASE Resubscribe
  <2>1. /\ conn.phase = "up" /\ cl' = Begin(cl, conn.server) /\ sub' = NoSub /\ wire' = <<>>
        /\ conn' = conn
    BY <1>2, ResubscribeIs
  <2>2. cl'.awaiting = conn.server.marker /\ cl'.status # "live"
    BY <1>1, <2>1, BeginWaits
  <2> QED
    BY <1>1, <2>1, <2>2, ResetCaught
<1>3. CASE Reopen
  <2>1. /\ sub' = NoSub /\ wire' = <<>> /\ conn' = conn /\ SnapshotFits(cache')
    BY <1>3, ReopenIs
  <2>2. PICK f \in Clients :
          /\ f = Fresh(cache')
          /\ \/ conn.phase = "up" /\ cl' = SetReady(Begin(f, conn.server))
             \/ conn.phase = "down" /\ cl' = SetDisconnected(f)
             \/ conn.phase = "prepared" /\ cl' = f
    BY <1>3, ReopenIs
  <2>3. f.phase = "idle"
    BY <2>1, <2>2, FreshIs DEF SnapshotFits
  <2>4. CASE conn.phase = "up" /\ cl' = SetReady(Begin(f, conn.server))
    <3>1. cl'.awaiting = conn.server.marker /\ cl'.status # "live"
      BY <1>1, <2>4, BeginWaits
    <3> QED
      BY <1>1, <2>1, <2>4, <3>1, ResetCaught
  <2>5. CASE cl' = SetDisconnected(f) \/ cl' = f
    <3>1. cl'.phase = "idle"
      BY <2>3, <2>5, WordsChange
    <3> QED
      BY <1>1, <2>1, <3>1, ResetCaught
  <2> QED
    BY <2>2, <2>4, <2>5
<1> QED
  BY <1>2, <1>3

LEMMA StepCaught == TInv /\ CInv /\ [Next]_vars => CInv'
<1> SUFFICES ASSUME TInv, CInv, [Next]_vars PROVE CInv'
  OBVIOUS
<1>1. CASE UNCHANGED vars
  BY <1>1, StillCaught DEF vars, SameWord
<1>2. CASE LoadOlderTurns \/ AnswerOlderTurns \/ TakeOlderTurns \/ Save
  BY <1>2, ClientFitsStill, StillCaught
<1> QED
  BY <1>1, <1>2, CommitCaught, PublishCaught, AttachCaught, ReadHeadCaught, ReplayCaught,
     ConnectionCaught, SubscribeCaught, DeliverCaught, RestartCaught
     DEF Next, ServerStep, ClientStep

LEMMA CaughtMeans == TInv /\ CInv => LiveIsCaughtUp
<1> SUFFICES ASSUME TInv, CInv, cl.status = "live", sub.phase = "live", sub.marker
             PROVE  cl.seq >= Watermark(sub.head)
  BY DEF LiveIsCaughtUp
<1>1. sub.head \in Nat /\ cl.seq \in Nat
  BY FeedAssumption DEF TInv, SubFits, Subs, ClientFits, Clients
<1>2. \A d \in 1 .. sub.head : Told(d) => d <= cl.seq
  BY DEF CInv, Caught, Waits, HasAll
<1>3. /\ Watermark(sub.head) \in 0 .. sub.head
      /\ Watermark(sub.head) # 0 => Told(Watermark(sub.head))
  BY <1>1, WatermarkIs
<1> QED
  BY <1>1, <1>2, <1>3

\* A view that says it is live has what the server found when it took up the subscription,
\* whatever the order in which the live fiber attaches and the handler reads: the marker
\* is behind the replay, or behind the snapshot, and only the marker ends the wait.
THEOREM LiveCaughtUp == Spec => []LiveIsCaughtUp
BY InitFits, StepFits, InitCaught, StepCaught, CaughtMeans, PTL DEF Spec

-----------------------------------------------------------------------------
(* No gap: whatever is sent comes after all that was told before it *)

\* What is published while a replay is under way waits in the buffer, in order.
BufferedAll(b, head, n) ==
  \A d \in head + 1 .. n : Told(d) => \E j \in 1 .. Len(b) : b[j].seq = d
BufferedInOrder(b, head) ==
  \A i \in 1 .. Len(b) : \A d \in head + 1 .. b[i].seq - 1 : Told(d) =>
    \E j \in 1 .. i - 1 : b[j].seq = d

\* An event on the wire is behind every told event before it; a live subscription
\* has all that was published on the wire, or the view has it.
InOrder(w, q) ==
  \A i \in 1 .. Len(w) : w[i].kind = "event" =>
    \A d \in 1 .. w[i].seq - 1 : Told(d) => CoveredBy(w, q, d, i)
AllSent(w, q, n) == \A d \in 1 .. n : Told(d) => CoveredBy(w, q, d, Len(w) + 1)

GInv ==
  /\ sub.phase = "replay" => /\ BufferedAll(sub.buffer, sub.head, published)
                             /\ BufferedInOrder(sub.buffer, sub.head)
  /\ sub.phase = "live" => AllSent(wire, cl.seq, published)
  /\ InOrder(wire, cl.seq)

LEMMA ResetGapless ==
  ASSUME sub'.phase \in {"none", "open"}, wire' = <<>>
  PROVE  GInv'
<1>1. Len(wire') = 0
  BY EmptySeq
<1> QED
  BY <1>1 DEF GInv, InOrder

LEMMA StillGapless ==
  ASSUME GInv, cl'.seq = cl.seq, UNCHANGED <<log, published, sub, wire>>
  PROVE  GInv'
  BY DEF GInv, InOrder, AllSent, BufferedAll, BufferedInOrder, Told, CoveredBy

LEMMA CommitGapless == TInv /\ GInv /\ Commit => GInv'
<1> SUFFICES ASSUME TInv, GInv, Commit PROVE GInv'
  OBVIOUS
<1>1. /\ UNCHANGED <<published, sub, wire, cl>>
      /\ \A i \in 1 .. Len(log) : log'[i] = log[i]
  BY CommitIs DEF TInv, ServerFits
<1>2. \A d \in 1 .. Len(log) : Told(d)' <=> Told(d)
  BY <1>1 DEF Told
<1>3. /\ Len(log) \in Nat /\ published \in 0 .. Len(log) /\ Orderly(log) /\ sub.head \in Nat
      /\ WireFits(wire) /\ SubFits(sub)
  BY LogIs, FeedAssumption DEF TInv, ServerFits, SubFits, Subs
<1>4. \A i \in 1 .. Len(wire) : wire[i].kind = "event" => wire[i].seq \in 1 .. Len(log)
  <2> TAKE i \in 1 .. Len(wire)
  <2>1. wire[i] \in Items /\ Known(wire[i])
    BY <1>3, WireIs
  <2> QED
    BY <1>3, <2>1, ItemIs, MarkerIs
<1>5. \A i \in 1 .. Len(sub.buffer) : sub.buffer[i].seq \in 1 .. Len(log)
  <2> TAKE i \in 1 .. Len(sub.buffer)
  <2>1. WireFits(sub.buffer) /\ sub.buffer[i].kind = "event"
    BY <1>3, BufferIs
  <2>2. sub.buffer[i] \in Items /\ Known(sub.buffer[i])
    BY <2>1, WireIs
  <2> QED
    BY <1>3, <2>1, <2>2, ItemIs, MarkerIs
<1> HIDE DEF Told
<1>6. sub.phase = "replay" => BufferedAll(sub.buffer, sub.head, published)'
  BY <1>1, <1>2, <1>3 DEF GInv, BufferedAll
<1>7. sub.phase = "replay" => BufferedInOrder(sub.buffer, sub.head)'
  <2>1. SUFFICES ASSUME sub.phase = "replay", NEW i \in 1 .. Len(sub.buffer),
                        NEW d \in sub.head + 1 .. sub.buffer[i].seq - 1, Told(d)'
                 PROVE  \E j \in 1 .. i - 1 : sub.buffer[j].seq = d
    BY <1>1 DEF BufferedInOrder
  <2>2. d \in 1 .. Len(log)
    BY <1>3, <1>5
  <2> QED
    BY <1>2, <2>1, <2>2 DEF GInv, BufferedInOrder
<1>8. sub.phase = "live" => AllSent(wire, cl.seq, published)'
  BY <1>1, <1>2, <1>3 DEF GInv, AllSent, CoveredBy
<1>9. InOrder(wire, cl.seq)'
  <2>1. SUFFICES ASSUME NEW i \in 1 .. Len(wire), wire[i].kind = "event",
                        NEW d \in 1 .. wire[i].seq - 1, Told(d)'
                 PROVE  CoveredBy(wire, cl.seq, d, i)
    BY <1>1 DEF InOrder, CoveredBy
  <2>2. d \in 1 .. Len(log)
    BY <1>3, <1>4, <2>1
  <2> QED
    BY <1>2, <2>1, <2>2 DEF GInv, InOrder
<1> QED
  BY <1>1, <1>6, <1>7, <1>8, <1>9 DEF GInv

LEMMA PublishGapless == TInv /\ CInv /\ GInv /\ Publish /\ unheard' = {} => GInv'
<1> SUFFICES ASSUME TInv, CInv, GInv, Publish, unheard' = {} PROVE GInv'
  OBVIOUS
<1>0. sub.phase \in {"replay", "live"} /\ Told(published + 1) => sub.attached
  BY DEF Publish, Told
<1>1. PICK k : k = published + 1
  OBVIOUS
<1>2. /\ k \in 1 .. Len(log) /\ published' = k /\ k - 1 = published
      /\ UNCHANGED <<log, conn, cl, cache, used>>
      /\ sub'.phase = sub.phase /\ sub'.head = sub.head /\ sub'.attached = sub.attached
      /\ IF sub.phase = "live"
         THEN /\ sub' = sub
              /\ IF sub.attached /\ Told(k)
                 THEN wire' = Append(wire, EventItem(k)) ELSE wire' = wire
         ELSE /\ wire' = wire
              /\ IF sub.attached /\ Told(k)
                 THEN sub'.buffer = Append(sub.buffer, EventItem(k))
                 ELSE sub' = sub
  BY <1>1, PublishIs
<1>3. /\ Len(log) \in Nat /\ published \in 0 .. Len(log) /\ Orderly(log) /\ sub.head \in Nat
      /\ WireFits(wire) /\ SubFits(sub) /\ cl.seq \in Nat
      /\ sub.buffer \in Seq(EventItems)
  BY LogIs, FeedAssumption DEF TInv, ServerFits, SubFits, Subs, ClientFits, Clients
<1>4. PICK x : x = EventItem(k)
  OBVIOUS
<1>5. /\ x \in EventItems /\ x \in Items /\ Known(x) /\ x.kind = "event" /\ x.seq = k
  BY <1>2, <1>3, <1>4, EventItemIs
<1>6. \A d : Told(d)' <=> Told(d)
  BY <1>2 DEF Told
<1>7. CASE sub.phase = "live" /\ Told(k)
  <2>1. sub.attached /\ sub' = sub /\ wire' = Append(wire, x)
    BY <1>0, <1>1, <1>2, <1>4, <1>7
  <2>2. /\ Len(wire) \in Nat /\ Len(wire') = Len(wire) + 1 /\ wire'[Len(wire) + 1] = x
        /\ \A i \in 1 .. Len(wire) : wire'[i] = wire[i]
    BY <1>3, <1>5, <2>1, WireIs, WireAppend
  <2>3. ASSUME NEW d \in 1 .. published, Told(d)
        PROVE  /\ CoveredBy(wire', cl.seq, d, Len(wire) + 1)
               /\ CoveredBy(wire', cl.seq, d, Len(wire') + 1)
    <3>1. CoveredBy(wire, cl.seq, d, Len(wire) + 1)
      BY <1>7, <2>3 DEF GInv, AllSent
    <3>2. /\ Len(wire) + 1 \in Nat /\ Len(wire') + 1 \in Nat /\ Len(wire) + 1 <= Len(wire') + 1
          /\ \A i \in 1 .. (Len(wire) + 1) - 1 : wire'[i] = wire[i]
          /\ Len(wire) + 1 <= Len(wire) + 1
      BY <2>2
    <3>3. CoveredBy(wire', cl.seq, d, Len(wire) + 1)
      BY <3>1, <3>2, CoveredLonger
    <3>4. CoveredBy(wire', cl.seq, d, Len(wire') + 1)
      BY <3>1, <3>2, CoveredLonger
    <3> QED
      BY <3>3, <3>4
  <2>4. AllSent(wire', cl.seq, k)
    <3>1. CoveredBy(wire', cl.seq, k, Len(wire') + 1)
      <4>1. Len(wire) + 1 \in 1 .. (Len(wire') + 1) - 1
        BY <2>2
      <4> QED
        BY <1>5, <2>2, <4>1 DEF CoveredBy
    <3>2. \A d \in 1 .. k : d = k \/ d \in 1 .. published
      BY <1>2, <1>3
    <3> QED
      BY <2>3, <3>1, <3>2 DEF AllSent
  <2>5. InOrder(wire', cl.seq)
    <3>1. ASSUME NEW i \in 1 .. Len(wire'), wire'[i].kind = "event",
                 NEW d \in 1 .. wire'[i].seq - 1, Told(d)
          PROVE  CoveredBy(wire', cl.seq, d, i)
      <4>1. CASE i = Len(wire) + 1
        <5>1. d \in 1 .. published
          BY <1>2, <1>3, <1>5, <2>2, <3>1, <4>1
        <5> QED
          BY <2>3, <3>1, <4>1, <5>1
      <4>2. CASE i # Len(wire) + 1
        <5>1. i \in 1 .. Len(wire) /\ wire'[i] = wire[i]
          BY <2>2, <4>2
        <5>2. CoveredBy(wire, cl.seq, d, i)
          BY <3>1, <5>1 DEF GInv, InOrder
        <5>3. i \in Nat /\ i <= i /\ \A j \in 1 .. i - 1 : wire'[j] = wire[j]
          BY <2>2, <5>1
        <5> QED
          BY <5>2, <5>3, CoveredLonger
      <4> QED
        BY <4>1, <4>2
    <3> QED
      BY <3>1 DEF InOrder
  <2>6. AllSent(wire, cl.seq, published)' /\ InOrder(wire, cl.seq)'
    BY <1>2, <1>6, <2>4, <2>5 DEF AllSent, InOrder, CoveredBy
  <2> QED
    BY <1>2, <1>7, <2>1, <2>6 DEF GInv
<1>8. CASE sub.phase = "live" /\ ~Told(k)
  <2>1. sub' = sub /\ wire' = wire
    BY <1>2, <1>8
  <2>2. AllSent(wire, cl.seq, k)
    <3>1. \A d \in 1 .. k : d = k \/ d \in 1 .. published
      BY <1>2, <1>3
    <3> QED
      BY <1>8, <3>1 DEF GInv, AllSent
  <2>3. AllSent(wire, cl.seq, published)' /\ InOrder(wire, cl.seq)'
    BY <1>2, <1>6, <2>1, <2>2 DEF GInv, AllSent, InOrder, CoveredBy
  <2> QED
    BY <1>2, <1>8, <2>1, <2>3 DEF GInv
<1>9. CASE sub.phase # "live"
  <2>1. wire' = wire /\ wire = <<>>
    BY <1>2, <1>9 DEF CInv, Phases
  <2>2. InOrder(wire, cl.seq)'
    BY <1>2, <1>6, <2>1 DEF GInv, InOrder, CoveredBy
  <2>3. CASE sub.phase # "replay"
    BY <1>2, <1>9, <2>2, <2>3 DEF GInv
  <2>4. CASE sub.phase = "replay" /\ Told(k)
    <3>1. sub.attached /\ sub'.buffer = Append(sub.buffer, x)
      BY <1>0, <1>1, <1>2, <1>4, <1>9, <2>4
    <3>2. PICK b : b = sub'.buffer
      OBVIOUS
    <3>3. PICK a \in Seq(EventItems) : a = sub.buffer
      BY <1>3
    <3>4. /\ Len(a) \in Nat /\ Len(b) = Len(a) + 1 /\ b[Len(a) + 1] = x
          /\ \A i \in 1 .. Len(a) : b[i] = a[i]
      BY <1>5, <3>1, <3>2, <3>3, AppendProperties, LenProperties
    <3>5. BufferedAll(a, sub.head, published) /\ BufferedInOrder(a, sub.head)
      BY <2>4, <3>3 DEF GInv
    <3>6. BufferedAll(b, sub.head, k)
      <4>1. ASSUME NEW d \in sub.head + 1 .. k, Told(d)
            PROVE  \E j \in 1 .. Len(b) : b[j].seq = d
        <5>1. CASE d = k
          BY <1>5, <3>4, <5>1
        <5>2. CASE d # k
          <6>1. d \in sub.head + 1 .. published
            BY <1>2, <1>3, <5>2
          <6>2. PICK j \in 1 .. Len(a) : a[j].seq = d
            BY <3>5, <4>1, <6>1 DEF BufferedAll
          <6> QED
            BY <3>4, <6>2
        <5> QED
          BY <5>1, <5>2
      <4> QED
        BY <4>1 DEF BufferedAll
    <3>7. BufferedInOrder(b, sub.head)
      <4>1. ASSUME NEW i \in 1 .. Len(b), NEW d \in sub.head + 1 .. b[i].seq - 1, Told(d)
            PROVE  \E j \in 1 .. i - 1 : b[j].seq = d
        <5>1. CASE i = Len(a) + 1
          <6>1. d \in sub.head + 1 .. published
            BY <1>2, <1>3, <1>5, <3>4, <4>1, <5>1
          <6>2. PICK j \in 1 .. Len(a) : a[j].seq = d
            BY <3>5, <4>1, <6>1 DEF BufferedAll
          <6> QED
            BY <3>4, <5>1, <6>2
        <5>2. CASE i # Len(a) + 1
          <6>1. i \in 1 .. Len(a) /\ b[i] = a[i]
            BY <3>4, <5>2
          <6>2. PICK j \in 1 .. i - 1 : a[j].seq = d
            BY <3>5, <4>1, <6>1 DEF BufferedInOrder
          <6>3. j \in 1 .. Len(a)
            BY <3>4, <6>1
          <6> QED
            BY <3>4, <6>2, <6>3
        <5> QED
          BY <5>1, <5>2
      <4> QED
        BY <4>1 DEF BufferedInOrder
    <3>8. /\ BufferedAll(sub.buffer, sub.head, published)'
          /\ BufferedInOrder(sub.buffer, sub.head)'
      BY <1>2, <1>6, <3>2, <3>6, <3>7 DEF BufferedAll, BufferedInOrder
    <3> QED
      BY <1>2, <2>2, <2>4, <3>1, <3>8 DEF GInv
  <2>5. CASE sub.phase = "replay" /\ ~Told(k)
    <3>1. sub' = sub
      BY <1>2, <1>9, <2>5
    <3>2. BufferedAll(sub.buffer, sub.head, k)
      <4>1. \A d \in sub.head + 1 .. k : d = k \/ d \in sub.head + 1 .. published
        BY <1>2, <1>3
      <4> QED
        BY <2>5, <4>1 DEF GInv, BufferedAll
    <3>3. /\ BufferedAll(sub.buffer, sub.head, published)'
          /\ BufferedInOrder(sub.buffer, sub.head)'
      BY <1>2, <1>6, <2>5, <3>1, <3>2 DEF GInv, BufferedAll, BufferedInOrder
    <3> QED
      BY <1>2, <2>2, <2>5, <3>1, <3>3 DEF GInv
  <2> QED
    BY <2>3, <2>4, <2>5
<1> QED
  BY <1>7, <1>8, <1>9

LEMMA AttachGapless == TInv /\ CInv /\ GInv /\ Attach => GInv'
<1> SUFFICES ASSUME TInv, CInv, GInv, Attach PROVE GInv'
  OBVIOUS
<1>1. sub \in Subs
  BY DEF TInv, SubFits
<1>2. /\ UNCHANGED <<log, published, wire, cl>>
      /\ sub'.phase = sub.phase /\ sub'.head = sub.head /\ sub'.buffer = sub.buffer
      /\ sub'.attached = TRUE
  BY <1>1 DEF Attach, Subs
<1> QED
  BY <1>2 DEF GInv, InOrder, AllSent, BufferedAll, BufferedInOrder, Told, CoveredBy

LEMMA ReadHeadGapless == TInv /\ CInv /\ GInv /\ ReadHead => GInv'
<1> SUFFICES ASSUME TInv, CInv, GInv, ReadHead PROVE GInv'
  OBVIOUS
<1>1. /\ Orderly(log) /\ Len(log) \in Nat /\ cl \in Clients /\ sub \in Subs /\ WireFits(wire)
      /\ published \in 0 .. Len(log) /\ SubFits(sub)
  BY LogIs, FeedAssumption DEF TInv, ServerFits, ClientFits, SubFits
<1>2. /\ sub.phase = "open" /\ UNCHANGED <<log, published, conn, cache, used>>
  BY DEF ReadHead
<1>3. wire = <<>>
  BY <1>2 DEF CInv, Phases
<1>4. \A i \in 1 .. Len(sub.buffer) : /\ sub.buffer[i].kind = "event"
                                      /\ sub.buffer[i].seq \in 1 .. Len(log)
  <2> TAKE i \in 1 .. Len(sub.buffer)
  <2>1. WireFits(sub.buffer) /\ sub.buffer[i].kind = "event"
    BY <1>1, BufferIs
  <2>2. sub.buffer[i] \in Items /\ Known(sub.buffer[i])
    BY <2>1, WireIs
  <2> QED
    BY <1>1, <2>1, <2>2, ItemIs, MarkerIs
<1>5. CASE sub' = [sub EXCEPT !.phase = "replay", !.head = Len(log)] /\ UNCHANGED <<wire, cl>>
  <2>1. /\ sub'.phase = "replay" /\ sub'.head = Len(log) /\ sub'.buffer = sub.buffer
        /\ sub'.attached = sub.attached
    BY <1>1, <1>5 DEF Subs
  <2>2. \A d \in Len(log) + 1 .. published : FALSE
    BY <1>1
  <2>3. \A i \in 1 .. Len(sub.buffer) : \A d \in Len(log) + 1 .. sub.buffer[i].seq - 1 : FALSE
    BY <1>1, <1>4
  <2>4. /\ BufferedAll(sub.buffer, sub.head, published)'
        /\ BufferedInOrder(sub.buffer, sub.head)'
    BY <1>2, <2>1, <2>2, <2>3 DEF BufferedAll, BufferedInOrder
  <2>5. InOrder(wire, cl.seq)'
    BY <1>3, <1>5, EmptySeq DEF InOrder
  <2> QED
    BY <1>2, <2>1, <2>4, <2>5 DEF GInv
<1>6. CASE /\ GoLive(<<[kind |-> "snapshot", snapshot |-> FirstPage(conn.server)]>>, Len(log))
           /\ UNCHANGED cl
  <2>1. PICK s : s = FirstPage(conn.server)
    OBVIOUS
  <2>2. PICK x : x = [kind |-> "snapshot", snapshot |-> s]
    OBVIOUS
  <2>3. SnapshotFits(s) /\ s.seq = Len(log)
    BY <1>1, <2>1, FirstPageIs
  <2>4. x \in Items /\ Known(x) /\ x.kind = "snapshot" /\ x.snapshot = s
    BY <2>2, <2>3 DEF SnapshotFits, SnapshotItems, Items, Known
  <2>5. GoLive(<<x>>, Len(log)) /\ Len(log) \in 0 .. Len(log)
    BY <1>1, <1>6, <2>1, <2>2
  <2>6. WireFits(<<x>>) /\ Len(<<x>>) = 1 /\ <<x>>[1] = x
    BY <2>4, WireOne
  <2>7. sub'.phase = "live" /\ sub'.attached = sub.attached
    BY <2>5, <2>6, GoLiveIs
  <2>8. PICK items : items = <<x>>
    OBVIOUS
  <2>9. /\ Len(items) = 1 /\ Len(sub.buffer) \in Nat
        /\ \A i \in 1 .. Len(items) : wire'[i] = items[i]
        /\ \A i \in 1 .. Len(sub.buffer) : wire'[Len(items) + i] = sub.buffer[i]
        /\ IF sub.marker THEN /\ Len(wire') = Len(items) + Len(sub.buffer) + 1
                              /\ wire'[Len(items) + Len(sub.buffer) + 1] = Marker
                         ELSE Len(wire') = Len(items) + Len(sub.buffer)
    BY <1>3, <2>5, <2>6, <2>8, WireOfLive
  <2>10. wire'[1] = x /\ Len(wire') \in Nat /\ Len(wire') >= 1
    BY <2>6, <2>8, <2>9
  <2>11. ASSUME NEW i \in 1 .. Len(wire'), wire'[i].kind = "event"
         PROVE  i \in 2 .. Len(wire') /\ wire'[i].seq \in 1 .. Len(log)
    <3>1. i # 1
      BY <2>4, <2>10, <2>11
    <3>2. i \in 2 .. Len(sub.buffer) + 1
      <4>1. CASE sub.marker /\ i = Len(items) + Len(sub.buffer) + 1
        BY <2>9, <2>11, <4>1, MarkerIs
      <4> QED
        BY <2>9, <2>11, <3>1, <4>1
    <3>3. i - 1 \in 1 .. Len(sub.buffer) /\ 1 + (i - 1) = i
      BY <2>9, <3>2
    <3>4. wire'[1 + (i - 1)] = sub.buffer[i - 1]
      BY <2>9, <3>3
    <3> QED
      BY <1>4, <2>10, <2>11, <3>1, <3>3, <3>4
  <2>12. ASSUME NEW m \in 2 .. Len(wire') + 1, NEW d \in 1 .. Len(log)
         PROVE  CoveredBy(wire', cl.seq, d, m)
    <3>1. 1 \in 1 .. m - 1 /\ wire'[1].kind = "snapshot" /\ wire'[1].snapshot.seq >= d
      BY <1>1, <2>3, <2>4, <2>10
    <3> QED
      BY <3>1 DEF CoveredBy
  <2>13. AllSent(wire', cl.seq, published)
    BY <1>1, <2>10, <2>12 DEF AllSent
  <2>14. InOrder(wire', cl.seq)
    <3>1. ASSUME NEW i \in 1 .. Len(wire'), wire'[i].kind = "event",
                 NEW d \in 1 .. wire'[i].seq - 1
          PROVE  CoveredBy(wire', cl.seq, d, i)
      <4>1. i \in 2 .. Len(wire') + 1 /\ d \in 1 .. Len(log)
        BY <1>1, <2>10, <2>11, <3>1
      <4> QED
        BY <2>12, <4>1
    <3> QED
      BY <3>1 DEF InOrder
  <2>15. AllSent(wire, cl.seq, published)' /\ InOrder(wire, cl.seq)'
    BY <1>2, <1>6, <2>13, <2>14 DEF AllSent, InOrder, Told, CoveredBy
  <2> QED
    BY <1>2, <2>7, <2>15 DEF GInv
<1>7. CASE sub' = NoSub /\ UNCHANGED wire
  BY <1>3, <1>7, ResetGapless DEF NoSub
<1> QED
  BY <1>5, <1>6, <1>7 DEF ReadHead

LEMMA ReplayGapless == TInv /\ CInv /\ GInv /\ Replay => GInv'
<1> SUFFICES ASSUME TInv, CInv, GInv, Replay PROVE GInv'
  OBVIOUS
<1>1. PICK items :
           /\ WireFits(items) /\ GoLive(items, sub.head)
           /\ UNCHANGED <<log, published, conn, cl, cache, used>>
           /\ \A d \in sub.after + 1 .. sub.head :
                Told(d) => \E i \in 1 .. Len(items) : items[i].seq = d
           /\ \A i \in 1 .. Len(items) : items[i].kind = "event"
           /\ \A i \in 1 .. Len(items) : \A d \in sub.after + 1 .. items[i].seq - 1 :
                Told(d) => \E j \in 1 .. i - 1 : items[j].seq = d
  BY ReplayIs
<1>2. /\ sub.phase = "replay" /\ wire = <<>> /\ sub.after <= cl.seq
  BY DEF Replay, CInv, Phases
<1>3. /\ Len(log) \in Nat /\ sub.head \in Nat /\ sub.head <= Len(log) /\ sub.after \in Nat
      /\ cl.seq \in Nat /\ published \in 0 .. Len(log) /\ Orderly(log) /\ SubFits(sub)
  BY LogIs, FeedAssumption DEF TInv, ServerFits, ClientFits, Clients, SubFits, Subs
<1>4. PICK n, k, b : n = Len(items) /\ k = Len(b) /\ b = sub.buffer
  OBVIOUS
<1>5. /\ BufferedAll(b, sub.head, published) /\ BufferedInOrder(b, sub.head)
  BY <1>2, <1>4 DEF GInv
<1>6. sub'.phase = "live" /\ sub'.attached = sub.attached
  BY <1>1, <1>3, GoLiveIs
<1>7. /\ n \in Nat /\ k \in Nat
      /\ \A i \in 1 .. n : wire'[i] = items[i]
      /\ \A i \in 1 .. k : wire'[n + i] = b[i]
      /\ IF sub.marker THEN Len(wire') = n + k + 1 /\ wire'[n + k + 1] = Marker
                       ELSE Len(wire') = n + k
  BY <1>1, <1>2, <1>4, WireOfLive
<1>8. \A i \in 1 .. k : b[i].kind = "event"
  BY <1>4, BufferIs DEF TInv
<1>a. \A i \in 1 .. n : items[i].seq \in 1 .. Len(log)
  <2> TAKE i \in 1 .. n
  <2>1. items[i] \in Items /\ Known(items[i]) /\ items[i].kind = "event"
    BY <1>1, <1>4, WireIs
  <2> QED
    BY <1>3, <2>1, ItemIs, MarkerIs
<1>b. \A i \in 1 .. k : b[i].seq \in 1 .. Len(log)
  <2> TAKE i \in 1 .. k
  <2>1. WireFits(b)
    BY <1>3, <1>4, BufferIs
  <2>2. b[i] \in Items /\ Known(b[i]) /\ b[i].kind = "event"
    BY <1>4, <1>8, <2>1, WireIs
  <2> QED
    BY <1>3, <2>2, ItemIs, MarkerIs
<1>9. ASSUME NEW d \in 1 .. sub.head, Told(d), NEW m \in n + 1 .. n + k + 2
      PROVE  CoveredBy(wire', cl.seq, d, m)
  <2>1. CASE d <= cl.seq
    BY <2>1 DEF CoveredBy
  <2>2. CASE ~(d <= cl.seq)
    <3>1. d \in sub.after + 1 .. sub.head
      BY <1>2, <1>3, <2>2
    <3>2. PICK j \in 1 .. n : items[j].seq = d
      BY <1>1, <1>4, <1>9, <3>1
    <3>3. j \in 1 .. m - 1 /\ wire'[j].kind = "event" /\ wire'[j].seq = d
      BY <1>1, <1>4, <1>7, <3>2
    <3> QED
      BY <3>3 DEF CoveredBy
  <2> QED
    BY <2>1, <2>2
<1>10. ASSUME NEW d \in sub.head + 1 .. published, Told(d), NEW m \in n + k + 1 .. n + k + 2
       PROVE  CoveredBy(wire', cl.seq, d, m)
  <2>1. PICK j \in 1 .. k : b[j].seq = d
    BY <1>4, <1>5, <1>10 DEF BufferedAll
  <2>2. n + j \in 1 .. m - 1 /\ wire'[n + j].kind = "event" /\ wire'[n + j].seq = d
    BY <1>7, <1>8, <2>1
  <2> QED
    BY <2>2 DEF CoveredBy
<1>11. AllSent(wire', cl.seq, published)
  <2>1. ASSUME NEW d \in 1 .. published, Told(d)
        PROVE  CoveredBy(wire', cl.seq, d, Len(wire') + 1)
    <3>1. Len(wire') + 1 \in n + k + 1 .. n + k + 2 /\ Len(wire') + 1 \in n + 1 .. n + k + 2
      BY <1>7
    <3>2. d \in 1 .. sub.head \/ d \in sub.head + 1 .. published
      BY <1>3
    <3> QED
      BY <1>9, <1>10, <2>1, <3>1, <3>2
  <2> QED
    BY <2>1 DEF AllSent
<1>12. InOrder(wire', cl.seq)
  <2>1. ASSUME NEW i \in 1 .. Len(wire'), wire'[i].kind = "event",
               NEW d \in 1 .. wire'[i].seq - 1, Told(d)
        PROVE  CoveredBy(wire', cl.seq, d, i)
    <3>1. CASE i \in 1 .. n
      <4>1. wire'[i] = items[i] /\ items[i].seq \in 1 .. Len(log)
        BY <1>7, <1>a, <3>1
      <4>2. CASE d <= cl.seq
        BY <4>2 DEF CoveredBy
      <4>3. CASE ~(d <= cl.seq)
        <5>1. d \in sub.after + 1 .. items[i].seq - 1
          BY <1>2, <1>3, <2>1, <4>1, <4>3
        <5>2. PICK j \in 1 .. i - 1 : items[j].seq = d
          BY <1>1, <1>4, <2>1, <3>1, <5>1
        <5>3. j \in 1 .. n
          BY <1>7, <3>1
        <5>4. wire'[j].kind = "event" /\ wire'[j].seq = d
          BY <1>1, <1>4, <1>7, <5>2, <5>3
        <5> QED
          BY <5>4 DEF CoveredBy
      <4> QED
        BY <4>2, <4>3
    <3>2. CASE i \in n + 1 .. n + k
      <4>1. /\ i - n \in 1 .. k /\ n + (i - n) = i /\ i \in n + 1 .. n + k + 2
        BY <1>7, <3>2
      <4>2. wire'[n + (i - n)] = b[i - n]
        BY <1>7, <4>1
      <4>3. wire'[i] = b[i - n] /\ b[i - n].seq \in 1 .. Len(log)
        BY <1>b, <4>1, <4>2
      <4>4. CASE d <= sub.head
        <5>1. d \in 1 .. sub.head
          BY <1>3, <4>3, <4>4
        <5> QED
          BY <1>9, <2>1, <4>1, <5>1
      <4>5. CASE ~(d <= sub.head)
        <5>1. d \in sub.head + 1 .. b[i - n].seq - 1
          BY <1>3, <2>1, <4>3, <4>5
        <5>2. PICK j \in 1 .. (i - n) - 1 : b[j].seq = d
          BY <1>4, <1>5, <2>1, <4>1, <5>1 DEF BufferedInOrder
        <5>3. j \in 1 .. k /\ n + j \in 1 .. i - 1
          <6>1. n \in Nat /\ k \in Nat /\ i \in n + 1 .. n + k
            BY <1>7, <3>2
          <6>2. j \in Nat /\ 1 <= j /\ j <= i - n - 1
            BY <6>1
          <6> QED
            BY <6>1, <6>2
        <5>4. wire'[n + j].kind = "event" /\ wire'[n + j].seq = d
          BY <1>7, <1>8, <5>2, <5>3
        <5> QED
          BY <5>3, <5>4 DEF CoveredBy
      <4> QED
        BY <4>4, <4>5
    <3>3. CASE i \notin 1 .. n /\ i \notin n + 1 .. n + k
      <4>1. sub.marker /\ i = n + k + 1
        BY <1>7, <2>1, <3>3
      <4> QED
        BY <1>7, <2>1, <4>1, MarkerIs
    <3> QED
      BY <3>1, <3>2, <3>3
  <2> QED
    BY <2>1 DEF InOrder
<1>13. AllSent(wire, cl.seq, published)' /\ InOrder(wire, cl.seq)'
  BY <1>1, <1>11, <1>12 DEF AllSent, InOrder, Told, CoveredBy
<1> QED
  BY <1>5, <1>6, <1>13 DEF GInv

LEMMA DeliverGapless == TInv /\ CInv /\ GInv /\ Deliver => GInv'
<1> SUFFICES ASSUME TInv, CInv, GInv, Deliver PROVE GInv'
  OBVIOUS
<1>1. PICK x : x = wire[1]
  OBVIOUS
<1>2. /\ wire # <<>> /\ x \in Items /\ Known(x)
      /\ cl' = ApplyItem(cl, x) /\ wire' = Tail(wire)
      /\ UNCHANGED <<log, published, conn, sub, cache, used>>
      /\ WireFits(wire) /\ Orderly(log) /\ ClientFits(cl) /\ published \in 0 .. Len(log)
      /\ Len(log) \in Nat
  BY <1>1, DeliverIs, LogIs, FeedAssumption DEF TInv, ServerFits
<1>3. Len(wire) \in Nat \ {0} /\ sub.phase = "live"
  BY <1>2, WireIs DEF CInv, Phases
<1>4. x.kind = "snapshot" => x.snapshot.seq >= cl.seq
  BY <1>1, <1>3 DEF CInv, Phases
<1>5. /\ cl'.seq \in Nat /\ cl.seq \in Nat /\ cl.seq <= cl'.seq
      /\ x.kind = "event" => /\ x.seq \in 1 .. Len(log)
                             /\ cl'.seq = (IF x.seq <= cl.seq THEN cl.seq ELSE x.seq)
      /\ x.kind = "snapshot" => SnapshotFits(x.snapshot) /\ cl'.seq = x.snapshot.seq
  BY <1>2, <1>4, ItemEffect
<1>6. /\ x.kind = "event" => x.seq <= cl'.seq
      /\ x.kind = "snapshot" => x.snapshot.seq <= cl'.seq /\ x.snapshot.seq \in Nat
  BY <1>2, <1>5
<1>7. ASSUME NEW d \in Nat, NEW m \in 1 .. Len(wire) + 1, CoveredBy(wire, cl.seq, d, m)
      PROVE  CoveredBy(wire', cl'.seq, d, m - 1)
  BY <1>1, <1>2, <1>5, <1>6, <1>7, CoveredAfter
<1>8. /\ Len(wire') = Len(wire) - 1
      /\ \A i \in 1 .. Len(wire') : wire'[i] = wire[i + 1] /\ i + 1 \in 1 .. Len(wire)
  BY <1>2, <1>3, WireTail
<1>9. AllSent(wire', cl'.seq, published)
  <2>1. ASSUME NEW d \in 1 .. published, Told(d)
        PROVE  CoveredBy(wire', cl'.seq, d, Len(wire') + 1)
    <3>1. CoveredBy(wire, cl.seq, d, Len(wire) + 1)
      BY <1>3, <2>1 DEF GInv, AllSent
    <3>2. /\ Len(wire) + 1 \in 1 .. Len(wire) + 1 /\ (Len(wire) + 1) - 1 = Len(wire') + 1
          /\ d \in Nat
      BY <1>2, <1>3, <1>8
    <3>3. CoveredBy(wire', cl'.seq, d, (Len(wire) + 1) - 1)
      BY <1>7, <3>1, <3>2
    <3> QED
      BY <3>2, <3>3
  <2> QED
    BY <2>1 DEF AllSent
<1>10. InOrder(wire', cl'.seq)
  <2>1. ASSUME NEW i \in 1 .. Len(wire'), wire'[i].kind = "event",
               NEW d \in 1 .. wire'[i].seq - 1, Told(d)
        PROVE  CoveredBy(wire', cl'.seq, d, i)
    <3>1. wire'[i] = wire[i + 1] /\ i + 1 \in 1 .. Len(wire)
      BY <1>8
    <3>2. CoveredBy(wire, cl.seq, d, i + 1)
      BY <2>1, <3>1 DEF GInv, InOrder
    <3>3. i + 1 \in 1 .. Len(wire) + 1 /\ (i + 1) - 1 = i /\ d \in Nat
      BY <1>3, <3>1
    <3>4. CoveredBy(wire', cl'.seq, d, (i + 1) - 1)
      BY <1>7, <3>2, <3>3
    <3> QED
      BY <3>3, <3>4
  <2> QED
    BY <2>1 DEF InOrder
<1>11. AllSent(wire, cl.seq, published)' /\ InOrder(wire, cl.seq)'
  BY <1>2, <1>9, <1>10 DEF AllSent, InOrder, Told, CoveredBy
<1> QED
  BY <1>2, <1>3, <1>11 DEF GInv

LEMMA BeginningGapless ==
  /\ TInv /\ CInv
  /\ Connect \/ Disconnect \/ Reconnect \/ Establish \/ Subscribe \/ Resubscribe \/ Reopen
  => GInv'
<1> SUFFICES ASSUME TInv, CInv, Connect \/ Disconnect \/ Reconnect \/ Establish \/ Subscribe
                                \/ Resubscribe \/ Reopen
             PROVE  GInv'
  OBVIOUS
<1>1. NoSub.phase = "none"
  BY DEF NoSub
<1>2. CASE Connect \/ Establish
  <2>1. sub.phase = "none" /\ wire = <<>> /\ UNCHANGED <<sub, wire>>
    BY <1>2 DEF Connect, Establish, CInv, Phases
  <2> QED
    BY <2>1, ResetGapless
<1>3. CASE Disconnect \/ Reconnect
  BY <1>1, <1>3, ResetGapless DEF Disconnect, Reconnect
<1>4. CASE Resubscribe \/ Reopen
  BY <1>1, <1>4, ResubscribeIs, ReopenIs, ResetGapless
<1>5. CASE Subscribe
  <2>1. cl.phase = "loading" /\ wire' = wire
    BY <1>5, SubscribeIs
  <2>2. wire = <<>>
    BY <2>1 DEF CInv, Phases
  <2>3. \E l \in Clients : sub' = Opened(l, conn.server)
    BY <1>5, SubscribeIs
  <2>4. conn.server \in Servers
    BY DEF TInv, ServerFits, Conns
  <2>5. sub'.phase = "open"
    BY <2>3, <2>4, OpenedIs
  <2> QED
    BY <2>1, <2>2, <2>5, ResetGapless
<1> QED
  BY <1>2, <1>3, <1>4, <1>5

LEMMA InitGapless == Init => GInv
  BY EmptySeq DEF Init, GInv, NoSub, InOrder

\* It holds as long as every live fiber listened to what was published.
Gapless == unheard = {} => GInv

LEMMA StepGapless == TInv /\ CInv /\ Gapless /\ [Next]_vars => Gapless'
<1> SUFFICES ASSUME TInv, CInv, Gapless, [Next]_vars, unheard' = {} PROVE GInv'
  BY DEF Gapless
<1>0. GInv
  <2>1. unheard = {}
    BY UnheardGrows
  <2> QED
    BY <2>1 DEF Gapless
<1>1. CASE UNCHANGED vars
  BY <1>0, <1>1, StillGapless DEF vars
<1>2. CASE LoadOlderTurns \/ AnswerOlderTurns \/ TakeOlderTurns \/ Save
  BY <1>0, <1>2, ClientFitsStill, StillGapless
<1> QED
  BY <1>0, <1>1, <1>2, CommitGapless, PublishGapless, AttachGapless, ReadHeadGapless, ReplayGapless,
     DeliverGapless, BeginningGapless DEF Next, ServerStep, ClientStep

-----------------------------------------------------------------------------
(* The folds: what the view shows, what is saved, and what is waited for *)

\* Turn `c` was opened by event `n`.
Opens(c, n) == c \in 1 .. n /\ log[c].kind = "turn"

\* Where a page ends may be wrong about the turns that were sent deltas late, if it has an
\* end; elsewhere the thread is the fold of the log, cut at a turn.
Odd(p, n) == IF p.windowed THEN Late(n) ELSE {}
CutFits(p, n) == p.more => p.windowed /\ Opens(p.cursor, n)
Good(s) == /\ Agree(s.thread, Cut(ThreadAt(s.seq), s.page), Odd(s.page, s.seq))
           /\ CutFits(s.page, s.seq)

\* The page of the turns before `c` as it was after some event of the log.
WindowAt(n, c) == TurnWindow(ThreadAt(n), c)
IsPage(s, c) ==
  /\ s.seq <= Len(log) /\ s.watermark = Watermark(s.seq)
  /\ s.thread = WindowAt(s.seq, c).thread /\ s.page = WindowAt(s.seq, c).page

\* A view that ends at turn `c`, and one the page before `c` was merged into.
CutAt(p, c) == p.more /\ p.cursor = c
CutBelow(p, n, c) == SameCut(WindowAt(n, c).page, p)

\* An older page is out for, or here, and nothing has made it stale.
Asks(d) == d.asked.phase # "none" /\ d.asked.fresh
Answered(d) == d.asked.phase = "answered" /\ d.asked.snapshot # NoSnapshot

\* What is shown and what is saved are good. What is asked for, answered or parked is the
\* page before a turn at which the view ends, or below which it has that page already;
\* a parked page is ahead of the view, and an answer is not behind a parked page.
Shows(d) == (d.has => Good(d)) /\ (~d.has => ~d.page.windowed) /\ Good(d.saving)
AskFits(d) == Asks(d) =>
  /\ d.has /\ Opens(d.asked.cursor, d.seq)
  /\ \/ CutAt(d.page, d.asked.cursor)
     \/ CutBelow(d.page, d.seq, d.asked.cursor) /\ ~Parked(d)
AnswerFits(d) == Answered(d) =>
  /\ IsPage(d.asked.snapshot, d.asked.cursor)
  /\ Parked(d) => d.asked.snapshot.watermark >= d.parked.snapshot.watermark
ParkFits(d) == Parked(d) =>
  /\ d.has /\ d.seq < d.parked.snapshot.watermark
  /\ \E c \in 1 .. d.seq : /\ Opens(c, d.seq) /\ IsPage(d.parked.snapshot, c)
                           /\ CutAt(d.page, c) \/ CutBelow(d.page, d.seq, c)
ViewFits(d) == Shows(d) /\ AskFits(d) /\ AnswerFits(d) /\ ParkFits(d)

\* And so is what was saved on disk, and what a snapshot on the wire brings.
FInv ==
  /\ ViewFits(cl) /\ Good(cache)
  /\ \A i \in 1 .. Len(wire) : wire[i].kind = "snapshot" => Good(wire[i].snapshot)

\* A delta of a turn below one that was opened before it is late.
LEMMA DeltaIsLate ==
  ASSUME Orderly(log), NEW s \in 1 .. Len(log), log[s].kind = "delta",
         NEW c, Opens(c, s - 1), log[s].of < c
  PROVE  log[s].of \in Late(s)
<1>1. log[s] \in Events /\ s \in 1 .. s /\ Len(log) \in Nat /\ c \in Nat
  BY LogIs, FeedAssumption DEF Logs, Opens
<1>2. log[s].of \in Nat
  BY <1>1, FeedAssumption DEF Events
<1>3. c \in log[s].of + 1 .. s - 1 /\ log[c].kind = "turn"
  BY <1>1, <1>2 DEF Opens
<1> QED
  BY <1>1, <1>3 DEF Late

\* A turn that is late stays so.
LEMMA LateGrows ==
  ASSUME NEW q \in Nat, NEW n \in Nat, q <= n
  PROVE  Late(q) \subseteq Late(n)
<1>1. \A j \in 1 .. q : j \in 1 .. n
  OBVIOUS
<1> QED
  BY <1>1 DEF Late

LEMMA OddGrows ==
  ASSUME NEW q \in Nat, NEW n \in Nat, q <= n, NEW p
  PROVE  Odd(p, q) \subseteq Odd(p, n)
BY LateGrows DEF Odd

\* Agreement is a congruence of the reducer and of the merge.
LEMMA AgreeSame == ASSUME NEW a, NEW l PROVE Agree(a, a, l)
BY DEF Agree

LEMMA AgreeTrans ==
  ASSUME NEW a, NEW b, NEW c, NEW k, NEW l, k \subseteq l, Agree(a, b, k), Agree(b, c, l)
  PROVE  Agree(a, c, l)
<1>1. \A t : t \in DOMAIN a /\ t \notin l =>
              t \in DOMAIN b /\ a[t] = b[t] /\ t \in DOMAIN c /\ b[t] = c[t]
  BY DEF Agree
<1>2. \A t : t \in DOMAIN c /\ t \notin l => t \in DOMAIN a
  BY DEF Agree
<1> QED
  BY <1>1, <1>2 DEF Agree

LEMMA AgreePut ==
  ASSUME NEW a, NEW b, NEW l, Agree(a, b, l), NEW u, NEW x, NEW y, u \notin l => x = y
  PROVE  Agree(Put(a, u, x), Put(b, u, y), l)
<1>1. \A t : (t \in DOMAIN a /\ t \notin l) <=> (t \in DOMAIN b /\ t \notin l)
  BY DEF Agree
<1>2. \A t : t \in DOMAIN a /\ t \notin l => a[t] = b[t]
  BY DEF Agree
<1>3. /\ DOMAIN Put(a, u, x) = DOMAIN a \cup {u} /\ DOMAIN Put(b, u, y) = DOMAIN b \cup {u}
      /\ \A t \in DOMAIN a \cup {u} : Put(a, u, x)[t] = IF t = u THEN x ELSE a[t]
      /\ \A t \in DOMAIN b \cup {u} : Put(b, u, y)[t] = IF t = u THEN y ELSE b[t]
  BY DEF Put
<1> HIDE DEF Put
<1>4. DOMAIN Put(a, u, x) \ l = DOMAIN Put(b, u, y) \ l
  BY <1>1, <1>3
<1>5. ASSUME NEW t \in DOMAIN Put(a, u, x) \ l PROVE Put(a, u, x)[t] = Put(b, u, y)[t]
  BY <1>1, <1>2, <1>3
<1> QED
  BY <1>4, <1>5 DEF Agree

LEMMA AgreeReduced ==
  ASSUME NEW a, NEW b, NEW l, Agree(a, b, l), NEW s, NEW e
  PROVE  Agree(Reduce(a, s, e), Reduce(b, s, e), l)
<1>1. CASE e.kind = "turn"
  <2>1. Reduce(a, s, e) = Put(a, s, <<s>>) /\ Reduce(b, s, e) = Put(b, s, <<s>>)
    BY <1>1 DEF Reduce
  <2> QED
    BY <2>1, AgreePut
<1>2. CASE e.kind = "delta"
  <2> DEFINE x == IF e.of \in DOMAIN a THEN Append(a[e.of], s) ELSE <<s>>
             y == IF e.of \in DOMAIN b THEN Append(b[e.of], s) ELSE <<s>>
  <2>1. Reduce(a, s, e) = Put(a, e.of, x) /\ Reduce(b, s, e) = Put(b, e.of, y)
    BY <1>2 DEF Reduce
  <2>2. e.of \notin l => (e.of \in DOMAIN a <=> e.of \in DOMAIN b)
    BY DEF Agree
  <2>3. e.of \notin l /\ e.of \in DOMAIN a => a[e.of] = b[e.of]
    BY DEF Agree
  <2>4. e.of \notin l => x = y
    BY <2>2, <2>3
  <2> HIDE DEF x, y
  <2> QED
    BY <2>1, <2>4, AgreePut
<1>3. CASE e.kind = "reverted"
  <2> DEFINE A == {t \in DOMAIN a : t <= e.of}
             B == {t \in DOMAIN b : t <= e.of}
  <2>1. Reduce(a, s, e) = [t \in A |-> a[t]] /\ Reduce(b, s, e) = [t \in B |-> b[t]]
    BY <1>3 DEF Reduce, Restrict
  <2>2. A \ l = B \ l /\ \A t \in A \ l : a[t] = b[t] /\ t \in B
    BY DEF Agree
  <2> HIDE DEF A, B
  <2>3. Agree([t \in A |-> a[t]], [t \in B |-> b[t]], l)
    BY <2>2 DEF Agree
  <2> QED
    BY <2>1, <2>3
<1>4. CASE e.kind \notin {"turn", "delta", "reverted"}
  BY <1>4 DEF Reduce
<1> QED
  BY <1>1, <1>2, <1>3, <1>4

LEMMA AgreeMerged ==
  ASSUME NEW a, NEW b, NEW l, Agree(a, b, l), NEW w
  PROVE  Agree(MergeRows(a, w), MergeRows(b, w), l)
<1>1. \A t : (t \in DOMAIN a /\ t \notin l) <=> (t \in DOMAIN b /\ t \notin l)
  BY DEF Agree
<1>2. \A t : t \in DOMAIN a /\ t \notin l => a[t] = b[t]
  BY DEF Agree
<1> DEFINE A == DOMAIN a \cup DOMAIN w
           B == DOMAIN b \cup DOMAIN w
<1>3. A \ l = B \ l
  BY <1>1
<1>4. \A t \in A \ l : (IF t \in DOMAIN a THEN a[t] ELSE w[t])
                          = (IF t \in DOMAIN b THEN b[t] ELSE w[t])
  BY <1>1, <1>2
<1>5. /\ MergeRows(a, w) = [t \in A |-> IF t \in DOMAIN a THEN a[t] ELSE w[t]]
      /\ MergeRows(b, w) = [t \in B |-> IF t \in DOMAIN b THEN b[t] ELSE w[t]]
  BY DEF MergeRows
<1>6. \A t \in A \ l : t \in A /\ t \in B
  BY <1>3
<1> HIDE DEF A, B
<1> QED
  BY <1>3, <1>4, <1>5, <1>6 DEF Agree

\* Events that are not told do not change the thread: the next one that is folds into
\* the thread as it was.
LEMMA FoldNext ==
  ASSUME Orderly(log), NEW q \in Nat, NEW s \in 1 .. Len(log), q < s,
         \A d \in 1 .. s - 1 : Told(d) => d <= q
  PROVE  /\ ThreadAt(s) = Reduce(ThreadAt(q), s, log[s])
         /\ log[s].kind = "delta" => log[s].of \in DOMAIN ThreadAt(q)
         /\ q \in 0 .. Len(log) /\ s - 1 \in Nat
<1>1. /\ log \in Logs /\ Len(log) \in Nat /\ s - 1 \in Nat /\ q <= s - 1 /\ s - 1 < Len(log)
      /\ (s - 1) + 1 = s /\ s - 1 <= Len(log) /\ q \in 0 .. Len(log) /\ s \in DOMAIN log
  BY LogIs
<1>2. \A i \in q + 1 .. s - 1 : log[i].kind \notin Detail
  BY <1>1 DEF Told
<1>3. ThreadOf(log, s - 1) = ThreadOf(log, q)
  BY <1>1, <1>2, ThreadOfQuiet
<1>4. ThreadOf(log, (s - 1) + 1) = Reduce(ThreadOf(log, s - 1), (s - 1) + 1, log[(s - 1) + 1])
  BY <1>1, ThreadOfRecursion
<1>5. log[s].kind = "delta" => log[s].of \in DOMAIN ThreadOf(log, s - 1)
  BY <1>1 DEF Orderly, Streams
<1> QED
  BY <1>1, <1>3, <1>4, <1>5 DEF ThreadAt

\* After its last told event the thread does not change.
LEMMA QuietSince ==
  ASSUME Orderly(log), NEW n \in Nat, n <= Len(log), NEW q \in Nat, q <= n,
         Watermark(n) <= q
  PROVE  ThreadAt(n) = ThreadAt(q)
<1>1. log \in Logs /\ Len(log) \in Nat
  BY LogIs
<1>2. Watermark(n) \in 0 .. n /\ \A d \in 1 .. n : Told(d) => d <= Watermark(n)
  BY WatermarkIs
<1>3. \A i \in q + 1 .. n : log[i].kind \notin Detail
  <2>1. ASSUME NEW i \in q + 1 .. n, Told(i) PROVE FALSE
    BY <1>2, <2>1
  <2> QED
    BY <2>1 DEF Told
<1>4. ThreadOf(log, n) = ThreadOf(log, q)
  BY <1>1, <1>3, ThreadOfQuiet
<1> QED
  BY <1>4 DEF ThreadAt

\* Where two threads have the same turns before `c`, their pages before `c` end alike.
LEMMA WindowOfLow ==
  ASSUME NEW t, NEW u, NEW c, c # 0,
         \A x : (x \in DOMAIN t /\ x < c) <=> (x \in DOMAIN u /\ x < c)
  PROVE  TurnWindow(t, c).page = TurnWindow(u, c).page
<1> DEFINE B == {x \in DOMAIN t : c = 0 \/ x < c}
           D == {x \in DOMAIN u : c = 0 \/ x < c}
<1>1. B = D
  OBVIOUS
<1> QED
  BY <1>1 DEF TurnWindow

\* Folding an event commutes with a cut it does not reach below.
LEMMA CutReduced ==
  ASSUME NEW t, NEW p, NEW s, NEW e,
         p.more => s >= p.cursor,
         e.kind = "delta" => e.of \in DOMAIN t /\ (p.more => e.of >= p.cursor)
  PROVE  Reduce(Cut(t, p), s, e) = Cut(Reduce(t, s, e), p)
<1> DEFINE S == {u \in DOMAIN t : p.more => u >= p.cursor}
<1>1. Cut(t, p) = [u \in S |-> t[u]]
  BY DEF Cut, Restrict
<1>2. CASE e.kind = "turn"
  <2> DEFINE r == Put(t, s, <<s>>)
             R == {u \in DOMAIN r : p.more => u >= p.cursor}
  <2>1. Reduce(Cut(t, p), s, e) = Put(Cut(t, p), s, <<s>>) /\ Reduce(t, s, e) = r
    BY <1>2 DEF Reduce
  <2>2. /\ r = [u \in DOMAIN t \cup {s} |-> IF u = s THEN <<s>> ELSE t[u]]
        /\ Put(Cut(t, p), s, <<s>>) = [u \in S \cup {s} |-> IF u = s THEN <<s>> ELSE Cut(t, p)[u]]
    BY <1>1 DEF Put
  <2>3. R = S \cup {s}
    BY <2>2
  <2>4. \A u \in R : (IF u = s THEN <<s>> ELSE Cut(t, p)[u]) = r[u]
    BY <1>1, <2>2, <2>3
  <2>5. Cut(r, p) = [u \in R |-> r[u]]
    BY DEF Cut, Restrict
  <2> HIDE DEF R, r, S
  <2> QED
    BY <2>1, <2>2, <2>3, <2>4, <2>5
<1>3. CASE e.kind = "delta"
  <2> DEFINE x == Append(t[e.of], s)
             r == Put(t, e.of, x)
             R == {u \in DOMAIN r : p.more => u >= p.cursor}
  <2>1. e.of \in S /\ e.of \in DOMAIN t
    BY <1>3
  <2>2. Reduce(Cut(t, p), s, e) = Put(Cut(t, p), e.of, x) /\ Reduce(t, s, e) = r
    BY <1>1, <1>3, <2>1 DEF Reduce
  <2>3. /\ r = [u \in DOMAIN t \cup {e.of} |-> IF u = e.of THEN x ELSE t[u]]
        /\ Put(Cut(t, p), e.of, x) = [u \in S \cup {e.of} |-> IF u = e.of THEN x ELSE Cut(t, p)[u]]
    BY <1>1 DEF Put
  <2>4. R = S \cup {e.of}
    BY <2>1, <2>3
  <2>5. \A u \in R : (IF u = e.of THEN x ELSE Cut(t, p)[u]) = r[u]
    BY <1>1, <2>1, <2>3, <2>4
  <2>6. Cut(r, p) = [u \in R |-> r[u]]
    BY DEF Cut, Restrict
  <2> HIDE DEF R, r, S, x
  <2> QED
    BY <2>2, <2>3, <2>4, <2>5, <2>6
<1>4. CASE e.kind = "reverted"
  <2> DEFINE r == Restrict(t, {u \in DOMAIN t : u <= e.of})
  <2>1. Reduce(Cut(t, p), s, e) = Restrict(Cut(t, p), {u \in DOMAIN Cut(t, p) : u <= e.of})
    BY <1>4 DEF Reduce
  <2>2. Reduce(t, s, e) = r
    BY <1>4 DEF Reduce
  <2>3. Restrict(Cut(t, p), {u \in DOMAIN Cut(t, p) : u <= e.of})
          = [u \in {u \in S : u <= e.of} |-> t[u]]
    BY <1>1 DEF Restrict
  <2>4. Cut(r, p) = [u \in {u \in S : u <= e.of} |-> t[u]]
    BY DEF Restrict, Cut
  <2> QED
    BY <2>1, <2>2, <2>3, <2>4
<1>5. CASE e.kind \notin Detail
  BY <1>5 DEF Reduce, Detail
<1> QED
  BY <1>2, <1>3, <1>4, <1>5 DEF Detail

\* If it does, it is a late delta, and the row it makes is of a late turn.
LEMMA CutReducedLate ==
  ASSUME NEW t, NEW p, NEW s, NEW e, NEW l, e.kind = "delta",
         p.more, ~(e.of >= p.cursor), e.of \in l
  PROVE  Agree(Reduce(Cut(t, p), s, e), Cut(Reduce(t, s, e), p), l)
<1> DEFINE S == {u \in DOMAIN t : p.more => u >= p.cursor}
<1>1. Cut(t, p) = [u \in S |-> t[u]]
  BY DEF Cut, Restrict
<1>2. PICK x : Reduce(t, s, e) = Put(t, e.of, x)
  BY DEF Reduce
<1>3. PICK y : Reduce(Cut(t, p), s, e) = Put(Cut(t, p), e.of, y)
  BY DEF Reduce
<1>4. PICK a : a = Put(t, e.of, x)
  OBVIOUS
<1>5. a = [u \in DOMAIN t \cup {e.of} |-> IF u = e.of THEN x ELSE t[u]]
  BY <1>4 DEF Put
<1> DEFINE A == {u \in DOMAIN a : p.more => u >= p.cursor}
<1>6. Cut(a, p) = [u \in A |-> a[u]]
  BY DEF Cut, Restrict
<1>7. Put(Cut(t, p), e.of, y) = [u \in S \cup {e.of} |-> IF u = e.of THEN y ELSE Cut(t, p)[u]]
  BY <1>1 DEF Put
<1>8. A \ l = (S \cup {e.of}) \ l
  BY <1>5
<1>9. \A u \in A \ l : /\ u # e.of /\ u \in S /\ u \in A /\ a[u] = t[u]
                       /\ Cut(t, p)[u] = t[u]
  BY <1>1, <1>5
<1> HIDE DEF A, S
<1>10. Agree(Put(Cut(t, p), e.of, y), Cut(a, p), l)
  BY <1>6, <1>7, <1>8, <1>9 DEF Agree
<1> QED
  BY <1>2, <1>3, <1>4, <1>10

\* An event that is no revert opens and closes no turn below one that is open.
LEMMA LowReduced ==
  ASSUME NEW t, NEW s \in Nat, NEW e, e.kind # "reverted",
         NEW c \in Nat, c < s, e.kind = "delta" => e.of \in DOMAIN t
  PROVE  \A x : (x \in DOMAIN t /\ x < c) <=> (x \in DOMAIN Reduce(t, s, e) /\ x < c)
<1>1. CASE e.kind = "turn"
  BY <1>1 DEF Reduce, Put
<1>2. CASE e.kind = "delta"
  BY <1>2 DEF Reduce, Put
<1>3. CASE e.kind \notin {"turn", "delta"}
  BY <1>3 DEF Reduce
<1> QED
  BY <1>1, <1>2, <1>3

\* The page before a turn ends where it did after an event that is no revert.
LEMMA WindowStill ==
  ASSUME Orderly(log), NEW q \in Nat, NEW s \in 1 .. Len(log), q < s,
         \A d \in 1 .. s - 1 : Told(d) => d <= q, log[s].kind # "reverted",
         NEW c, Opens(c, q)
  PROVE  WindowAt(s, c).page = WindowAt(q, c).page
<1>1. /\ ThreadAt(s) = Reduce(ThreadAt(q), s, log[s])
      /\ log[s].kind = "delta" => log[s].of \in DOMAIN ThreadAt(q)
      /\ c \in Nat /\ c # 0 /\ c < s /\ s \in Nat
  BY FoldNext, LogIs DEF Opens
<1>2. \A x : (x \in DOMAIN ThreadAt(q) /\ x < c) <=> (x \in DOMAIN ThreadAt(s) /\ x < c)
  BY <1>1, LowReduced
<1>3. TurnWindow(ThreadAt(q), c).page = TurnWindow(ThreadAt(s), c).page
  BY <1>1, <1>2, WindowOfLow
<1> QED
  BY <1>3 DEF WindowAt

\* The next told event, folded into a view cut at a turn.
LEMMA CutNext ==
  ASSUME Orderly(log), NEW q \in Nat, NEW s \in 1 .. Len(log), q < s,
         \A d \in 1 .. s - 1 : Told(d) => d <= q, NEW p, CutFits(p, q)
  PROVE  /\ Agree(Reduce(Cut(ThreadAt(q), p), s, log[s]), Cut(ThreadAt(s), p), Odd(p, s))
         /\ CutFits(p, s)
<1>1. /\ ThreadAt(s) = Reduce(ThreadAt(q), s, log[s])
      /\ log[s].kind = "delta" => log[s].of \in DOMAIN ThreadAt(q)
      /\ Len(log) \in Nat
      /\ log[s].kind = "delta" => log[s].of \in Nat
  BY FoldNext, LogIs
<1>2. p.more => /\ p.windowed /\ Opens(p.cursor, s - 1)
                /\ Opens(p.cursor, s) /\ s >= p.cursor /\ p.cursor \in Nat
  BY <1>1 DEF CutFits, Opens
<1>3. CASE log[s].kind = "delta" /\ p.more /\ ~(log[s].of >= p.cursor)
  <2>0. PICK c : c = p.cursor
    OBVIOUS
  <2>1. log[s].of \in Late(s)
    <3>1. Opens(c, s - 1) /\ c \in Nat
      BY <1>2, <1>3, <2>0
    <3>2. log[s].of < c
      BY <1>1, <1>3, <2>0, <3>1
    <3> QED
      BY <1>3, <3>1, <3>2, DeltaIsLate
  <2>2. log[s].of \in Odd(p, s)
    BY <1>2, <1>3, <2>1 DEF Odd
  <2> QED
    BY <1>1, <1>2, <1>3, <2>2, CutReducedLate DEF CutFits
<1>4. CASE ~(log[s].kind = "delta" /\ p.more /\ ~(log[s].of >= p.cursor))
  <2>1. Reduce(Cut(ThreadAt(q), p), s, log[s]) = Cut(Reduce(ThreadAt(q), s, log[s]), p)
    BY <1>1, <1>2, <1>4, CutReduced
  <2> QED
    BY <1>1, <1>2, <2>1, AgreeSame DEF CutFits
<1> QED
  BY <1>3, <1>4

\* The page before turn `c`, merged into a view that ends at `c` or has it already.
LEMMA MergedIs ==
  ASSUME Orderly(log), NEW n \in 0 .. Len(log), NEW c, Opens(c, n), NEW p,
         CutAt(p, c) \/ CutBelow(p, n, c)
  PROVE  LET w == WindowAt(n, c)
         IN  /\ MergeRows(Cut(ThreadAt(n), p), w.thread) = Cut(ThreadAt(n), w.page)
             /\ w.page.windowed /\ (w.page.more => Opens(w.page.cursor, n))
<1>1. PICK t : t = ThreadAt(n)
  OBVIOUS
<1>2. PICK w : w = TurnWindow(t, c)
  OBVIOUS
<1>3. /\ t \in Threads /\ c \in Nat /\ c # 0 /\ n \in Nat
      /\ \A u \in DOMAIN t : u \in 1 .. n /\ log[u].kind = "turn"
  BY <1>1, LogIs DEF Opens
<1> DEFINE B == {u \in DOMAIN t : /\ c = 0 \/ u < c
                                  /\ w.page.more => u >= w.page.cursor}
<1>4. /\ w.page \in Pages /\ w.page.windowed
      /\ w.page.more => w.page.cursor \in DOMAIN t /\ (c = 0 \/ w.page.cursor < c)
      /\ w.thread = Restrict(t, B)
  <2>1. w.page \in Pages /\ w.page.windowed
    BY <1>2, <1>3, TurnWindowIs
  <2>2. w.page.more => w.page.cursor \in DOMAIN t /\ (c = 0 \/ w.page.cursor < c)
    BY <1>2, <1>3, TurnWindowIs
  <2>3. w.thread = Restrict(t, B)
    BY <1>2, <1>3, TurnWindowIs
  <2> QED
    BY <2>1, <2>2, <2>3
<1>5. w.page.more => Opens(w.page.cursor, n)
  BY <1>3, <1>4 DEF Opens
<1> DEFINE A == {u \in DOMAIN t : p.more => u >= p.cursor}
           D == {u \in DOMAIN t : w.page.more => u >= w.page.cursor}
<1>6. /\ Cut(t, p) = [u \in A |-> t[u]] /\ w.thread = [u \in B |-> t[u]]
      /\ Cut(t, w.page) = [u \in D |-> t[u]]
  BY <1>4 DEF Cut, Restrict
<1>7. A \cup B = D
  <2>1. CASE CutAt(p, c)
    <3>1. w.page.more => w.page.cursor \in Nat /\ w.page.cursor < c
      BY <1>3, <1>4
    <3>2. \A u \in DOMAIN t : u \in Nat
      BY <1>3
    <3>3. \A u \in DOMAIN t : (p.more => u >= p.cursor) <=> u >= c
      BY <2>1 DEF CutAt
    <3>4. ASSUME NEW u \in DOMAIN t
          PROVE  (u \in A \/ u \in B) <=> u \in D
      BY <1>3, <3>1, <3>2, <3>3
    <3> QED
      BY <3>4
  <2>2. CASE CutBelow(p, n, c)
    <3>1. p.more = w.page.more /\ p.cursor = w.page.cursor
      BY <1>1, <1>2, <2>2 DEF CutBelow, SameCut, WindowAt
    <3>2. ASSUME NEW u \in DOMAIN t
          PROVE  (u \in A \/ u \in B) <=> u \in D
      BY <3>1
    <3> QED
      BY <3>2
  <2> QED
    BY <2>1, <2>2
<1>8. MergeRows(Cut(t, p), w.thread) = [u \in A \cup B |-> IF u \in A THEN t[u] ELSE t[u]]
  <2>1. MergeRows(Cut(t, p), w.thread)
          = [u \in A \cup B |-> IF u \in A THEN Cut(t, p)[u] ELSE w.thread[u]]
    BY <1>6 DEF MergeRows
  <2>2. \A u \in A \cup B : (IF u \in A THEN Cut(t, p)[u] ELSE w.thread[u])
                              = (IF u \in A THEN t[u] ELSE t[u])
    BY <1>6
  <2> HIDE DEF A, B
  <2> QED
    BY <2>1, <2>2
<1>9. MergeRows(Cut(t, p), w.thread) = Cut(t, w.page)
  BY <1>6, <1>7, <1>8
<1> QED
  BY <1>1, <1>2, <1>4, <1>5, <1>9 DEF WindowAt

\* What shows as much is as good; so is what is saved of it.
LEMMA GoodStill ==
  ASSUME NEW c, NEW d, Good(c), d.thread = c.thread, d.seq = c.seq, SameCut(c.page, d.page)
  PROVE  Good(d)
<1>1. Cut(ThreadAt(c.seq), c.page) = Cut(ThreadAt(c.seq), d.page)
  BY DEF Cut, SameCut
<1> QED
  BY <1>1 DEF Good, CutFits, Odd, SameCut

LEMMA GoodSaved ==
  ASSUME NEW c, Good(c), Saves(c)
  PROVE  Good(c.saving)
  BY GoodStill DEF Saves, SameCut

LEMMA GoodNothing == Orderly(log) => Good(NoSnapshot)
<1> SUFFICES ASSUME Orderly(log) PROVE Good(NoSnapshot)
  OBVIOUS
<1>1. ThreadAt(0) = EmptyThread
  BY LogIs, ThreadOfRecursion DEF ThreadAt
<1>2. Cut(EmptyThread, NoPage) = EmptyThread
  BY DEF Cut, EmptyThread, Restrict
<1> QED
  BY <1>1, <1>2, AgreeSame DEF Good, NoSnapshot, NoPage, CutFits

\* A view that shows as much and waits for as much still fits.
LEMMA ViewStill ==
  ASSUME NEW c, NEW d, ViewFits(c), SameView(c, d), SameWait(c, d), Good(d.saving)
  PROVE  ViewFits(d)
<1>1. Good(c) => Good(d)
  BY DEF SameView, Good
<1> QED
  BY <1>1 DEF ViewFits, Shows, AskFits, AnswerFits, ParkFits, SameView, SameWait, Asks, Answered,
     Parked

\* One that waits for nothing any more fits if what it shows is good.
LEMMA ViewAnew ==
  ASSUME NEW c, NEW d, ViewFits(c), Shows(d), d.asked.phase = c.asked.phase,
         d.asked.cursor = c.asked.cursor, d.asked.snapshot = c.asked.snapshot,
         ~d.asked.fresh, ~Parked(d)
  PROVE  ViewFits(d)
  BY DEF ViewFits, AskFits, AnswerFits, ParkFits, Asks, Answered

\* The page before `c`, as it was when the log ended at `n`, is still the page at `q`, when
\* nothing was told in between.
LEMMA PageSince ==
  ASSUME Orderly(log), NEW s \in Snapshots, NEW c, IsPage(s, c), NEW q \in Nat,
         q <= s.seq, s.watermark <= q
  PROVE  s.thread = WindowAt(q, c).thread /\ s.page = WindowAt(q, c).page
<1>1. s.seq \in Nat /\ s.seq <= Len(log) /\ s.watermark = Watermark(s.seq)
  BY FeedAssumption DEF Snapshots, IsPage
<1>2. ThreadAt(s.seq) = ThreadAt(q)
  BY <1>1, QuietSince
<1> QED
  BY <1>2 DEF IsPage, WindowAt

\* Merged into a view at `q`, the page leaves it good.
LEMMA GoodMerged ==
  ASSUME Orderly(log), NEW v, Good(v), v.seq \in 0 .. Len(log),
         NEW s, NEW c, Opens(c, v.seq),
         s.thread = WindowAt(v.seq, c).thread, s.page = WindowAt(v.seq, c).page,
         CutAt(v.page, c) \/ CutBelow(v.page, v.seq, c),
         NEW d, d.thread = MergeRows(v.thread, s.thread), d.page = s.page, d.seq = v.seq
  PROVE  Good(d)
<1>1. /\ MergeRows(Cut(ThreadAt(v.seq), v.page), s.thread) = Cut(ThreadAt(v.seq), s.page)
      /\ s.page.windowed /\ (s.page.more => Opens(s.page.cursor, v.seq))
  BY MergedIs
<1>2. Odd(v.page, v.seq) \subseteq Odd(s.page, v.seq)
  BY <1>1 DEF Odd
<1>3. Agree(d.thread, Cut(ThreadAt(v.seq), s.page), Odd(v.page, v.seq))
  BY <1>1, AgreeMerged DEF Good
<1>4. Agree(d.thread, Cut(ThreadAt(v.seq), s.page), Odd(s.page, v.seq))
  <2>1. PICK k, l : k = Odd(v.page, v.seq) /\ l = Odd(s.page, v.seq)
    OBVIOUS
  <2>2. PICK a, b : a = d.thread /\ b = Cut(ThreadAt(v.seq), s.page)
    OBVIOUS
  <2>3. Agree(a, b, k) /\ Agree(b, b, l) /\ k \subseteq l
    BY <1>2, <1>3, <2>1, <2>2, AgreeSame
  <2>4. Agree(a, b, l)
    BY <2>3, AgreeTrans
  <2> QED
    BY <2>1, <2>2, <2>4
<1> QED
  BY <1>1, <1>4 DEF Good, CutFits

\* The page that waits is merged at its watermark, and not before.
LEMMA MergeFits ==
  ASSUME Orderly(log), NEW c, ClientFits(c), ViewFits(c), NEW s \in 1 .. Len(log), c.seq < s,
         \A d \in 1 .. s - 1 : Told(d) => d <= c.seq, log[s].kind # "reverted",
         NEW e \in Clients, Good(e), e.has, Saves(e), e.seq = s, e.page = c.page, SameWait(c, e)
  PROVE  ViewFits(TryMergePending(e))
<1> DEFINE n == TryMergePending(e)
<1>1. PICK d : d = n
  OBVIOUS
<1>2. /\ d \in Clients /\ d.has /\ d.seq = s /\ d.asked = c.asked
      /\ Parked(d) => d = e /\ e.parked.snapshot.watermark > s
      /\ ~Parked(e) => d.thread = e.thread /\ SameCut(e.page, d.page) /\ d.saving = e.saving
      /\ Parked(e) /\ ~Parked(d) =>
           /\ e.parked.snapshot.watermark <= s
           /\ d.thread = MergeRows(e.thread, e.parked.snapshot.thread)
           /\ d.page = e.parked.snapshot.page /\ Saves(d)
  BY <1>1, TryMergePendingIs DEF SameWait
<1> HIDE DEF n
<1>3. /\ c \in Clients /\ c.seq \in Nat /\ s \in Nat /\ s \in 0 .. Len(log) /\ c.parked = e.parked
      /\ Parked(c) = Parked(e) /\ e.asked = c.asked /\ Len(log) \in Nat
  BY LogIs, FeedAssumption DEF ClientFits, Clients, SameWait, Parked
<1>4. \A x : Opens(x, c.seq) => Opens(x, s)
  BY <1>3 DEF Opens
<1>5. ASSUME NEW x, Opens(x, c.seq)
      PROVE  WindowAt(s, x).page = WindowAt(c.seq, x).page
  BY <1>3, <1>5, WindowStill
<1>6. AnswerFits(d)
  <2>1. Parked(d) => Parked(c) /\ d.parked = c.parked
    BY <1>2, <1>3
  <2> QED
    BY <1>2, <2>1 DEF ViewFits, AnswerFits, Answered
<1>7. ASSUME Asks(d) PROVE /\ Asks(c) /\ d.asked.cursor = c.asked.cursor
                           /\ Opens(d.asked.cursor, c.seq) /\ Opens(d.asked.cursor, s)
                           /\ \/ CutAt(c.page, d.asked.cursor)
                              \/ CutBelow(c.page, c.seq, d.asked.cursor) /\ ~Parked(c)
  BY <1>2, <1>4, <1>7 DEF ViewFits, AskFits, Asks
<1>8. CASE ~Parked(c)
  <2>1. d.thread = e.thread /\ SameCut(c.page, d.page) /\ d.saving = e.saving /\ ~Parked(d)
    BY <1>2, <1>3, <1>8
  <2>2. Good(d) /\ Good(d.saving)
    BY <1>2, <2>1, GoodStill, GoodSaved
  <2>3. AskFits(d)
    <3>1. ASSUME NEW x, CutAt(c.page, x) PROVE CutAt(d.page, x)
      BY <2>1, <3>1 DEF CutAt, SameCut
    <3>2. ASSUME NEW x, Opens(x, c.seq), CutBelow(c.page, c.seq, x)
          PROVE  CutBelow(d.page, s, x)
      BY <1>5, <2>1, <3>2 DEF CutBelow, SameCut
    <3> QED
      BY <1>2, <1>7, <2>1, <3>1, <3>2 DEF AskFits
  <2>4. ParkFits(d) /\ Shows(d)
    BY <1>2, <2>1, <2>2 DEF ParkFits, Shows
  <2> QED
    BY <1>1, <1>6, <2>3, <2>4 DEF ViewFits, n
<1>9. CASE Parked(c)
  <2>1. PICK p : p = c.parked.snapshot
    OBVIOUS
  <2>2. p \in Snapshots /\ p.seq \in Nat /\ p.watermark \in Nat
    BY <1>3, <2>1, FeedAssumption DEF Clients, Parks, Snapshots
  <2>3. c.seq < p.watermark
    BY <1>9, <2>1 DEF ViewFits, ParkFits
  <2>4. PICK x : /\ Opens(x, c.seq) /\ IsPage(p, x)
                 /\ CutAt(c.page, x) \/ CutBelow(c.page, c.seq, x)
    BY <1>9, <2>1 DEF ViewFits, ParkFits
  <2>5. WindowAt(s, x).page = WindowAt(c.seq, x).page /\ Opens(x, s)
    BY <1>4, <1>5, <2>3, <2>4
  <2>6. CutAt(c.page, x) \/ CutBelow(c.page, s, x)
    BY <2>4, <2>5 DEF CutBelow
  <2>7. CASE Parked(d)
    <3>1. d = e /\ s < p.watermark
      BY <1>2, <1>3, <2>1, <2>2, <2>7
    <3>2. Shows(d)
      BY <3>1, GoodSaved DEF Shows
    <3>3. AskFits(d)
      BY <1>3, <1>7, <1>9, <1>2, <3>1 DEF AskFits
    <3>4. x \in 1 .. s
      BY <2>5 DEF Opens
    <3>5. ParkFits(d)
      BY <1>3, <2>1, <2>3, <2>4, <2>5, <2>6, <3>1, <3>4 DEF ParkFits
    <3> QED
      BY <1>1, <1>6, <3>2, <3>3, <3>5 DEF ViewFits, n
  <2>8. CASE ~Parked(d)
    <3>1. /\ p.watermark <= s /\ d.thread = MergeRows(e.thread, p.thread)
          /\ d.page = p.page /\ Saves(d)
      BY <1>2, <1>3, <1>9, <2>1, <2>8
    <3>2. p.watermark = Watermark(p.seq) /\ p.seq <= Len(log)
      BY <2>4 DEF IsPage
    <3>3. p.watermark \in 0 .. p.seq /\ (p.watermark # 0 => Told(p.watermark))
      BY <2>2, <3>2, WatermarkIs
    <3>4. p.watermark = s
      <4>1. ~(p.watermark \in 1 .. s - 1)
        BY <1>3, <2>2, <2>3, <3>3
      <4> QED
        BY <1>3, <2>2, <2>3, <3>1, <4>1
    <3>5. s <= p.seq
      BY <2>2, <3>3, <3>4
    <3>6. p.thread = WindowAt(s, x).thread /\ p.page = WindowAt(s, x).page
      BY <1>3, <2>2, <2>4, <3>4, <3>5, PageSince
    <3>7. Good(d)
      BY <1>2, <1>3, <2>3, <2>5, <2>6, <3>1, <3>6, GoodMerged
    <3>8. Shows(d) /\ ParkFits(d)
      BY <1>2, <2>8, <3>1, <3>7, GoodSaved DEF Shows, ParkFits
    <3>9. AskFits(d)
      <4>1. SUFFICES ASSUME Asks(d)
                     PROVE  \/ CutAt(d.page, d.asked.cursor)
                            \/ CutBelow(d.page, s, d.asked.cursor)
        BY <1>2, <1>7, <2>8 DEF AskFits
      <4>2. CutAt(c.page, d.asked.cursor)
        BY <1>7, <1>9, <4>1
      <4>3. CASE CutAt(c.page, x)
        <5>1. d.asked.cursor = x
          BY <4>2, <4>3 DEF CutAt
        <5>2. CutBelow(d.page, s, x)
          BY <3>1, <3>6 DEF CutBelow, SameCut
        <5> QED
          BY <5>1, <5>2
      <4>4. CASE CutBelow(c.page, s, x)
        BY <3>1, <3>6, <4>2, <4>4 DEF CutBelow, SameCut, CutAt
      <4> QED
        BY <2>6, <4>3, <4>4
    <3> QED
      BY <1>1, <1>6, <3>8, <3>9 DEF ViewFits, n
  <2> QED
    BY <2>7, <2>8
<1> QED
  BY <1>8, <1>9

\* An event behind every told event before it leaves the view a fold of the log.
LEMMA EventKeeps ==
  ASSUME Orderly(log), NEW c, ClientFits(c), ViewFits(c), NEW s \in 1 .. Len(log),
         \A d \in 1 .. s - 1 : Told(d) => d <= c.seq
  PROVE  ViewFits(ApplyEvent(c, s))
<1>1. /\ c \in Clients /\ c.seq \in Nat /\ s \in 1 .. MaxEvents /\ Len(log) \in Nat
  BY LogIs, FeedAssumption DEF ClientFits, Clients
<1>2. ApplyEvent(c, s) = IF s <= c.seq THEN c
                         ELSE IF c.has THEN TryMergePending(Folded(c, s))
                                       ELSE [c EXCEPT !.seq = s]
  BY <1>1, ApplyEventIs
<1>3. CASE s <= c.seq
  BY <1>2, <1>3
<1>4. CASE ~(s <= c.seq) /\ ~c.has
  <2>1. PICK d : d = [c EXCEPT !.seq = s]
    OBVIOUS
  <2>2. /\ ~d.has /\ d.page = c.page /\ SameWait(c, d) /\ d.saving = c.saving
    BY <1>1, <1>4, <2>1 DEF Clients, SameWait
  <2>3. ~Asks(c) /\ ~Parked(c)
    BY <1>4 DEF ViewFits, AskFits, ParkFits
  <2>4. Shows(d)
    BY <1>4, <2>2 DEF ViewFits, Shows
  <2>5. ViewFits(d)
    BY <2>2, <2>3, <2>4
       DEF ViewFits, AskFits, AnswerFits, ParkFits, Asks, Answered, Parked, SameWait
  <2> QED
    BY <1>2, <1>4, <2>1, <2>5
<1>5. CASE ~(s <= c.seq) /\ c.has
  <2>1. PICK e : e = Folded(c, s)
    OBVIOUS
  <2>2. Reduce(c.thread, s, log[s]) \in Threads
    BY <1>1, ReduceFits DEF Clients
  <2>3. /\ e \in Clients /\ Saves(e) /\ e.has /\ e.thread = Reduce(c.thread, s, log[s])
        /\ e.page = c.page /\ e.seq = s
        /\ e.asked.phase = c.asked.phase /\ e.asked.cursor = c.asked.cursor
        /\ e.asked.snapshot = c.asked.snapshot
        /\ IF log[s].kind = "reverted" THEN ~e.asked.fresh /\ ~Parked(e)
                                       ELSE SameWait(c, e)
    BY <1>1, <2>1, <2>2, FoldedIs
  <2>4. Good(c) /\ c.seq < s
    BY <1>1, <1>5 DEF ViewFits, Shows
  <2>5. /\ Agree(Reduce(Cut(ThreadAt(c.seq), c.page), s, log[s]), Cut(ThreadAt(s), c.page),
                 Odd(c.page, s))
        /\ CutFits(c.page, s)
    BY <1>1, <2>4, CutNext DEF Good
  <2>a. Agree(Reduce(c.thread, s, log[s]), Reduce(Cut(ThreadAt(c.seq), c.page), s, log[s]),
              Odd(c.page, c.seq))
    BY <2>4, AgreeReduced DEF Good
  <2>b. Odd(c.page, c.seq) \subseteq Odd(c.page, s)
    BY <1>1, <2>4, OddGrows
  <2>c. Agree(Reduce(c.thread, s, log[s]), Cut(ThreadAt(s), c.page), Odd(c.page, s))
    BY <2>5, <2>a, <2>b, AgreeTrans
  <2>6. Good(e)
    BY <2>3, <2>5, <2>c DEF Good
  <2>7. CASE log[s].kind # "reverted"
    <3>1. ViewFits(TryMergePending(e))
      BY <2>3, <2>4, <2>6, <2>7, MergeFits
    <3> QED
      BY <1>2, <1>5, <2>1, <3>1
  <2>8. CASE log[s].kind = "reverted"
    <3>1. PICK d : d = TryMergePending(e)
      OBVIOUS
    <3>2. /\ d.has = e.has /\ d.seq = e.seq /\ d.asked = e.asked /\ ~Parked(d)
          /\ d.thread = e.thread /\ SameCut(e.page, d.page) /\ d.saving = e.saving
      BY <2>3, <2>8, <3>1, TryMergePendingIs
    <3>3. Good(d) /\ Good(d.saving)
      BY <2>3, <2>6, <3>2, GoodStill, GoodSaved
    <3>4. Shows(d)
      BY <2>3, <3>2, <3>3 DEF Shows
    <3>5. ViewFits(d)
      BY <2>3, <2>8, <3>2, <3>4, ViewAnew
    <3> QED
      BY <1>2, <1>5, <2>1, <3>1, <3>5
  <2> QED
    BY <2>7, <2>8
<1> QED
  BY <1>3, <1>4, <1>5

\* A good snapshot is shown, and nothing asked for before it is merged into it.
LEMMA SnapshotKeeps ==
  ASSUME NEW c \in Clients, ViewFits(c), NEW s \in Snapshots, Good(s)
  PROVE  ViewFits(ApplySnapshot(c, s))
<1>1. PICK d : d = ApplySnapshot(c, s)
  OBVIOUS
<1>2. /\ Saves(d) /\ d.has = TRUE /\ d.thread = s.thread /\ d.page = s.page /\ d.seq = s.seq
      /\ d.asked.phase = c.asked.phase /\ d.asked.cursor = c.asked.cursor
      /\ d.asked.snapshot = c.asked.snapshot /\ ~d.asked.fresh /\ ~Parked(d)
  <2>1. Saves(d) /\ d.has = TRUE /\ d.thread = s.thread /\ d.page = s.page /\ d.seq = s.seq
    BY <1>1, ApplySnapshotIs
  <2>2. /\ d.asked.phase = c.asked.phase /\ d.asked.cursor = c.asked.cursor
        /\ d.asked.snapshot = c.asked.snapshot /\ ~d.asked.fresh /\ ~Parked(d)
    BY <1>1, ApplySnapshotIs
  <2> QED
    BY <2>1, <2>2
<1>3. Good(d)
  BY <1>2 DEF Good
<1>4. Shows(d)
  BY <1>2, <1>3, GoodSaved DEF Shows
<1> QED
  BY <1>1, <1>2, <1>4, ViewAnew

\* What changes no more than what the view says of itself.
LEMMA WordsKeep ==
  ASSUME NEW c \in Clients, ViewFits(c)
  PROVE  /\ ViewFits(SetSynchronizing(c)) /\ ViewFits(SetReady(c))
         /\ ViewFits(SetDisconnected(c)) /\ ViewFits(SetStreamError(c))
         /\ ViewFits(ApplyMarker(c))
         /\ \A v \in Servers : ViewFits(Ask(c, v))
<1>1. Good(c.saving)
  BY DEF ViewFits, Shows
<1>2. ASSUME NEW d, SameView(c, d), SameWait(c, d), d.saving = c.saving
      PROVE  ViewFits(d)
  BY <1>1, <1>2, ViewStill
<1>3. ViewFits(SetSynchronizing(c))
  BY <1>2, WordsChange
<1>4. ViewFits(SetReady(c))
  BY <1>2, WordsChange
<1>5. ViewFits(SetDisconnected(c))
  BY <1>2, WordsChange
<1>6. ViewFits(SetStreamError(c))
  BY <1>2, WordsChange
<1>7. ViewFits(ApplyMarker(c))
  BY <1>2, ApplyMarkerIs
<1>8. \A v \in Servers : ViewFits(Ask(c, v))
  BY <1>2, AskIs
<1> QED
  BY <1>3, <1>4, <1>5, <1>6, <1>7, <1>8

\* The phase of a view is not among what it shows, saves or waits for.
LEMMA PhaseKeeps ==
  ASSUME NEW c \in Clients, ViewFits(c), NEW phase
  PROVE  ViewFits([c EXCEPT !.phase = phase])
<1>1. PICK d : d = [c EXCEPT !.phase = phase]
  OBVIOUS
<1>2. SameView(c, d) /\ SameWait(c, d) /\ d.saving = c.saving
  BY <1>1 DEF Clients, SameView, SameWait
<1> QED
  BY <1>1, <1>2, ViewStill DEF ViewFits, Shows

LEMMA BeginKeeps ==
  ASSUME NEW c \in Clients, ViewFits(c), NEW v \in Servers
  PROVE  ViewFits(Begin(c, v)) /\ ViewFits(SetReady(Begin(c, v)))
<1>1. PICK d : d = Begin(c, v)
  OBVIOUS
<1>2. d \in Clients /\ d.saving = c.saving
  BY <1>1, BeginIs
<1>3. \/ SameView(c, d) /\ SameWait(c, d)
      \/ /\ ~d.has /\ d.page = NoPage
         /\ d.asked.phase = c.asked.phase /\ d.asked.cursor = c.asked.cursor
         /\ d.asked.snapshot = c.asked.snapshot /\ ~d.asked.fresh /\ ~Parked(d)
  BY <1>1, BeginIs
<1>4. Good(d.saving)
  BY <1>2 DEF ViewFits, Shows
<1>5. CASE SameView(c, d) /\ SameWait(c, d)
  BY <1>4, <1>5, ViewStill, <1>1, <1>2, WordsKeep
<1>6. CASE ~(SameView(c, d) /\ SameWait(c, d))
  <2>1. Shows(d)
    BY <1>3, <1>4, <1>6 DEF Shows, NoPage
  <2>2. ViewFits(d)
    BY <1>3, <1>6, <2>1, ViewAnew
  <2> QED
    BY <1>1, <1>2, <2>2, WordsKeep
<1> QED
  BY <1>5, <1>6

\* A view opened on what was saved.
LEMMA FreshKeeps ==
  ASSUME Orderly(log), NEW s \in Snapshots, Good(s)
  PROVE  ViewFits(Fresh(s))
<1>1. PICK d : d = Fresh(s)
  OBVIOUS
<1>2. /\ d.thread = s.thread /\ d.page = s.page /\ d.seq = s.seq /\ d.has = (s # NoSnapshot)
      /\ d.asked = NoFetch /\ d.parked = NoParked /\ d.saving = NoSnapshot
  BY <1>1, FreshIs
<1>3. Good(d) /\ Good(d.saving)
  BY <1>2, GoodNothing DEF Good
<1>4. ~d.has => ~d.page.windowed
  <2>1. CASE s # NoSnapshot
    BY <1>2, <2>1
  <2>2. CASE s = NoSnapshot
    BY <1>2, <2>2 DEF NoSnapshot, NoPage
  <2> QED
    BY <2>1, <2>2
<1>5. ~Asks(d) /\ ~Answered(d) /\ ~Parked(d)
  BY <1>2 DEF Asks, Answered, Parked, NoFetch, NoParked
<1> QED
  BY <1>1, <1>3, <1>4, <1>5 DEF ViewFits, Shows, AskFits, AnswerFits, ParkFits

\* The first page a server sends, or serves over HTTP, is good.
LEMMA FirstPageGood ==
  ASSUME Orderly(log), NEW v \in Servers
  PROVE  Good(FirstPage(v)) /\ FirstPage(v) \in Snapshots
<1>1. PICK t : t = ThreadAt(Len(log))
  OBVIOUS
<1>2. PICK w : w = TurnWindow(t, 0)
  OBVIOUS
<1>3. /\ t \in Threads /\ 0 \in Nat /\ Len(log) \in Nat
      /\ \A u \in DOMAIN t : u \in 1 .. Len(log) /\ log[u].kind = "turn"
  BY <1>1, LogIs
<1>4. CASE v.paging
  <2>1. PICK p : p = Page(0)
    OBVIOUS
  <2>2. SnapshotFits(p) /\ p.seq = Len(log) /\ p.thread = w.thread /\ p.page = w.page
    BY <1>1, <1>2, <1>3, <2>1, PageIs
  <2>3. w.page.windowed /\ w.page.more => w.page.cursor \in DOMAIN t
    BY <1>2, <1>3, TurnWindowIs
  <2>a. w.page.windowed
    BY <1>2, <1>3, TurnWindowIs
  <2>4. w.thread = Restrict(t, {u \in DOMAIN t : /\ 0 = 0 \/ u < 0
                                                 /\ w.page.more => u >= w.page.cursor})
    BY <1>2, <1>3, TurnWindowIs
  <2>5. w.thread = Cut(t, w.page)
    <3>1. {u \in DOMAIN t : /\ 0 = 0 \/ u < 0
                            /\ w.page.more => u >= w.page.cursor}
            = {u \in DOMAIN t : w.page.more => u >= w.page.cursor}
      OBVIOUS
    <3> QED
      BY <2>4, <3>1 DEF Cut
  <2>6. w.page.more => Opens(w.page.cursor, Len(log))
    BY <1>3, <2>3, <2>a DEF Opens
  <2>7. Good(p)
    BY <1>1, <1>4, <2>2, <2>a, <2>5, <2>6, AgreeSame DEF Good, CutFits
  <2> QED
    BY <1>4, <2>1, <2>2, <2>7 DEF FirstPage, SnapshotFits
<1>5. CASE ~v.paging
  <2>1. PICK p : p = Whole
    OBVIOUS
  <2>2. SnapshotFits(p) /\ p.seq = Len(log) /\ p.thread = t /\ p.page = NoPage
    BY <1>1, <2>1, WholeIs
  <2>3. Cut(t, NoPage) = t
    <3>1. t = [u \in DOMAIN t |-> t[u]]
      BY <1>3, ThreadsAre DEF Threads
    <3>2. {u \in DOMAIN t : NoPage.more => u >= NoPage.cursor} = DOMAIN t
      BY DEF NoPage
    <3> QED
      BY <3>1, <3>2 DEF Cut, Restrict
  <2>4. Good(p)
    BY <1>1, <2>2, <2>3, AgreeSame DEF Good, CutFits, NoPage
  <2> QED
    BY <1>5, <2>1, <2>2, <2>4 DEF FirstPage, SnapshotFits
<1> QED
  BY <1>4, <1>5

-----------------------------------------------------------------------------
(* Every step keeps the folds *)

\* What fits the log fits a longer one.
LEMMA FoldsStill ==
  ASSUME Orderly(log), Len(log') \in Nat, Len(log) <= Len(log'),
         \A i \in 1 .. Len(log) : log'[i] = log[i],
         \A n \in 0 .. Len(log) : ThreadOf(log', n) = ThreadOf(log, n),
         ClientFits(cl'), SnapshotFits(cache'), WireFits(wire'),
         ViewFits(cl'), Good(cache'),
         \A i \in 1 .. Len(wire') : wire'[i].kind = "snapshot" => Good(wire'[i].snapshot)
  PROVE  FInv'
<1>1. Len(log) \in Nat
  BY LogIs
<1>2. ASSUME NEW n \in 0 .. Len(log) PROVE Watermark(n)' = Watermark(n)
  <2>1. {i \in 1 .. n : log'[i].kind \in Detail} = {i \in 1 .. n : log[i].kind \in Detail}
    BY <1>1
  <2> QED
    BY <2>1 DEF Watermark
<1>3. ASSUME NEW n \in 0 .. Len(log) PROVE ThreadAt(n)' = ThreadAt(n)
  BY DEF ThreadAt
<1>4. ASSUME NEW n \in 0 .. Len(log), NEW c PROVE Opens(c, n)' = Opens(c, n)
  <2>1. c \in 1 .. n => log'[c] = log[c]
    BY <1>1
  <2> QED
    BY <2>1 DEF Opens
<1>a. ASSUME NEW n \in 0 .. Len(log) PROVE Late(n)' = Late(n)
  <2>1. ASSUME NEW j \in 1 .. n
        PROVE  /\ log'[j] = log[j]
               /\ \A k \in log[j].of + 1 .. j - 1 : log'[k] = log[k]
    <3>1. log[j] \in Events /\ j \in 1 .. Len(log)
      BY <1>1, LogIs, <2>1 DEF Logs
    <3>2. log[j].of \in Nat
      BY <3>1, FeedAssumption DEF Events
    <3>3. \A k \in log[j].of + 1 .. j - 1 : k \in 1 .. Len(log)
      BY <1>1, <3>1, <3>2
    <3> QED
      BY <3>1, <3>3
  <2>2. {j \in 1 .. n : /\ log'[j].kind = "delta"
                        /\ \E k \in log'[j].of + 1 .. j - 1 : log'[k].kind = "turn"}
          = {j \in 1 .. n : /\ log[j].kind = "delta"
                            /\ \E k \in log[j].of + 1 .. j - 1 : log[k].kind = "turn"}
    BY <2>1
  <2> DEFINE J == {j \in 1 .. n : /\ log[j].kind = "delta"
                                  /\ \E k \in log[j].of + 1 .. j - 1 : log[k].kind = "turn"}
  <2>3. \A j \in J : log'[j].of = log[j].of
    BY <2>1
  <2>4. Late(n)' = {log'[j].of : j \in J} /\ Late(n) = {log[j].of : j \in J}
    BY <2>2 DEF Late
  <2> HIDE DEF J
  <2> QED
    BY <2>3, <2>4
<1>5. ASSUME NEW s, s.seq \in 0 .. Len(log) PROVE Good(s)' = Good(s)
  BY <1>3, <1>4, <1>a, <1>5 DEF Good, CutFits, Odd
<1>6. ASSUME NEW s, s.seq \in Nat, NEW c, IsPage(s, c) PROVE IsPage(s, c)'
  BY <1>1, <1>2, <1>3, <1>6 DEF IsPage, WindowAt
<1>7. PICK d : d = cl'
  OBVIOUS
<1>8. PICK w : w = wire'
  OBVIOUS
<1>9. PICK k : k = cache'
  OBVIOUS
<1>10. /\ d \in Clients /\ d.seq \in 0 .. Len(log) /\ d.saving.seq \in 0 .. Len(log)
       /\ k.seq \in 0 .. Len(log) /\ d.asked.snapshot.seq \in Nat
       /\ d.parked.snapshot.seq \in Nat
  BY <1>1, <1>7, <1>9, FeedAssumption
     DEF ClientFits, SnapshotFits, Clients, Snapshots, Fetches, Parks
<1>11. ViewFits(d)'
  <2>1. Shows(d)'
    BY <1>5, <1>7, <1>10 DEF ViewFits, Shows
  <2>2. AskFits(d)'
    BY <1>3, <1>4, <1>7, <1>10
       DEF ViewFits, AskFits, CutBelow, CutAt, WindowAt, SameCut, Asks, Parked
  <2>3. AnswerFits(d)'
    BY <1>6, <1>7, <1>10 DEF ViewFits, AnswerFits, Answered, Parked
  <2>4. ParkFits(d)'
    BY <1>3, <1>4, <1>6, <1>7, <1>10
       DEF ViewFits, ParkFits, CutBelow, CutAt, WindowAt, SameCut, Parked
  <2> QED
    BY <2>1, <2>2, <2>3, <2>4 DEF ViewFits
<1>12. Good(k)'
  BY <1>5, <1>9, <1>10
<1>13. \A i \in 1 .. Len(w) : w[i].kind = "snapshot" => Good(w[i].snapshot)'
  <2> TAKE i \in 1 .. Len(w)
  <2>1. SUFFICES ASSUME w[i].kind = "snapshot" PROVE Good(w[i].snapshot)'
    OBVIOUS
  <2>2. w[i].snapshot.seq \in 0 .. Len(log) /\ Good(w[i].snapshot)
    BY <1>1, <1>8, <2>1, WireIs, ItemIs, FeedAssumption DEF SnapshotFits, Snapshots, Marker
  <2> QED
    BY <1>5, <2>2
<1> QED
  BY <1>7, <1>8, <1>9, <1>11, <1>12, <1>13 DEF FInv

LEMMA DeliverFolds == TInv /\ CInv /\ GInv /\ FInv /\ Deliver => FInv'
<1> SUFFICES ASSUME TInv, CInv, GInv, FInv, Deliver PROVE FInv'
  OBVIOUS
<1>1. PICK x : x = wire[1]
  OBVIOUS
<1>2. /\ wire # <<>> /\ x \in Items /\ Known(x)
      /\ cl' = ApplyItem(cl, x) /\ wire' = Tail(wire)
      /\ UNCHANGED <<log, published, conn, sub, cache, used>>
      /\ WireFits(wire) /\ Orderly(log) /\ ClientFits(cl) /\ WireFits(wire')
  BY <1>1, DeliverIs DEF TInv, ServerFits
<1>3. Len(wire) \in Nat \ {0} /\ cl \in Clients /\ 1 \in 1 .. Len(wire)
  BY <1>2, WireIs DEF ClientFits
<1>4. /\ x.kind = "event" => ApplyItem(cl, x) = ApplyEvent(cl, x.seq)
      /\ x.kind = "snapshot" => ApplyItem(cl, x) = ApplySnapshot(cl, x.snapshot)
      /\ x.kind = "synchronized" => ApplyItem(cl, x) = ApplyMarker(cl)
  BY <1>2, ApplyItemFits
<1>5. ASSUME x.kind = "event", x.seq \in 1 .. Len(log)
      PROVE  ViewFits(cl')
  <2>1. \A d \in 1 .. x.seq - 1 : Told(d) => CoveredBy(wire, cl.seq, d, 1)
    BY <1>1, <1>3, <1>5 DEF GInv, InOrder
  <2>2. \A d \in 1 .. x.seq - 1 : Told(d) => d <= cl.seq
    BY <2>1 DEF CoveredBy
  <2>3. ViewFits(ApplyEvent(cl, x.seq))
    BY <1>2, <1>5, <2>2, EventKeeps DEF FInv
  <2> QED
    BY <1>2, <1>4, <1>5, <2>3
<1>6. ASSUME x.kind = "snapshot", SnapshotFits(x.snapshot)
      PROVE  ViewFits(cl')
  <2>1. x.snapshot \in Snapshots /\ Good(x.snapshot)
    BY <1>1, <1>3, <1>6 DEF FInv, SnapshotFits
  <2>2. ViewFits(ApplySnapshot(cl, x.snapshot))
    BY <1>3, <2>1, SnapshotKeeps DEF FInv
  <2> QED
    BY <1>2, <1>4, <1>6, <2>2
<1>7. ASSUME x = Marker PROVE ViewFits(cl')
  <2>1. x.kind = "synchronized"
    BY <1>7, MarkerIs
  <2>2. ViewFits(ApplyMarker(cl))
    BY <1>3, WordsKeep DEF FInv
  <2> QED
    BY <1>2, <1>4, <2>1, <2>2
<1>8. ViewFits(cl')
  BY <1>2, <1>5, <1>6, <1>7, ItemIs
<1>9. \A i \in 1 .. Len(wire') : wire'[i] = wire[i + 1] /\ i + 1 \in 1 .. Len(wire)
  BY <1>2, <1>3, WireTail
<1>10. \A i \in 1 .. Len(wire') : wire'[i].kind = "snapshot" => Good(wire'[i].snapshot)
  BY <1>9 DEF FInv
<1>11. Good(cache') /\ SnapshotFits(cache') /\ ClientFits(cl') /\ Len(log') \in Nat
  BY <1>2, DeliverIs, LogIs DEF FInv, TInv
<1> QED
  BY <1>2, <1>8, <1>10, <1>11, FoldsStill

LEMMA FoldsStep ==
  ASSUME TInv, TInv', log' = log, ViewFits(cl'), Good(cache'),
         \A i \in 1 .. Len(wire') : wire'[i].kind = "snapshot" => Good(wire'[i].snapshot)
  PROVE  FInv'
<1>1. Orderly(log) /\ Len(log) \in Nat
  BY LogIs DEF TInv, ServerFits
<1>2. ClientFits(cl')
  BY DEF TInv, ClientFits
<1>3. SnapshotFits(cache')
  BY DEF TInv, SnapshotFits
<1>4. WireFits(wire')
  BY DEF TInv, WireFits, Known
<1> QED
  BY <1>1, <1>2, <1>3, <1>4, FoldsStill

LEMMA CommitFolds == TInv /\ FInv /\ Commit => FInv'
<1> SUFFICES ASSUME TInv, FInv, Commit PROVE FInv'
  OBVIOUS
<1>1. /\ Orderly(log) /\ published \in 0 .. Len(log) /\ ClientFits(cl) /\ SnapshotFits(cache)
      /\ WireFits(wire)
  BY DEF TInv, ServerFits
<1>2. /\ Len(log') = Len(log) + 1 /\ \A i \in 1 .. Len(log) : log'[i] = log[i]
      /\ \A n \in 0 .. Len(log) : ThreadOf(log', n) = ThreadOf(log, n)
      /\ UNCHANGED <<published, conn, sub, wire, cl, cache, used>>
  BY <1>1, CommitIs
<1>3. Len(log) \in Nat /\ Len(log') \in Nat /\ Len(log) <= Len(log')
  BY <1>1, <1>2, LogIs
<1>4. /\ ViewFits(cl') /\ Good(cache')
      /\ \A i \in 1 .. Len(wire') : wire'[i].kind = "snapshot" => Good(wire'[i].snapshot)
  BY <1>2 DEF FInv
<1>5. ClientFits(cl') /\ SnapshotFits(cache') /\ WireFits(wire')
  BY <1>1, <1>2
<1> QED
  BY <1>1, <1>2, <1>3, <1>4, <1>5, FoldsStill

\* A snapshot on a wire that goes live is one the subscription found.
LEMMA SnapshotOfLive ==
  ASSUME TInv, wire = <<>>, NEW items, WireFits(items), NEW head, GoLive(items, head),
         NEW i \in 1 .. Len(wire'), wire'[i].kind = "snapshot"
  PROVE  i \in 1 .. Len(items) /\ wire'[i] = items[i]
<1>1. /\ Len(items) \in Nat /\ Len(sub.buffer) \in Nat
      /\ \A k \in 1 .. Len(items) : wire'[k] = items[k]
      /\ \A k \in 1 .. Len(sub.buffer) : wire'[Len(items) + k] = sub.buffer[k]
      /\ IF sub.marker THEN /\ Len(wire') = Len(items) + Len(sub.buffer) + 1
                            /\ wire'[Len(items) + Len(sub.buffer) + 1] = Marker
                       ELSE Len(wire') = Len(items) + Len(sub.buffer)
  BY WireOfLive
<1>2. \A k \in 1 .. Len(sub.buffer) : sub.buffer[k].kind = "event"
  BY BufferIs DEF TInv
<1>3. CASE i \in 1 .. Len(items)
  BY <1>1, <1>3
<1>4. CASE i \in Len(items) + 1 .. Len(items) + Len(sub.buffer)
  <2>1. i - Len(items) \in 1 .. Len(sub.buffer) /\ Len(items) + (i - Len(items)) = i
    BY <1>1, <1>4
  <2>2. wire'[Len(items) + (i - Len(items))] = sub.buffer[i - Len(items)]
    BY <1>1, <2>1
  <2> QED
    BY <1>2, <2>1, <2>2
<1>5. CASE i \notin 1 .. Len(items) /\ i \notin Len(items) + 1 .. Len(items) + Len(sub.buffer)
  <2>1. sub.marker /\ i = Len(items) + Len(sub.buffer) + 1
    BY <1>1, <1>5
  <2> QED
    BY <1>1, <2>1, MarkerIs
<1> QED
  BY <1>3, <1>4, <1>5

LEMMA ServerFolds == TInv /\ CInv /\ FInv /\ ServerStep => FInv'
<1> SUFFICES ASSUME TInv, CInv, FInv, ServerStep PROVE FInv'
  OBVIOUS
<1>1. /\ Orderly(log) /\ WireFits(wire) /\ conn.server \in Servers /\ cl \in Clients
      /\ Len(log) \in Nat
  BY LogIs DEF TInv, ServerFits, Conns, ClientFits
<1>2. TInv'
  BY ServerFitsStill
<1>3. CASE Publish
  <2>1. PICK x : x = EventItem(published + 1)
    OBVIOUS
  <2>2. /\ published + 1 \in 1 .. Len(log) /\ UNCHANGED <<log, cl, cache>>
        /\ wire' = wire \/ wire' = Append(wire, x)
    BY <1>3, <2>1, PublishIs
  <2>3. x \in Items /\ Known(x) /\ x.kind = "event"
    BY <1>1, <2>1, <2>2, EventItemIs
  <2>4. CASE wire' = wire
    BY <1>2, <2>2, <2>4, FoldsStep DEF FInv
  <2>5. CASE wire' = Append(wire, x)
    <3>1. Len(wire) \in Nat
      BY <1>1, WireIs
    <3>2. /\ Len(wire') = Len(wire) + 1 /\ \A i \in 1 .. Len(wire) : wire'[i] = wire[i]
          /\ wire'[Len(wire) + 1] = x
      BY <1>1, <2>3, <2>5, WireAppend
    <3>3. ASSUME NEW i \in 1 .. Len(wire'), wire'[i].kind = "snapshot"
          PROVE  Good(wire'[i].snapshot)
      <4>1. CASE i = Len(wire) + 1
        BY <2>3, <3>2, <3>3, <4>1
      <4>2. CASE i \in 1 .. Len(wire)
        BY <3>2, <3>3, <4>2 DEF FInv
      <4> QED
        BY <3>1, <3>2, <4>1, <4>2
    <3> QED
      BY <1>2, <2>2, <3>3, FoldsStep DEF FInv
  <2> QED
    BY <2>2, <2>4, <2>5
<1>4. CASE Attach
  BY <1>2, <1>4, FoldsStep DEF Attach, FInv
<1>5. CASE ReadHead
  <2>1. sub.phase = "open" /\ UNCHANGED <<log, published, conn, cache, used>>
    BY <1>5 DEF ReadHead
  <2>2. wire = <<>>
    BY <2>1 DEF CInv, Phases
  <2>3. CASE UNCHANGED <<wire, cl>>
    BY <1>2, <2>1, <2>3, FoldsStep DEF FInv
  <2>4. CASE /\ GoLive(<<[kind |-> "snapshot", snapshot |-> FirstPage(conn.server)]>>, Len(log))
             /\ UNCHANGED cl
    <3>1. PICK s : s = FirstPage(conn.server)
      OBVIOUS
    <3>2. PICK x : x = [kind |-> "snapshot", snapshot |-> s]
      OBVIOUS
    <3>3. SnapshotFits(s) /\ Good(s)
      BY <1>1, <3>1, FirstPageIs, FirstPageGood
    <3>4. x \in Items /\ Known(x) /\ x.snapshot = s
      BY <3>2, <3>3 DEF SnapshotFits, SnapshotItems, Items, Known
    <3>5. PICK items : items = <<x>>
      OBVIOUS
    <3>6. GoLive(items, Len(log))
      BY <2>4, <3>1, <3>2, <3>5
    <3>7. WireFits(items) /\ Len(items) = 1 /\ items[1] = x
      BY <3>4, <3>5, WireOne
    <3>8. ASSUME NEW i \in 1 .. Len(wire'), wire'[i].kind = "snapshot"
          PROVE  Good(wire'[i].snapshot)
      <4>1. i \in 1 .. Len(items) /\ wire'[i] = items[i]
        BY <2>2, <3>6, <3>7, <3>8, SnapshotOfLive
      <4>2. i = 1
        BY <3>7, <4>1
      <4> QED
        BY <3>3, <3>4, <3>7, <4>1, <4>2
    <3> QED
      BY <1>2, <2>1, <2>4, <3>8, FoldsStep DEF FInv
  <2>5. CASE cl' = SetStreamError(cl) /\ UNCHANGED wire
    <3>1. ViewFits(cl')
      BY <1>1, <2>5, WordsKeep DEF FInv
    <3> QED
      BY <1>2, <2>1, <2>5, <3>1, FoldsStep DEF FInv
  <2> QED
    BY <1>5, <2>3, <2>4, <2>5 DEF ReadHead
<1>6. CASE Replay
  <2>1. PICK items :
           /\ WireFits(items) /\ GoLive(items, sub.head)
           /\ UNCHANGED <<log, published, conn, cl, cache, used>>
           /\ \A i \in 1 .. Len(items) : items[i].kind = "event"
    BY <1>6, ReplayIs
  <2>2. wire = <<>>
    BY <1>6 DEF Replay, CInv, Phases
  <2>3. \A i \in 1 .. Len(wire') : wire'[i].kind # "snapshot"
    <3>1. ASSUME NEW i \in 1 .. Len(wire'), wire'[i].kind = "snapshot" PROVE FALSE
      <4>1. i \in 1 .. Len(items) /\ wire'[i] = items[i]
        BY <2>1, <2>2, <3>1, SnapshotOfLive
      <4> QED
        BY <2>1, <3>1, <4>1
    <3> QED
      BY <3>1
  <2> QED
    BY <1>2, <2>1, <2>3, FoldsStep DEF FInv
<1> QED
  BY <1>3, <1>4, <1>5, <1>6 DEF ServerStep

LEMMA ConnectionFolds ==
  TInv /\ FInv /\ (Connect \/ Disconnect \/ Reconnect \/ Establish) => FInv'
<1> SUFFICES ASSUME TInv, FInv, Connect \/ Disconnect \/ Reconnect \/ Establish PROVE FInv'
  OBVIOUS
<1>1. cl \in Clients /\ conn.server \in Servers /\ TInv' /\ ViewFits(cl) /\ Good(cache)
  BY ConnectionFits DEF TInv, ServerFits, ClientFits, Conns, FInv
<1>2. log' = log /\ cache' = cache
  BY DEF Connect, Disconnect, Reconnect, Establish
<1>3. wire' = wire \/ wire' = <<>>
  BY DEF Connect, Disconnect, Reconnect, Establish
<1>4. \A i \in 1 .. Len(wire') : wire'[i].kind = "snapshot" => Good(wire'[i].snapshot)
  <2>1. CASE wire' = wire
    BY <2>1 DEF FInv
  <2>2. CASE wire' = <<>>
    BY <2>2, EmptySeq
  <2> QED
    BY <1>3, <2>1, <2>2
<1>5. ViewFits(cl')
  <2>1. CASE Connect
    BY <1>1, <2>1, WordsKeep DEF Connect
  <2>2. CASE Disconnect
    <3>1. PICK d : d = SetDisconnected(cl)
      OBVIOUS
    <3>2. d \in Clients
      BY <1>1, <3>1, WordsChange
    <3>3. ViewFits(d) /\ cl' = [d EXCEPT !.phase = "idle"]
      BY <1>1, <2>2, <3>1, WordsKeep DEF Disconnect
    <3> QED
      BY <3>2, <3>3, PhaseKeeps
  <2>3. CASE Reconnect
    <3>1. PICK d : d = SetSynchronizing(cl)
      OBVIOUS
    <3>2. d \in Clients
      BY <1>1, <3>1, WordsChange
    <3>3. ViewFits(d) /\ cl' = [d EXCEPT !.phase = "idle"]
      BY <1>1, <2>3, <3>1, WordsKeep DEF Reconnect
    <3> QED
      BY <3>2, <3>3, PhaseKeeps
  <2>4. CASE Establish
    BY <1>1, <2>4, BeginKeeps DEF Establish
  <2> QED
    BY <2>1, <2>2, <2>3, <2>4
<1> QED
  BY <1>1, <1>2, <1>4, <1>5, FoldsStep

LEMMA FeedingFolds == TInv /\ CInv /\ FInv /\ (Subscribe \/ Resubscribe \/ Reopen) => FInv'
<1> SUFFICES ASSUME TInv, CInv, FInv, Subscribe \/ Resubscribe \/ Reopen PROVE FInv'
  OBVIOUS
<1>1. /\ cl \in Clients /\ conn.server \in Servers /\ TInv' /\ ViewFits(cl) /\ Good(cache)
      /\ Orderly(log)
  BY FeedingFits DEF TInv, ServerFits, ClientFits, Conns, FInv
<1>2. CASE Subscribe
  <2>1. UNCHANGED <<log, wire, cache>>
    BY <1>2, SubscribeIs
  <2>2. PICK l \in Clients :
              /\ cl' = Ask(l, conn.server) /\ sub' = Opened(l, conn.server)
              /\ \/ l = cl
                 \/ ~cl.has /\ l = ApplySnapshot(cl, FirstPage(conn.server))
    BY <1>2, SubscribeIs
  <2>3. ViewFits(l)
    <3>1. CASE l = cl
      BY <1>1, <3>1
    <3>2. CASE l = ApplySnapshot(cl, FirstPage(conn.server))
      <4>1. PICK s : s = FirstPage(conn.server)
        OBVIOUS
      <4>2. Good(s) /\ s \in Snapshots
        BY <1>1, <4>1, FirstPageGood
      <4>3. ViewFits(ApplySnapshot(cl, s))
        BY <1>1, <4>2, SnapshotKeeps
      <4> QED
        BY <3>2, <4>1, <4>3
    <3> QED
      BY <2>2, <3>1, <3>2
  <2>4. ViewFits(cl')
    BY <1>1, <2>2, <2>3, WordsKeep
  <2> QED
    BY <1>1, <2>1, <2>4, FoldsStep DEF FInv
<1>3. CASE Resubscribe
  <2>1. cl' = Begin(cl, conn.server) /\ wire' = <<>> /\ log' = log /\ cache' = cache
    BY <1>3, ResubscribeIs
  <2>2. ViewFits(cl')
    BY <1>1, <2>1, BeginKeeps
  <2> QED
    BY <1>1, <2>1, <2>2, FoldsStep, EmptySeq
<1>4. CASE Reopen
  <2>1. /\ wire' = <<>> /\ log' = log
        /\ \/ cache' = cache
           \/ /\ cl.has /\ cache'.seq = cl.seq /\ cache'.thread = cl.thread
              /\ SameCut(cl.page, cache'.page)
        /\ SnapshotFits(cache')
    BY <1>4, ReopenIs
  <2>2. PICK s : s = cache'
    OBVIOUS
  <2>3. Good(s) /\ s \in Snapshots
    <3>1. CASE s = cache
      BY <1>1, <2>1, <2>2, <3>1 DEF SnapshotFits
    <3>2. CASE /\ cl.has /\ s.seq = cl.seq /\ s.thread = cl.thread
               /\ SameCut(cl.page, s.page)
      <4>1. Good(cl)
        BY <1>1, <3>2 DEF ViewFits, Shows
      <4> QED
        BY <2>1, <2>2, <3>2, <4>1, GoodStill DEF SnapshotFits
    <3> QED
      BY <2>1, <2>2, <3>1, <3>2
  <2>4. PICK g : g = Fresh(s)
    OBVIOUS
  <2>5. g \in Clients /\ ViewFits(g)
    BY <1>1, <2>3, <2>4, FreshIs, FreshKeeps
  <2>6. \/ conn.phase = "up" /\ cl' = SetReady(Begin(g, conn.server))
        \/ conn.phase = "down" /\ cl' = SetDisconnected(g)
        \/ conn.phase = "prepared" /\ cl' = g
    BY <1>4, <2>2, <2>4, ReopenIs
  <2>7. ViewFits(cl')
    BY <1>1, <2>5, <2>6, BeginKeeps, WordsKeep
  <2>8. Good(cache')
    BY <2>2, <2>3
  <2> QED
    BY <1>1, <2>1, <2>7, <2>8, FoldsStep, EmptySeq
<1> QED
  BY <1>2, <1>3, <1>4

\* A view that is alike but for what it asks and whether it is loading.
LEMMA ViewAlike ==
  ASSUME NEW c, NEW d, ViewFits(c), d.has = c.has, d.thread = c.thread, d.seq = c.seq,
         SameCut(c.page, d.page), d.saving = c.saving, d.parked = c.parked
  PROVE  Shows(d) /\ ParkFits(d)
<1>1. Good(c) => Good(d)
  BY GoodStill
<1>2. Shows(d)
  BY <1>1 DEF ViewFits, Shows, SameCut
<1>3. Parked(d) => Parked(c)
  BY DEF Parked
<1>4. ParkFits(d)
  <2>1. SUFFICES ASSUME Parked(d) PROVE ParkFits(d)
    BY DEF ParkFits
  <2>2. /\ c.has /\ c.seq < c.parked.snapshot.watermark
        /\ \E x \in 1 .. c.seq : /\ Opens(x, c.seq) /\ IsPage(c.parked.snapshot, x)
                                 /\ CutAt(c.page, x) \/ CutBelow(c.page, c.seq, x)
    BY <1>3, <2>1 DEF ViewFits, ParkFits
  <2>3. \A x : CutAt(c.page, x) => CutAt(d.page, x)
    BY DEF CutAt, SameCut
  <2>4. \A x : CutBelow(c.page, c.seq, x) => CutBelow(d.page, c.seq, x)
    BY DEF CutBelow, SameCut
  <2> QED
    BY <2>2, <2>3, <2>4 DEF ParkFits
<1> QED
  BY <1>2, <1>4

\* An older page is asked for at the cut of the view.
LEMMA LoadOlderTurnsFolds == TInv /\ FInv /\ LoadOlderTurns => ViewFits(cl')
<1> SUFFICES ASSUME TInv, FInv, LoadOlderTurns PROVE ViewFits(cl')
  OBVIOUS
<1>1. PICK c : c = cl
  OBVIOUS
<1>2. c \in Clients /\ ViewFits(c)
  BY <1>1 DEF TInv, ClientFits, FInv
<1>3. PICK d : d = cl'
  OBVIOUS
<1>4. /\ d.has = c.has /\ d.thread = c.thread /\ d.seq = c.seq
      /\ SameCut(c.page, d.page) /\ d.saving = c.saving /\ d.parked = c.parked
      /\ c.page.windowed /\ c.page.more
      /\ d.asked.phase = "asked" /\ d.asked.cursor = c.page.cursor
  BY <1>1, <1>2, <1>3, LoadOlderTurnsIs
<1>5. Shows(d) /\ ParkFits(d)
  BY <1>2, <1>4, ViewAlike
<1>6. c.has /\ Good(c)
  BY <1>2, <1>4 DEF ViewFits, Shows
<1>7. Opens(c.page.cursor, c.seq)
  BY <1>4, <1>6 DEF Good, CutFits
<1>8. CutAt(d.page, d.asked.cursor)
  BY <1>4 DEF CutAt, SameCut
<1>9. AskFits(d) /\ AnswerFits(d)
  BY <1>4, <1>6, <1>7, <1>8 DEF AskFits, AnswerFits, Answered
<1> QED
  BY <1>3, <1>5, <1>9 DEF ViewFits

\* The page that answers is of the log as it is, no older than one that waits.
LEMMA AnswerOlderTurnsFolds == TInv /\ FInv /\ AnswerOlderTurns => ViewFits(cl')
<1> SUFFICES ASSUME TInv, FInv, AnswerOlderTurns PROVE ViewFits(cl')
  OBVIOUS
<1>1. PICK c : c = cl
  OBVIOUS
<1>2. c \in Clients /\ ViewFits(c) /\ Orderly(log) /\ Len(log) \in Nat
  BY <1>1, LogIs DEF TInv, ServerFits, ClientFits, FInv
<1>3. PICK d : d = cl'
  OBVIOUS
<1>4. /\ SameView(c, d) /\ d.saving = c.saving /\ d.parked = c.parked
      /\ c.asked.phase = "asked" /\ d.asked.phase = "answered"
      /\ d.asked.cursor = c.asked.cursor /\ d.asked.fresh = c.asked.fresh
      /\ d.asked.snapshot = NoSnapshot \/ d.asked.snapshot = Page(c.asked.cursor)
  BY <1>1, <1>2, <1>3, AnswerOlderTurnsIs
<1>5. Shows(d) /\ ParkFits(d)
  BY <1>2, <1>4, ViewAlike DEF SameView, SameCut
<1>6. AskFits(d)
  BY <1>2, <1>4 DEF ViewFits, AskFits, Asks, SameView, Parked
<1>7. AnswerFits(d)
  <2>1. SUFFICES ASSUME d.asked.snapshot = Page(c.asked.cursor)
                 PROVE  /\ IsPage(d.asked.snapshot, d.asked.cursor)
                        /\ Parked(d) => d.asked.snapshot.watermark >= d.parked.snapshot.watermark
    BY <1>4 DEF AnswerFits, Answered
  <2>2. PICK x : x = c.asked.cursor
    OBVIOUS
  <2>3. x \in Nat
    BY <1>2, <2>2, FeedAssumption DEF Clients, Fetches
  <2>4. PICK p : p = Page(x)
    OBVIOUS
  <2>5. /\ p.seq = Len(log) /\ p.watermark = Watermark(Len(log))
        /\ p.thread = TurnWindow(ThreadAt(Len(log)), x).thread
        /\ p.page = TurnWindow(ThreadAt(Len(log)), x).page
    BY <1>2, <2>3, <2>4, PageIs
  <2>6. IsPage(p, x)
    BY <1>2, <2>5 DEF IsPage, WindowAt
  <2>7. ASSUME Parked(c) PROVE p.watermark >= c.parked.snapshot.watermark
    <3>1. PICK s : s = c.parked.snapshot
      OBVIOUS
    <3>2. s \in Snapshots /\ s.seq \in Nat
      BY <1>2, <3>1, FeedAssumption DEF Clients, Parks, Snapshots
    <3>3. s.seq <= Len(log) /\ s.watermark = Watermark(s.seq)
      BY <1>2, <2>7, <3>1 DEF ViewFits, ParkFits, IsPage
    <3>4. s.watermark \in 0 .. s.seq /\ (s.watermark # 0 => Told(s.watermark))
      BY <3>2, <3>3, WatermarkIs
    <3>5. /\ p.watermark \in 0 .. Len(log)
          /\ \A e \in 1 .. Len(log) : Told(e) => e <= p.watermark
      BY <1>2, <2>5, WatermarkIs
    <3> QED
      BY <1>2, <3>1, <3>2, <3>3, <3>4, <3>5
  <2> QED
    BY <1>4, <2>1, <2>2, <2>4, <2>6, <2>7 DEF Parked
<1> QED
  BY <1>3, <1>5, <1>6, <1>7 DEF ViewFits

\* Taken, it is discarded, parked for the events it is ahead of, or merged.
LEMMA TakeOlderTurnsFolds == TInv /\ FInv /\ TakeOlderTurns => ViewFits(cl')
<1> SUFFICES ASSUME TInv, FInv, TakeOlderTurns PROVE ViewFits(cl')
  OBVIOUS
<1>1. PICK c : c = cl
  OBVIOUS
<1>2. c \in Clients /\ ViewFits(c) /\ Orderly(log) /\ Len(log) \in Nat /\ c.seq \in 0 .. Len(log)
  BY <1>1, LogIs, FeedAssumption DEF TInv, ServerFits, ClientFits, Clients, FInv
<1>3. PICK d : d = cl'
  OBVIOUS
<1>4. PICK s : s = c.asked.snapshot
  OBVIOUS
<1>5. /\ d.has = c.has /\ d.seq = c.seq /\ c.asked.phase = "answered" /\ d.asked = NoFetch
      /\ \/ /\ d.thread = c.thread /\ SameCut(c.page, d.page)
            /\ d.parked = c.parked /\ d.saving = c.saving
         \/ /\ c.asked.fresh /\ s # NoSnapshot
            /\ s.seq >= c.seq /\ s.watermark > c.seq
            /\ d.thread = c.thread /\ d.page = c.page /\ d.saving = c.saving
            /\ d.parked = [on |-> TRUE, fresh |-> TRUE, snapshot |-> s]
         \/ /\ c.has /\ c.asked.fresh /\ s # NoSnapshot
            /\ s.seq >= c.seq /\ s.watermark <= c.seq
            /\ d.thread = MergeRows(c.thread, s.thread)
            /\ d.page = s.page /\ d.parked = c.parked /\ Saves(d)
  BY <1>1, <1>2, <1>3, <1>4, TakeOlderTurnsIs
<1>6. AskFits(d) /\ AnswerFits(d)
  BY <1>5 DEF AskFits, AnswerFits, Asks, Answered, NoFetch
<1>7. s \in Snapshots /\ s.seq \in Nat /\ s.watermark \in Nat
  BY <1>2, <1>4, FeedAssumption DEF Clients, Fetches, Snapshots
<1>8. ASSUME c.asked.fresh, s # NoSnapshot
      PROVE  /\ IsPage(s, c.asked.cursor) /\ (Parked(c) => s.watermark >= c.parked.snapshot.watermark)
             /\ c.has /\ Opens(c.asked.cursor, c.seq)
             /\ CutAt(c.page, c.asked.cursor) \/ CutBelow(c.page, c.seq, c.asked.cursor)
  <2>1. Asks(c) /\ Answered(c)
    BY <1>4, <1>5, <1>8 DEF Asks, Answered
  <2> QED
    BY <1>2, <1>4, <2>1 DEF ViewFits, AskFits, AnswerFits
<1>9. CASE /\ d.thread = c.thread /\ SameCut(c.page, d.page)
           /\ d.parked = c.parked /\ d.saving = c.saving
  <2>1. Shows(d) /\ ParkFits(d)
    BY <1>2, <1>5, <1>9, ViewAlike
  <2> QED
    BY <1>3, <1>6, <2>1 DEF ViewFits
<1>10. CASE /\ c.asked.fresh /\ s # NoSnapshot
            /\ s.seq >= c.seq /\ s.watermark > c.seq
            /\ d.thread = c.thread /\ d.page = c.page /\ d.saving = c.saving
            /\ d.parked = [on |-> TRUE, fresh |-> TRUE, snapshot |-> s]
  <2>1. Shows(d)
    <3>1. Good(c) => Good(d)
      BY <1>5, <1>10 DEF Good
    <3> QED
      BY <1>2, <1>5, <1>10, <3>1 DEF ViewFits, Shows
  <2>2. c.asked.cursor \in 1 .. d.seq
    BY <1>5, <1>8, <1>10 DEF Opens
  <2>3. d.parked.snapshot = s /\ d.seq < s.watermark
    BY <1>2, <1>5, <1>7, <1>10
  <2>4. ParkFits(d)
    BY <1>5, <1>8, <1>10, <2>2, <2>3 DEF ParkFits
  <2> QED
    BY <1>3, <1>6, <2>1, <2>4 DEF ViewFits
<1>11. CASE /\ c.has /\ c.asked.fresh /\ s # NoSnapshot
            /\ s.seq >= c.seq /\ s.watermark <= c.seq
            /\ d.thread = MergeRows(c.thread, s.thread)
            /\ d.page = s.page /\ d.parked = c.parked /\ Saves(d)
  <2>1. PICK x : x = c.asked.cursor
    OBVIOUS
  <2>2. s.thread = WindowAt(c.seq, x).thread /\ s.page = WindowAt(c.seq, x).page
    BY <1>2, <1>7, <1>8, <1>11, <2>1, PageSince
  <2>3. Good(c)
    BY <1>2, <1>11 DEF ViewFits, Shows
  <2>4. Good(d)
    BY <1>2, <1>5, <1>8, <1>11, <2>1, <2>2, <2>3, GoodMerged
  <2>5. Shows(d)
    BY <1>5, <1>11, <2>4, GoodSaved DEF Shows
  <2>6. ~Parked(d)
    <3>1. ASSUME Parked(c) PROVE FALSE
      <4>1. c.parked.snapshot.watermark \in Nat
        BY <1>2, FeedAssumption DEF Clients, Parks, Snapshots
      <4>2. s.watermark >= c.parked.snapshot.watermark
        BY <1>8, <1>11, <3>1
      <4>3. c.seq < c.parked.snapshot.watermark
        BY <1>2, <3>1 DEF ViewFits, ParkFits
      <4> QED
        BY <1>2, <1>7, <1>11, <4>1, <4>2, <4>3
    <3> QED
      BY <1>11, <3>1 DEF Parked
  <2> QED
    BY <1>3, <1>6, <2>5, <2>6 DEF ViewFits, ParkFits
<1> QED
  BY <1>5, <1>9, <1>10, <1>11

LEMMA ClientFolds ==
  TInv /\ FInv /\ (LoadOlderTurns \/ AnswerOlderTurns \/ TakeOlderTurns \/ Save) => FInv'
<1> SUFFICES ASSUME TInv, FInv, LoadOlderTurns \/ AnswerOlderTurns \/ TakeOlderTurns \/ Save
             PROVE  FInv'
  OBVIOUS
<1>1. TInv' /\ UNCHANGED <<log, wire>>
  BY ClientFitsStill
<1>2. Good(cache) /\ ViewFits(cl) /\ cl \in Clients /\ Orderly(log)
  BY DEF FInv, TInv, ClientFits, ServerFits
<1>3. CASE LoadOlderTurns \/ AnswerOlderTurns \/ TakeOlderTurns
  <2>1. cache' = cache
    BY <1>3 DEF LoadOlderTurns, AnswerOlderTurns, TakeOlderTurns
  <2>2. ViewFits(cl')
    BY <1>3, LoadOlderTurnsFolds, AnswerOlderTurnsFolds, TakeOlderTurnsFolds
  <2> QED
    BY <1>1, <1>2, <2>1, <2>2, FoldsStep DEF FInv
<1>4. CASE Save
  <2>1. /\ SameView(cl, cl') /\ SameWait(cl, cl') /\ cl'.saving = NoSnapshot
        /\ cache' \in {cache, cl.saving}
    BY <1>2, <1>4, SaveIs
  <2>2. ViewFits(cl')
    BY <1>2, <2>1, GoodNothing, ViewStill
  <2>3. Good(cl.saving)
    BY <1>2 DEF ViewFits, Shows
  <2>4. Good(cache')
    BY <1>2, <2>1, <2>3
  <2> QED
    BY <1>1, <2>2, <2>4, FoldsStep DEF FInv
<1> QED
  BY <1>3, <1>4

LEMMA InitFolds == Init => FInv
<1> SUFFICES ASSUME Init PROVE FInv
  OBVIOUS
<1>1. Orderly(log)
  BY InitFits DEF TInv, ServerFits
<1>2. PICK d : d = Fresh(NoSnapshot)
  OBVIOUS
<1>3. d \in Clients /\ ViewFits(d)
  BY <1>1, <1>2, NoSnapshotType, GoodNothing, FreshIs, FreshKeeps
<1>4. cl = SetDisconnected(d) /\ cache = NoSnapshot /\ wire = <<>>
  BY <1>2 DEF Init
<1>5. ViewFits(cl)
  BY <1>3, <1>4, WordsKeep
<1> QED
  BY <1>1, <1>4, <1>5, GoodNothing, EmptySeq DEF FInv

\* They hold as long as every live fiber listened to what was published.
Folds == unheard = {} => FInv

LEMMA StepFolds == TInv /\ CInv /\ Gapless /\ Folds /\ [Next]_vars => Folds'
<1> SUFFICES ASSUME TInv, CInv, Gapless, Folds, [Next]_vars, unheard' = {} PROVE FInv'
  BY DEF Folds
<1>0. GInv /\ FInv
  <2>1. unheard = {}
    BY UnheardGrows
  <2> QED
    BY <2>1 DEF Gapless, Folds
<1>1. CASE UNCHANGED vars
  <2>1. UNCHANGED <<log, wire, cl, cache>> /\ TInv'
    BY <1>1, StepFits DEF vars
  <2> QED
    BY <1>0, <2>1, FoldsStep DEF FInv
<1> QED
  BY <1>0, <1>1, CommitFolds, ServerFolds, ConnectionFolds, FeedingFolds, DeliverFolds,
     ClientFolds DEF Next, ClientStep

LEMMA InitHeard == Init => Gapless /\ Folds
BY InitGapless, InitFolds DEF Gapless, Folds

LEMMA FoldsMean == Folds => ThreadIsFold /\ CacheIsFold
BY DEF Folds, FInv, ViewFits, Shows, Good, Odd, ThreadIsFold, CacheIsFold, IsFold

\* As long as every live fiber listened to what was published, the view is the fold of the
\* log at the sequence it claims, cut at the turn its page names: nothing is lost between
\* replay and live delivery, nothing is folded twice, and an older page brings back no turn
\* and no text that is not the log's. A windowed view may be wrong about the turns that were
\* sent deltas after a later turn was opened, and about no other.
THEOREM ViewIsFold == Spec => []ThreadIsFold
BY InitFits, StepFits, InitCaught, StepCaught, StepGapless, StepFolds, InitHeard, FoldsMean,
   PTL DEF Spec

\* What is on disk, and what waits to be written there, is such a fold too, with the
\* sequence and the page that belong to it: a view that resumes from it starts where it
\* says it does. Under the same condition.
THEOREM SavedIsFold == Spec => []CacheIsFold
BY InitFits, StepFits, InitCaught, StepCaught, StepGapless, StepFolds, InitHeard, FoldsMean,
   PTL DEF Spec

-----------------------------------------------------------------------------
(* Nothing is stuck: what a quiet subscription has come to *)

\* Something of this kind is on the wire.
Sends(w, kind) == \E i \in 1 .. Len(w) : w[i].kind = kind

\* A view that waits for a marker will be sent one; one that does not is live, or will be
\* by the snapshot it is sent; and a view that has nothing will be sent a snapshot.
SInv ==
  /\ sub.phase \in {"open", "replay"} =>
       /\ cl.awaiting => sub.marker
       /\ cl.has /\ ~cl.awaiting => cl.status = "live"
       /\ sub.after > 0 => cl.has
  /\ sub.phase = "replay" => sub.after > 0
  /\ sub.phase = "live" =>
       /\ cl.has \/ Sends(wire, "snapshot")
       /\ cl.awaiting => Sends(wire, "synchronized")
       /\ cl.awaiting \/ cl.status = "live" \/ Sends(wire, "snapshot")

LEMMA InitServed == Init => SInv
  BY DEF Init, SInv, NoSub

LEMMA StillServed ==
  ASSUME SInv, SameWord(cl, cl'), cl'.has = cl.has, UNCHANGED wire,
         sub'.phase = sub.phase, sub'.after = sub.after, sub'.marker = sub.marker
  PROVE  SInv'
  BY DEF SInv, SameWord, Sends

LEMMA ResetServed == ASSUME sub'.phase = "none" PROVE SInv'
  BY DEF SInv

LEMMA PublishServed == TInv /\ SInv /\ Publish => SInv'
<1> SUFFICES ASSUME TInv, SInv, Publish PROVE SInv'
  OBVIOUS
<1>1. PICK k : /\ k \in 1 .. Len(log)
               /\ cl' = cl /\ sub'.phase = sub.phase /\ sub'.after = sub.after
               /\ sub'.marker = sub.marker
               /\ wire' = wire \/ wire' = Append(wire, EventItem(k))
  BY PublishIs
<1>2. CASE wire' = wire
  BY <1>1, <1>2, StillServed DEF SameWord
<1>3. CASE wire' = Append(wire, EventItem(k))
  <2>1. wire \in Seq(Items)
    BY DEF TInv, WireFits
  <2>2. \A kind : Sends(wire, kind) => Sends(wire', kind)
    BY <1>3, <2>1 DEF Sends
  <2> QED
    BY <1>1, <2>2 DEF SInv
<1> QED
  BY <1>1, <1>2, <1>3

LEMMA ReadHeadServed == TInv /\ CInv /\ SInv /\ ReadHead => SInv'
<1> SUFFICES ASSUME TInv, CInv, SInv, ReadHead PROVE SInv'
  OBVIOUS
<1>1. Orderly(log) /\ Len(log) \in Nat /\ cl \in Clients /\ sub \in Subs
  BY LogIs, FeedAssumption DEF TInv, ServerFits, ClientFits, SubFits
<1>2. sub.phase = "open" /\ wire = <<>>
  BY DEF ReadHead, CInv, Phases
<1>3. CASE /\ sub.after > 0 /\ sub' = [sub EXCEPT !.phase = "replay", !.head = Len(log)]
           /\ UNCHANGED <<wire, cl>>
  <2>1. sub'.phase = "replay" /\ sub'.after = sub.after /\ sub'.marker = sub.marker
    BY <1>1, <1>3 DEF Subs
  <2> QED
    BY <1>2, <1>3, <2>1 DEF SInv
<1>4. CASE /\ GoLive(<<[kind |-> "snapshot", snapshot |-> FirstPage(conn.server)]>>, Len(log))
           /\ UNCHANGED cl
  <2>1. PICK s : s = FirstPage(conn.server)
    OBVIOUS
  <2>2. PICK x : x = [kind |-> "snapshot", snapshot |-> s]
    OBVIOUS
  <2>3. SnapshotFits(s)
    BY <1>1, <2>1, FirstPageIs DEF TInv, ServerFits, Conns
  <2>4. x \in Items /\ Known(x) /\ x.kind = "snapshot"
    BY <2>2, <2>3 DEF SnapshotFits, SnapshotItems, Items, Known
  <2>5. PICK items : items = <<x>>
    OBVIOUS
  <2>6. WireFits(items) /\ Len(items) = 1 /\ items[1] = x
    BY <2>4, <2>5, WireOne
  <2>7. GoLive(items, Len(log)) /\ Len(log) \in 0 .. Len(log)
    BY <1>1, <1>4, <2>1, <2>2, <2>5
  <2>8. sub'.phase = "live"
    BY <2>6, <2>7, GoLiveIs
  <2>9. /\ Len(sub.buffer) \in Nat /\ \A i \in 1 .. Len(items) : wire'[i] = items[i]
        /\ IF sub.marker THEN /\ Len(wire') = Len(items) + Len(sub.buffer) + 1
                              /\ wire'[Len(items) + Len(sub.buffer) + 1] = Marker
                         ELSE Len(wire') = Len(items) + Len(sub.buffer)
    BY <1>2, <2>6, <2>7, WireOfLive
  <2>10. 1 \in 1 .. Len(wire') /\ wire'[1].kind = "snapshot"
    BY <2>4, <2>6, <2>9
  <2>11. ASSUME sub.marker PROVE Sends(wire', "synchronized")
    <3>1. Len(wire') \in 1 .. Len(wire') /\ wire'[Len(wire')].kind = "synchronized"
      BY <2>6, <2>9, <2>11, MarkerIs
    <3> QED
      BY <3>1 DEF Sends
  <2> QED
    BY <1>2, <1>4, <2>8, <2>10, <2>11 DEF SInv, Sends
<1>5. CASE sub' = NoSub
  BY <1>5, ResetServed DEF NoSub
<1> QED
  BY <1>3, <1>4, <1>5 DEF ReadHead

LEMMA ReplayServed == TInv /\ CInv /\ SInv /\ Replay => SInv'
<1> SUFFICES ASSUME TInv, CInv, SInv, Replay PROVE SInv'
  OBVIOUS
<1>1. PICK items : WireFits(items) /\ GoLive(items, sub.head) /\ cl' = cl
  BY ReplayIs
<1>2. sub.phase = "replay" /\ wire = <<>>
  BY DEF Replay, CInv, Phases
<1>3. sub.head \in 0 .. Len(log)
  BY LogIs, FeedAssumption DEF TInv, ServerFits, SubFits, Subs
<1>4. sub'.phase = "live"
  BY <1>1, <1>3, GoLiveIs
<1>5. /\ Len(items) \in Nat /\ Len(sub.buffer) \in Nat
      /\ sub.marker => /\ Len(wire') = Len(items) + Len(sub.buffer) + 1
                       /\ wire'[Len(items) + Len(sub.buffer) + 1] = Marker
  BY <1>1, <1>2, WireOfLive
<1>6. ASSUME sub.marker PROVE Sends(wire', "synchronized")
  <2>1. Len(wire') \in 1 .. Len(wire') /\ wire'[Len(wire')].kind = "synchronized"
    BY <1>5, <1>6, MarkerIs
  <2> QED
    BY <2>1 DEF Sends
<1> QED
  BY <1>1, <1>2, <1>4, <1>6 DEF SInv

LEMMA SubscribeServed == TInv /\ CInv /\ Subscribe => SInv'
<1> SUFFICES ASSUME TInv, CInv, Subscribe PROVE SInv'
  OBVIOUS
<1>1. conn.phase = "up" /\ cl.phase = "loading"
  BY SubscribeIs
<1>2. PICK l \in Clients :
              /\ cl' = Ask(l, conn.server) /\ sub' = Opened(l, conn.server)
              /\ \/ l = cl
                 \/ ~cl.has /\ l = ApplySnapshot(cl, FirstPage(conn.server))
  BY SubscribeIs
<1>3. cl \in Clients /\ conn.server \in Servers /\ Orderly(log)
  BY DEF TInv, ServerFits, ClientFits, Conns
<1>4. cl.awaiting = conn.server.marker
  BY <1>1 DEF CInv, Phases
<1>5. l.awaiting = conn.server.marker
  <2>1. CASE l = cl
    BY <1>4, <2>1
  <2>2. CASE l = ApplySnapshot(cl, FirstPage(conn.server))
    <3>1. PICK s \in Snapshots : s = FirstPage(conn.server)
      BY <1>3, FirstPageIs DEF SnapshotFits
    <3>2. l = ApplySnapshot(cl, s)
      BY <2>2, <3>1
    <3> QED
      BY <1>3, <1>4, <3>2, ApplySnapshotIs
  <2> QED
    BY <1>2, <2>1, <2>2
<1>6. cl'.awaiting = l.awaiting /\ cl'.has = l.has
  BY <1>2, <1>3, AskIs DEF SameView
<1>7. ~conn.server.marker /\ l.has => cl'.status = "live"
  BY <1>2 DEF Ask, Clients
<1>8. /\ sub'.phase = "open" /\ sub'.marker = conn.server.marker
      /\ sub'.after = (IF l.has THEN l.seq ELSE 0)
  BY <1>2, <1>3, OpenedIs
<1> QED
  BY <1>5, <1>6, <1>7, <1>8 DEF SInv

\* What applying an item does to whether the view has the thread and says it is live.
LEMMA ItemServes ==
  ASSUME Orderly(log), NEW c, ClientFits(c), NEW x \in Items, Known(x)
  PROVE  LET d == ApplyItem(c, x)
         IN  /\ c.has => d.has
             /\ x.kind = "snapshot" => /\ d.has /\ d.awaiting = c.awaiting
                                       /\ ~c.awaiting => d.status = "live"
             /\ x.kind = "event" => /\ d.awaiting = c.awaiting
                                    /\ ~c.awaiting /\ c.status = "live" => d.status = "live"
             /\ x.kind = "synchronized" => ~d.awaiting /\ (c.has => d.status = "live")
<1> DEFINE d == ApplyItem(c, x)
<1>1. c \in Clients /\ c.seq \in 0 .. MaxEvents /\ Len(log) \in 0 .. MaxEvents
  BY LogIs, FeedAssumption DEF ClientFits, Clients
<1>2. /\ x.kind = "event" => d = ApplyEvent(c, x.seq)
      /\ x.kind = "snapshot" => d = ApplySnapshot(c, x.snapshot)
      /\ x.kind = "synchronized" => d = ApplyMarker(c)
  BY ApplyItemFits
<1> HIDE DEF d
<1>3. CASE x.kind = "event" /\ x.seq \in 1 .. Len(log)
  <2> DEFINE s == x.seq
             e == Folded(c, s)
  <2>1. s \in 1 .. MaxEvents
    BY <1>1, <1>3, FeedAssumption
  <2>2. d = IF s <= c.seq THEN c
            ELSE IF c.has THEN TryMergePending(e) ELSE [c EXCEPT !.seq = s]
    BY <1>1, <1>2, <1>3, <2>1, ApplyEventIs
  <2>3. CASE s <= c.seq
    BY <1>3, <2>2, <2>3 DEF d
  <2>4. CASE ~(s <= c.seq) /\ ~c.has
    <3>1. d.has = c.has /\ d.awaiting = c.awaiting /\ d.status = c.status
      BY <1>1, <2>1, <2>2, <2>4 DEF Clients
    <3> QED
      BY <1>3, <2>4, <3>1 DEF d
  <2>5. CASE ~(s <= c.seq) /\ c.has
    <3>1. Reduce(c.thread, s, log[s]) \in Threads
      BY <1>1, <1>3, ReduceFits DEF Clients
    <3>2. /\ e \in Clients /\ e.has = TRUE /\ e.awaiting = c.awaiting
          /\ e.status = (IF c.awaiting THEN "synchronizing" ELSE "live")
      BY <1>1, <2>1, <3>1, FoldedIs
    <3> HIDE DEF e
    <3>3. SameWord(e, TryMergePending(e)) /\ TryMergePending(e).has = e.has
      BY <3>2, TryMergePendingIs
    <3>4. d.has /\ d.awaiting = c.awaiting /\ (~c.awaiting => d.status = "live")
      BY <2>2, <2>5, <3>2, <3>3 DEF SameWord
    <3> QED
      BY <1>3, <3>4 DEF d
  <2> QED
    BY <2>3, <2>4, <2>5
<1>4. CASE x.kind = "snapshot" /\ SnapshotFits(x.snapshot)
  <2>1. x.snapshot \in Snapshots
    BY <1>4 DEF SnapshotFits
  <2>2. PICK f : f = ApplySnapshot(c, x.snapshot)
    OBVIOUS
  <2>3. f.has = TRUE /\ f.awaiting = c.awaiting
    BY <1>1, <2>1, <2>2, ApplySnapshotIs
  <2>4. f.status = (IF c.awaiting THEN "synchronizing" ELSE "live")
    BY <1>1, <2>1, <2>2, ApplySnapshotIs
  <2>5. d = f
    BY <1>2, <1>4, <2>2
  <2> QED
    BY <1>4, <2>3, <2>4, <2>5 DEF d
<1>5. CASE x = Marker
  <2>1. d = ApplyMarker(c) /\ x.kind = "synchronized"
    BY <1>2, <1>5, MarkerIs
  <2>2. ~d.awaiting /\ d.has = c.has /\ (c.has => d.status = "live")
    BY <1>1, <2>1 DEF ApplyMarker, Clients
  <2> QED
    BY <2>1, <2>2 DEF d
<1> QED
  BY <1>3, <1>4, <1>5, ItemIs

LEMMA DeliverServed == TInv /\ CInv /\ SInv /\ Deliver => SInv'
<1> SUFFICES ASSUME TInv, CInv, SInv, Deliver PROVE SInv'
  OBVIOUS
<1> DEFINE x == wire[1]
<1>1. /\ wire # <<>> /\ x \in Items /\ Known(x)
      /\ cl' = ApplyItem(cl, x) /\ wire' = Tail(wire) /\ sub' = sub
  BY DeliverIs
<1>2. sub.phase = "live"
  BY <1>1 DEF CInv, Phases
<1>3. PICK d : d = cl'
  OBVIOUS
<1>4. /\ cl.has => d.has
      /\ x.kind = "snapshot" => /\ d.has /\ d.awaiting = cl.awaiting
                                /\ ~cl.awaiting => d.status = "live"
      /\ x.kind = "event" => /\ d.awaiting = cl.awaiting
                             /\ ~cl.awaiting /\ cl.status = "live" => d.status = "live"
      /\ x.kind = "synchronized" => ~d.awaiting /\ (cl.has => d.status = "live")
  BY <1>1, <1>3, ItemServes DEF TInv, ServerFits
<1>5. ASSUME NEW kind, Sends(wire, kind), x.kind # kind PROVE Sends(wire', kind)
  <2>1. PICK i \in 1 .. Len(wire) : wire[i].kind = kind
    BY <1>5 DEF Sends
  <2>2. wire \in Seq(Items) /\ i # 1
    BY <1>5, <2>1 DEF TInv, WireFits
  <2>3. i - 1 \in 1 .. Len(wire') /\ wire'[i - 1] = wire[i]
    BY <1>1, <2>1, <2>2
  <2> QED
    BY <2>1, <2>3 DEF Sends
<1>6. x.kind # "snapshot" => ~Sends(wire, "snapshot")
  BY DEF Sends, CInv, Phases
<1>7. x.kind \in {"event", "snapshot", "synchronized"}
  BY <1>1 DEF Known
<1> HIDE DEF x
<1>8. CASE x.kind = "snapshot"
  BY <1>1, <1>2, <1>3, <1>4, <1>5, <1>8 DEF SInv
<1>9. CASE x.kind = "event"
  BY <1>1, <1>2, <1>3, <1>4, <1>5, <1>6, <1>9 DEF SInv
<1>10. CASE x.kind = "synchronized"
  BY <1>1, <1>2, <1>3, <1>4, <1>6, <1>10 DEF SInv
<1> QED
  BY <1>7, <1>8, <1>9, <1>10

LEMMA StepServed == TInv /\ CInv /\ SInv /\ [Next]_vars => SInv'
<1> SUFFICES ASSUME TInv, CInv, SInv, [Next]_vars PROVE SInv'
  OBVIOUS
<1>1. cl \in Clients /\ sub \in Subs /\ Orderly(log) /\ NoSub.phase = "none"
  BY DEF TInv, ClientFits, SubFits, ServerFits, NoSub
<1>2. CASE UNCHANGED vars
  BY <1>2, StillServed DEF vars, SameWord
<1>3. CASE Commit
  BY <1>3, StillServed DEF Commit, SameWord
<1>4. CASE Attach
  <2>1. /\ UNCHANGED <<wire, cl>> /\ sub'.phase = sub.phase /\ sub'.after = sub.after
        /\ sub'.marker = sub.marker
    BY <1>1, <1>4 DEF Attach, Subs
  <2> QED
    BY <2>1, StillServed DEF SameWord
<1>5. CASE LoadOlderTurns \/ AnswerOlderTurns \/ TakeOlderTurns \/ Save
  BY <1>5, ClientFitsStill, StillServed
<1>6. CASE Connect \/ Establish
  <2>1. sub.phase = "none" /\ sub' = sub
    BY <1>6 DEF Connect, Establish, CInv, Phases
  <2> QED
    BY <2>1, ResetServed
<1>7. CASE Disconnect \/ Reconnect \/ Resubscribe \/ Reopen
  BY <1>1, <1>7, ResetServed DEF Disconnect, Reconnect, Resubscribe, Reopen
<1> QED
  BY <1>2, <1>3, <1>4, <1>5, <1>6, <1>7, PublishServed, ReadHeadServed, ReplayServed,
     SubscribeServed, DeliverServed DEF Next, ServerStep, ClientStep

\* An older page is loading only while it is out, or waits for the view; nothing that is
\* saved, sent or fetched is loading. The watermark of a page is an event that is told.
Marked(s) == s.watermark # 0 => s.watermark \in 1 .. Len(log) /\ Told(s.watermark)
LoadFits(d) ==
  /\ d.page.loading => d.has /\ (d.asked.phase # "none" \/ Parked(d))
  /\ ~d.has => ~d.page.windowed
  /\ Asks(d) => d.has
  /\ Parked(d) => /\ d.has /\ d.seq < d.parked.snapshot.watermark
                  /\ ~d.parked.snapshot.page.loading /\ Marked(d.parked.snapshot)
  /\ ~d.saving.page.loading /\ ~d.asked.snapshot.page.loading /\ Marked(d.asked.snapshot)
LInv ==
  /\ LoadFits(cl) /\ ~cache.page.loading
  /\ \A i \in 1 .. Len(wire) : wire[i].kind = "snapshot" => ~wire[i].snapshot.page.loading

LEMMA NothingLoads ==
  /\ ~NoSnapshot.page.loading /\ Marked(NoSnapshot) /\ ~NoPage.loading /\ ~NoPage.windowed
  /\ NoSnapshot.page = NoPage /\ NoFetch.phase = "none" /\ NoFetch.snapshot = NoSnapshot
  /\ ~NoParked.on
  BY DEF NoSnapshot, NoPage, Marked, NoFetch, NoParked

\* A view that only says something else of itself.
LEMMA WordsLoad ==
  ASSUME NEW c, LoadFits(c), NEW d, SameView(c, d), SameWait(c, d), d.saving = c.saving
  PROVE  LoadFits(d)
  BY DEF LoadFits, SameView, SameWait, Asks, Parked, Marked

\* A view that starts from a save.
LEMMA FreshLoads ==
  ASSUME NEW s \in Snapshots, ~s.page.loading
  PROVE  LoadFits(Fresh(s))
<1>1. PICK d : d = Fresh(s)
  OBVIOUS
<1>2. /\ d.page = s.page /\ d.has = (s # NoSnapshot)
      /\ d.asked = NoFetch /\ d.parked = NoParked /\ d.saving = NoSnapshot
  BY <1>1, FreshIs
<1> QED
  BY <1>1, <1>2, NothingLoads DEF LoadFits, Asks, Parked

LEMMA BeginLoads ==
  ASSUME NEW c \in Clients, LoadFits(c), NEW v \in Servers
  PROVE  LoadFits(Begin(c, v))
<1>1. PICK d : d = Begin(c, v)
  OBVIOUS
<1>2. /\ d.saving = c.saving
      /\ \/ SameView(c, d) /\ SameWait(c, d)
         \/ /\ ~d.has /\ d.page = NoPage
            /\ d.asked.snapshot = c.asked.snapshot /\ ~d.asked.fresh /\ ~Parked(d)
  BY <1>1, BeginIs
<1>3. CASE SameView(c, d) /\ SameWait(c, d)
  BY <1>1, <1>2, <1>3, WordsLoad
<1>4. CASE /\ ~d.has /\ d.page = NoPage
           /\ d.asked.snapshot = c.asked.snapshot /\ ~d.asked.fresh /\ ~Parked(d)
  BY <1>1, <1>2, <1>4, NothingLoads DEF LoadFits, Asks
<1> QED
  BY <1>2, <1>3, <1>4

LEMMA SnapshotLoads ==
  ASSUME NEW c \in Clients, LoadFits(c), NEW s \in Snapshots, ~s.page.loading
  PROVE  LoadFits(ApplySnapshot(c, s))
<1>1. PICK d : d = ApplySnapshot(c, s)
  OBVIOUS
<1>2. /\ Saves(d) /\ d.has = TRUE /\ d.page = s.page
      /\ d.asked.snapshot = c.asked.snapshot /\ ~d.asked.fresh /\ ~Parked(d)
  BY <1>1, ApplySnapshotIs
<1> QED
  BY <1>1, <1>2 DEF LoadFits, Asks, Saves

LEMMA EventLoads ==
  ASSUME Orderly(log), NEW c, ClientFits(c), LoadFits(c), NEW s \in 1 .. Len(log)
  PROVE  LoadFits(ApplyEvent(c, s))
<1>1. c \in Clients /\ s \in 1 .. MaxEvents
  BY LogIs, FeedAssumption DEF ClientFits
<1>2. PICK d : d = ApplyEvent(c, s)
  OBVIOUS
<1>3. CASE s <= c.seq
  BY <1>1, <1>2, <1>3, ApplyEventIs
<1>4. CASE ~(s <= c.seq) /\ ~c.has
  <2>1. d = [c EXCEPT !.seq = s]
    BY <1>1, <1>2, <1>4, ApplyEventIs
  <2>2. /\ d.has = c.has /\ d.page = c.page /\ d.asked = c.asked /\ d.parked = c.parked
        /\ d.saving = c.saving
    BY <1>1, <2>1 DEF Clients
  <2> QED
    BY <1>2, <1>4, <2>2 DEF LoadFits, Asks, Parked, Marked
<1>5. CASE ~(s <= c.seq) /\ c.has
  <2>1. PICK e : e = Folded(c, s)
    OBVIOUS
  <2>2. d = TryMergePending(e)
    BY <1>1, <1>2, <1>5, <2>1, ApplyEventIs
  <2>3. Reduce(c.thread, s, log[s]) \in Threads
    BY <1>1, ReduceFits DEF Clients
  <2>4. /\ e \in Clients /\ Saves(e) /\ e.has = TRUE /\ e.page = c.page
        /\ e.asked.phase = c.asked.phase /\ e.asked.snapshot = c.asked.snapshot
        /\ e.parked.on = c.parked.on
        /\ Parked(e) => e.parked = c.parked
    BY <1>1, <2>1, <2>3, FoldedIs DEF SameWait
  <2>5. /\ d.has = e.has /\ d.seq = e.seq /\ d.asked = e.asked
        /\ Parked(d) => d = e /\ e.parked.snapshot.watermark > e.seq
        /\ d.page.loading =>
             \/ d = e /\ (e.parked.on => Parked(e))
             \/ Parked(e) /\ d.page = e.parked.snapshot.page
        /\ ~Parked(e) => d.saving = e.saving
        /\ Parked(e) /\ ~Parked(d) => Saves(d)
    BY <2>2, <2>4, TryMergePendingIs
  <2>6. ~d.saving.page.loading
    BY <2>4, <2>5 DEF Saves
  <2>7. Parked(e) => /\ Parked(c) /\ ~e.parked.snapshot.page.loading
                     /\ Marked(e.parked.snapshot)
    BY <2>4 DEF LoadFits, Parked
  <2>8. d.page.loading => d.asked.phase # "none" \/ Parked(d)
    BY <2>4, <2>5, <2>7 DEF LoadFits, Parked
  <2>9. Parked(d) => /\ d.seq < d.parked.snapshot.watermark
                     /\ ~d.parked.snapshot.page.loading /\ Marked(d.parked.snapshot)
    <3>1. SUFFICES ASSUME Parked(d)
                   PROVE  /\ e.seq < e.parked.snapshot.watermark
                          /\ ~e.parked.snapshot.page.loading /\ Marked(e.parked.snapshot)
      BY <2>5
    <3>2. e.seq \in Int /\ e.parked.snapshot.watermark \in Int
      BY <2>4, FeedAssumption DEF Clients, Parks, Snapshots
    <3> QED
      BY <2>5, <2>7, <3>1, <3>2
  <2>10. ~d.asked.snapshot.page.loading /\ Marked(d.asked.snapshot)
    BY <2>4, <2>5 DEF LoadFits, Marked
  <2> QED
    BY <1>2, <2>4, <2>5, <2>6, <2>8, <2>9, <2>10 DEF LoadFits
<1> QED
  BY <1>3, <1>4, <1>5

\* A step that leaves the log alone.
LEMMA LoadsStep ==
  ASSUME log' = log, LoadFits(cl'), ~cache'.page.loading,
         \A i \in 1 .. Len(wire') : wire'[i].kind = "snapshot" => ~wire'[i].snapshot.page.loading
  PROVE  LInv'
  BY DEF LInv, LoadFits, Asks, Parked, Marked, Told

LEMMA LoadsFeeding ==
  ASSUME LInv, log' = log, LoadFits(cl'), ~cache'.page.loading, wire' = wire \/ wire' = <<>>
  PROVE  LInv'
  BY LoadsStep, EmptySeq DEF LInv

\* The page that is asked for.
LEMMA LoadOlderTurnsLoads == TInv /\ LInv /\ LoadOlderTurns => LInv'
<1> SUFFICES ASSUME TInv, LInv, LoadOlderTurns PROVE LInv'
  OBVIOUS
<1>1. cl \in Clients
  BY DEF TInv, ClientFits
<1>2. PICK d : d = cl'
  OBVIOUS
<1>3. /\ d.has = cl.has /\ d.seq = cl.seq /\ SameCut(cl.page, d.page)
      /\ d.saving = cl.saving /\ d.parked = cl.parked /\ cl.page.windowed
      /\ d.asked.phase = "asked" /\ d.asked.snapshot = NoSnapshot
      /\ UNCHANGED <<log, wire, cache>>
  BY <1>1, <1>2, LoadOlderTurnsIs
<1>4. LoadFits(d)
  BY <1>3, NothingLoads DEF LInv, LoadFits, Asks, Parked, SameCut
<1> QED
  BY <1>2, <1>3, <1>4, LoadsFeeding DEF LInv

LEMMA AnswerOlderTurnsLoads == TInv /\ LInv /\ AnswerOlderTurns => LInv'
<1> SUFFICES ASSUME TInv, LInv, AnswerOlderTurns PROVE LInv'
  OBVIOUS
<1>1. cl \in Clients /\ Orderly(log) /\ cl.asked \in Fetches
  BY DEF TInv, ClientFits, ServerFits, Clients
<1>2. PICK d : d = cl'
  OBVIOUS
<1>3. /\ SameView(cl, d) /\ d.saving = cl.saving /\ d.parked = cl.parked
      /\ cl.asked.phase = "asked" /\ d.asked.phase = "answered"
      /\ d.asked.fresh = cl.asked.fresh
      /\ d.asked.snapshot = NoSnapshot \/ d.asked.snapshot = Page(cl.asked.cursor)
      /\ UNCHANGED <<log, wire, cache>>
  BY <1>1, <1>2, AnswerOlderTurnsIs
<1>4. cl.asked.cursor \in Nat
  BY <1>1, FeedAssumption DEF Fetches
<1>5. PICK s : s = Page(cl.asked.cursor)
  OBVIOUS
<1>6. ~s.page.loading /\ Marked(s)
  <2>1. ThreadAt(Len(log)) \in Threads /\ Len(log) \in Nat
    BY <1>1, LogIs
  <2>2. ~s.page.loading
    BY <1>1, <1>4, <1>5, <2>1, PageIs, TurnWindowIs
  <2>3. s.watermark = Watermark(Len(log))
    BY <1>1, <1>4, <1>5, PageIs
  <2>4. /\ Watermark(Len(log)) \in 0 .. Len(log)
        /\ Watermark(Len(log)) # 0 => Told(Watermark(Len(log)))
    BY <2>1, WatermarkIs
  <2> QED
    BY <2>1, <2>2, <2>3, <2>4 DEF Marked
<1>7. LoadFits(d)
  BY <1>3, <1>5, <1>6, NothingLoads DEF LInv, LoadFits, Asks, Parked, SameView
<1> QED
  BY <1>2, <1>3, <1>7, LoadsFeeding DEF LInv

LEMMA TakeOlderTurnsLoads == TInv /\ LInv /\ TakeOlderTurns => LInv'
<1> SUFFICES ASSUME TInv, LInv, TakeOlderTurns PROVE LInv'
  OBVIOUS
<1>1. cl \in Clients /\ LoadFits(cl)
  BY DEF TInv, ClientFits, LInv
<1>2. PICK d : d = cl'
  OBVIOUS
<1>3. /\ d.has = cl.has /\ d.seq = cl.seq /\ cl.asked.phase = "answered" /\ d.asked = NoFetch
      /\ UNCHANGED <<log, wire, cache>>
      /\ \/ /\ SameCut(cl.page, d.page) /\ (d.page.loading => ~cl.has /\ d.page = cl.page)
            /\ d.parked = cl.parked /\ d.saving = cl.saving
         \/ /\ cl.asked.fresh /\ cl.asked.snapshot.watermark > cl.seq
            /\ d.page = cl.page /\ d.saving = cl.saving
            /\ d.parked = [on |-> TRUE, fresh |-> TRUE, snapshot |-> cl.asked.snapshot]
         \/ /\ cl.has /\ cl.asked.fresh
            /\ d.page = cl.asked.snapshot.page /\ d.parked = cl.parked /\ Saves(d)
  BY <1>1, <1>2, TakeOlderTurnsIs
<1>4. LoadFits(d)
  <2>1. CASE /\ SameCut(cl.page, d.page) /\ (d.page.loading => ~cl.has /\ d.page = cl.page)
             /\ d.parked = cl.parked /\ d.saving = cl.saving
    BY <1>1, <1>3, <2>1, NothingLoads DEF LoadFits, Asks, Parked, SameCut
  <2>2. CASE /\ cl.asked.fresh /\ cl.asked.snapshot.watermark > cl.seq
             /\ d.page = cl.page /\ d.saving = cl.saving
             /\ d.parked = [on |-> TRUE, fresh |-> TRUE, snapshot |-> cl.asked.snapshot]
    <3>1. cl.has
      BY <1>1, <1>3, <2>2 DEF LoadFits, Asks
    <3>2. /\ Parked(d) /\ d.parked.snapshot = cl.asked.snapshot
          /\ cl.seq < cl.asked.snapshot.watermark
      BY <1>1, <2>2, FeedAssumption DEF Parked, Clients, Fetches, Snapshots
    <3> QED
      BY <1>1, <1>3, <2>2, <3>1, <3>2, NothingLoads DEF LoadFits, Asks
  <2>3. CASE /\ cl.has /\ cl.asked.fresh
             /\ d.page = cl.asked.snapshot.page /\ d.parked = cl.parked /\ Saves(d)
    BY <1>1, <1>3, <2>3, NothingLoads DEF LoadFits, Asks, Parked, Saves
  <2> QED
    BY <1>3, <2>1, <2>2, <2>3
<1> QED
  BY <1>2, <1>3, <1>4, LoadsFeeding DEF LInv

LEMMA SaveLoads == TInv /\ LInv /\ Save => LInv'
<1> SUFFICES ASSUME TInv, LInv, Save PROVE LInv'
  OBVIOUS
<1>1. cl \in Clients /\ LoadFits(cl)
  BY DEF TInv, ClientFits, LInv
<1>2. PICK d : d = cl'
  OBVIOUS
<1>3. /\ SameView(cl, d) /\ SameWait(cl, d) /\ d.saving = NoSnapshot
      /\ cache' \in {cache, cl.saving} /\ UNCHANGED <<log, wire>>
  BY <1>1, <1>2, SaveIs
<1>4. LoadFits(d)
  BY <1>1, <1>3, NothingLoads DEF LoadFits, SameView, SameWait, Asks, Parked
<1>5. ~cache'.page.loading
  BY <1>1, <1>3 DEF LInv, LoadFits
<1> QED
  BY <1>2, <1>3, <1>4, <1>5, LoadsFeeding

LEMMA CommitLoads == TInv /\ LInv /\ Commit => LInv'
<1> SUFFICES ASSUME TInv, LInv, Commit PROVE LInv'
  OBVIOUS
<1>1. /\ Len(log') = Len(log) + 1 /\ \A i \in 1 .. Len(log) : log'[i] = log[i]
      /\ UNCHANGED <<wire, cl, cache>>
  BY CommitIs DEF TInv, ServerFits
<1>2. Len(log) \in Nat
  BY LogIs DEF TInv, ServerFits
<1>3. 1 .. Len(log) \subseteq 1 .. Len(log')
  BY <1>1, <1>2
<1>4. ASSUME NEW s, Marked(s) PROVE s.watermark # 0 => s.watermark \in 1 .. Len(log')
                                                       /\ log'[s.watermark].kind \in Detail
  BY <1>1, <1>3, <1>4 DEF Marked, Told
<1> QED
  BY <1>1, <1>4 DEF LInv, LoadFits, Asks, Parked, Marked, Told

LEMMA ServerLoads == TInv /\ CInv /\ LInv /\ ServerStep => LInv'
<1> SUFFICES ASSUME TInv, CInv, LInv, ServerStep PROVE LInv'
  OBVIOUS
<1>1. /\ Orderly(log) /\ WireFits(wire) /\ conn.server \in Servers /\ cl \in Clients
      /\ Len(log) \in Nat
  BY LogIs DEF TInv, ServerFits, Conns, ClientFits
<1>2. CASE Publish
  <2>1. PICK x : x = EventItem(published + 1)
    OBVIOUS
  <2>2. /\ published + 1 \in 1 .. Len(log) /\ UNCHANGED <<log, cl, cache>>
        /\ wire' = wire \/ wire' = Append(wire, x)
    BY <1>2, <2>1, PublishIs
  <2>3. x \in Items /\ Known(x) /\ x.kind = "event"
    BY <1>1, <2>1, <2>2, EventItemIs
  <2>4. CASE wire' = wire
    BY <2>2, <2>4, LoadsFeeding DEF LInv
  <2>5. CASE wire' = Append(wire, x)
    <3>1. Len(wire) \in Nat
      BY <1>1, WireIs
    <3>2. /\ Len(wire') = Len(wire) + 1 /\ \A i \in 1 .. Len(wire) : wire'[i] = wire[i]
          /\ wire'[Len(wire) + 1] = x
      BY <1>1, <2>3, <2>5, WireAppend
    <3>3. ASSUME NEW i \in 1 .. Len(wire'), wire'[i].kind = "snapshot"
          PROVE  ~wire'[i].snapshot.page.loading
      <4>1. i \in 1 .. Len(wire)
        BY <2>3, <3>1, <3>2, <3>3
      <4> QED
        BY <3>2, <3>3, <4>1 DEF LInv
    <3> QED
      BY <2>2, <3>3, LoadsStep DEF LInv
  <2> QED
    BY <2>2, <2>4, <2>5
<1>3. CASE Attach
  BY <1>3, LoadsFeeding DEF Attach, LInv
<1>4. CASE ReadHead
  <2>1. sub.phase = "open" /\ UNCHANGED <<log, published, conn, cache, used>>
    BY <1>4 DEF ReadHead
  <2>2. wire = <<>>
    BY <2>1 DEF CInv, Phases
  <2>3. CASE UNCHANGED <<wire, cl>>
    BY <2>1, <2>3, LoadsFeeding DEF LInv
  <2>4. CASE /\ GoLive(<<[kind |-> "snapshot", snapshot |-> FirstPage(conn.server)]>>, Len(log))
             /\ UNCHANGED cl
    <3>1. PICK s : s = FirstPage(conn.server)
      OBVIOUS
    <3>2. PICK x : x = [kind |-> "snapshot", snapshot |-> s]
      OBVIOUS
    <3>3. SnapshotFits(s) /\ ~s.page.loading
      BY <1>1, <3>1, FirstPageIs
    <3>4. x \in Items /\ Known(x) /\ x.snapshot = s
      BY <3>2, <3>3 DEF SnapshotFits, SnapshotItems, Items, Known
    <3>5. PICK items : items = <<x>>
      OBVIOUS
    <3>6. GoLive(items, Len(log))
      BY <2>4, <3>1, <3>2, <3>5
    <3>7. WireFits(items) /\ Len(items) = 1 /\ items[1] = x
      BY <3>4, <3>5, WireOne
    <3>8. ASSUME NEW i \in 1 .. Len(wire'), wire'[i].kind = "snapshot"
          PROVE  ~wire'[i].snapshot.page.loading
      <4>1. i \in 1 .. Len(items) /\ wire'[i] = items[i]
        BY <2>2, <3>6, <3>7, <3>8, SnapshotOfLive
      <4>2. i = 1
        BY <3>7, <4>1
      <4> QED
        BY <3>3, <3>4, <3>7, <4>1, <4>2
    <3> QED
      BY <2>1, <2>4, <3>8, LoadsStep DEF LInv
  <2>5. CASE cl' = SetStreamError(cl) /\ UNCHANGED wire
    <3>1. PICK d : d = SetStreamError(cl)
      OBVIOUS
    <3>2. SameView(cl, d) /\ SameWait(cl, d) /\ d.saving = cl.saving
      BY <1>1, <3>1, WordsChange
    <3>3. LoadFits(d)
      BY <3>2, WordsLoad DEF LInv
    <3> QED
      BY <2>1, <2>5, <3>1, <3>3, LoadsFeeding DEF LInv
  <2> QED
    BY <1>4, <2>3, <2>4, <2>5 DEF ReadHead
<1>5. CASE Replay
  <2>1. PICK items :
           /\ WireFits(items) /\ GoLive(items, sub.head)
           /\ UNCHANGED <<log, published, conn, cl, cache, used>>
           /\ \A i \in 1 .. Len(items) : items[i].kind = "event"
    BY <1>5, ReplayIs
  <2>2. wire = <<>>
    BY <1>5 DEF Replay, CInv, Phases
  <2>3. ASSUME NEW i \in 1 .. Len(wire'), wire'[i].kind = "snapshot" PROVE FALSE
    <3>1. i \in 1 .. Len(items) /\ wire'[i] = items[i]
      BY <2>1, <2>2, <2>3, SnapshotOfLive
    <3> QED
      BY <2>1, <2>3, <3>1
  <2> QED
    BY <2>1, <2>3, LoadsStep DEF LInv
<1> QED
  BY <1>2, <1>3, <1>4, <1>5 DEF ServerStep

\* A view that begins, and then only says that it is ready, disconnected or idle.
LEMMA BegunLoads ==
  ASSUME NEW c \in Clients, LoadFits(c), NEW v \in Servers
  PROVE  /\ LoadFits(SetReady(Begin(c, v))) /\ LoadFits(SetSynchronizing(c))
         /\ LoadFits(SetDisconnected(c))
         /\ LoadFits([SetSynchronizing(c) EXCEPT !.phase = "idle"])
         /\ LoadFits([SetDisconnected(c) EXCEPT !.phase = "idle"])
<1>1. ASSUME NEW b \in Clients, LoadFits(b)
      PROVE  /\ LoadFits(SetReady(b)) /\ LoadFits(SetSynchronizing(b))
             /\ LoadFits(SetDisconnected(b)) /\ LoadFits([b EXCEPT !.phase = "idle"])
  <2>1. PICK d : d = SetReady(b)
    OBVIOUS
  <2>2. PICK e : e = SetSynchronizing(b)
    OBVIOUS
  <2>3. PICK f : f = SetDisconnected(b)
    OBVIOUS
  <2>4. PICK g : g = [b EXCEPT !.phase = "idle"]
    OBVIOUS
  <2>5. /\ SameView(b, d) /\ SameWait(b, d) /\ d.saving = b.saving
        /\ SameView(b, e) /\ SameWait(b, e) /\ e.saving = b.saving
        /\ SameView(b, f) /\ SameWait(b, f) /\ f.saving = b.saving
    BY <2>1, <2>2, <2>3, WordsChange
  <2>6. SameView(b, g) /\ SameWait(b, g) /\ g.saving = b.saving
    BY <2>4 DEF Clients, SameView, SameWait
  <2>7. LoadFits(d) /\ LoadFits(e) /\ LoadFits(f) /\ LoadFits(g)
    BY <1>1, <2>5, <2>6, WordsLoad
  <2> QED
    BY <2>1, <2>2, <2>3, <2>4, <2>7
<1>2. /\ Begin(c, v) \in Clients /\ LoadFits(Begin(c, v))
      /\ SetSynchronizing(c) \in Clients /\ SetDisconnected(c) \in Clients
  BY BeginIs, BeginLoads, WordsChange
<1> QED
  BY <1>1, <1>2

LEMMA ConnectionLoads ==
  TInv /\ LInv /\ (Connect \/ Disconnect \/ Reconnect \/ Establish) => LInv'
<1> SUFFICES ASSUME TInv, LInv, Connect \/ Disconnect \/ Reconnect \/ Establish PROVE LInv'
  OBVIOUS
<1>1. cl \in Clients /\ conn.server \in Servers /\ LoadFits(cl)
  BY DEF TInv, ServerFits, ClientFits, Conns, LInv
<1>2. log' = log /\ cache' = cache /\ (wire' = wire \/ wire' = <<>>)
  BY DEF Connect, Disconnect, Reconnect, Establish
<1>3. \/ cl' = SetSynchronizing(cl)
      \/ cl' = [SetDisconnected(cl) EXCEPT !.phase = "idle"]
      \/ cl' = [SetSynchronizing(cl) EXCEPT !.phase = "idle"]
      \/ cl' = SetReady(Begin(cl, conn.server))
  BY DEF Connect, Disconnect, Reconnect, Establish
<1>4. LoadFits(cl')
  BY <1>1, <1>3, BegunLoads
<1> QED
  BY <1>2, <1>4, LoadsFeeding DEF LInv

LEMMA FeedingLoads == TInv /\ LInv /\ (Subscribe \/ Resubscribe \/ Reopen) => LInv'
<1> SUFFICES ASSUME TInv, LInv, Subscribe \/ Resubscribe \/ Reopen PROVE LInv'
  OBVIOUS
<1>1. cl \in Clients /\ conn.server \in Servers /\ LoadFits(cl) /\ Orderly(log)
  BY DEF TInv, ServerFits, ClientFits, Conns, LInv
<1>2. CASE Subscribe
  <2>1. UNCHANGED <<log, wire, cache>>
    BY <1>2, SubscribeIs
  <2>2. PICK l \in Clients :
              /\ cl' = Ask(l, conn.server)
              /\ l = cl \/ l = ApplySnapshot(cl, FirstPage(conn.server))
    BY <1>2, SubscribeIs
  <2>3. LoadFits(l)
    <3>1. PICK s : s = FirstPage(conn.server)
      OBVIOUS
    <3>2. s \in Snapshots /\ ~s.page.loading
      BY <1>1, <3>1, FirstPageIs DEF SnapshotFits
    <3>3. LoadFits(ApplySnapshot(cl, s))
      BY <1>1, <3>2, SnapshotLoads
    <3> QED
      BY <1>1, <2>2, <3>1, <3>3
  <2>4. PICK d : d = Ask(l, conn.server)
    OBVIOUS
  <2>5. LoadFits(d)
    BY <1>1, <2>3, <2>4, AskIs, WordsLoad
  <2> QED
    BY <2>1, <2>2, <2>4, <2>5, LoadsFeeding DEF LInv
<1>3. CASE Resubscribe
  <2>1. cl' = Begin(cl, conn.server) /\ wire' = <<>> /\ log' = log /\ cache' = cache
    BY <1>3, ResubscribeIs
  <2>2. LoadFits(cl')
    BY <1>1, <2>1, BeginLoads
  <2> QED
    BY <2>1, <2>2, LoadsFeeding DEF LInv
<1>4. CASE Reopen
  <2>1. PICK s : s = cache'
    OBVIOUS
  <2>2. /\ wire' = <<>> /\ log' = log /\ s \in Snapshots
        /\ s = cache \/ ~s.page.loading
    BY <1>4, <2>1, ReopenIs DEF SnapshotFits
  <2>3. ~s.page.loading
    BY <2>2 DEF LInv
  <2>4. PICK f : f = Fresh(s)
    OBVIOUS
  <2>5. f \in Clients /\ LoadFits(f)
    BY <2>2, <2>3, <2>4, FreshIs, FreshLoads
  <2>6. \/ cl' = SetReady(Begin(f, conn.server)) \/ cl' = SetDisconnected(f) \/ cl' = f
    BY <1>4, <2>1, <2>4, ReopenIs
  <2>7. LoadFits(cl')
    BY <1>1, <2>5, <2>6, BegunLoads
  <2> QED
    BY <2>1, <2>2, <2>3, <2>7, LoadsFeeding
<1> QED
  BY <1>2, <1>3, <1>4

LEMMA DeliverLoads == TInv /\ LInv /\ Deliver => LInv'
<1> SUFFICES ASSUME TInv, LInv, Deliver PROVE LInv'
  OBVIOUS
<1>1. PICK x : x = wire[1]
  OBVIOUS
<1>2. /\ wire # <<>> /\ x \in Items /\ Known(x)
      /\ cl' = ApplyItem(cl, x) /\ wire' = Tail(wire)
      /\ UNCHANGED <<log, cache>>
  BY <1>1, DeliverIs
<1>3. /\ Orderly(log) /\ ClientFits(cl) /\ cl \in Clients /\ LoadFits(cl) /\ WireFits(wire)
  BY DEF TInv, ServerFits, ClientFits, LInv
<1>4. Len(wire) \in Nat \ {0}
  BY <1>2, <1>3, WireIs
<1>5. LoadFits(cl')
  <2>1. CASE x.kind = "event" /\ x.seq \in 1 .. Len(log)
    BY <1>2, <1>3, <2>1, EventLoads, ApplyItemFits
  <2>2. CASE x.kind = "snapshot" /\ SnapshotFits(x.snapshot)
    <3>1. ~x.snapshot.page.loading
      BY <1>1, <1>4, <2>2 DEF LInv
    <3> QED
      BY <1>2, <1>3, <2>2, <3>1, SnapshotLoads, ApplyItemFits DEF SnapshotFits
  <2>3. CASE x = Marker
    <3>1. PICK d : d = ApplyMarker(cl)
      OBVIOUS
    <3>2. LoadFits(d)
      BY <1>3, <3>1, ApplyMarkerIs, WordsLoad
    <3> QED
      BY <1>2, <1>3, <2>3, <3>1, <3>2, MarkerIs, ApplyItemFits
  <2> QED
    BY <1>2, <1>3, <2>1, <2>2, <2>3, ItemIs
<1>6. ASSUME NEW i \in 1 .. Len(wire'), wire'[i].kind = "snapshot"
      PROVE  ~wire'[i].snapshot.page.loading
  <2>1. i + 1 \in 1 .. Len(wire) /\ wire'[i] = wire[i + 1]
    BY <1>2, <1>3, <1>4, WireTail
  <2> QED
    BY <1>6, <2>1 DEF LInv
<1> QED
  BY <1>2, <1>5, <1>6, LoadsStep DEF LInv

LEMMA InitLoads == Init => LInv
<1> SUFFICES ASSUME Init PROVE LInv
  OBVIOUS
<1>1. NoSnapshot \in Snapshots /\ conn.server \in Servers
  BY NoSnapshotType DEF Init
<1>2. PICK d : d = Fresh(NoSnapshot)
  OBVIOUS
<1>3. d \in Clients /\ LoadFits(d)
  BY <1>1, <1>2, NothingLoads, FreshIs, FreshLoads
<1>4. cl = SetDisconnected(d) /\ cache = NoSnapshot /\ wire = <<>>
  BY <1>2 DEF Init
<1>5. LoadFits(cl)
  BY <1>1, <1>3, <1>4, BegunLoads
<1> QED
  BY <1>4, <1>5, NothingLoads, EmptySeq DEF LInv

LEMMA StepLoads == TInv /\ CInv /\ LInv /\ [Next]_vars => LInv'
<1> SUFFICES ASSUME TInv, CInv, LInv, [Next]_vars PROVE LInv'
  OBVIOUS
<1>1. CASE UNCHANGED vars
  BY <1>1, LoadsFeeding DEF vars, LInv
<1> QED
  BY <1>1, CommitLoads, ServerLoads, ConnectionLoads, FeedingLoads, DeliverLoads,
     LoadOlderTurnsLoads, AnswerOlderTurnsLoads, TakeOlderTurnsLoads, SaveLoads
     DEF Next, ClientStep

\* A live subscription with nothing on the wire, of a log that is published to its end.
Quiet == sub.phase = "live" /\ wire = <<>> /\ published = Len(log)
QuietIsCaughtUp ==
  Quiet => /\ cl.has /\ cl.status = "live"
           /\ unheard = {} => /\ cl.seq >= Watermark(Len(log))
                              /\ cl.page.loading => cl.asked.phase # "none"

LEMMA QuietMeans == TInv /\ Gapless /\ SInv /\ LInv => QuietIsCaughtUp
<1> SUFFICES ASSUME TInv, Gapless, SInv, LInv, Quiet
             PROVE  /\ cl.has /\ cl.status = "live"
                    /\ unheard = {} => /\ cl.seq >= Watermark(Len(log))
                                       /\ cl.page.loading => cl.asked.phase # "none"
  BY DEF QuietIsCaughtUp
<1>1. Len(wire) = 0 /\ Orderly(log) /\ cl \in Clients
  BY EmptySeq DEF Quiet, TInv, ServerFits, ClientFits
<1>2. /\ Len(log) \in Nat /\ cl.seq \in Nat
      /\ Watermark(Len(log)) \in 0 .. Len(log)
      /\ Watermark(Len(log)) # 0 => Told(Watermark(Len(log)))
      /\ \A d \in 1 .. Len(log) : Told(d) => d <= Watermark(Len(log))
  BY <1>1, LogIs, WatermarkIs, FeedAssumption DEF Clients
<1>3. cl.has /\ cl.status = "live"
  BY <1>1 DEF Quiet, SInv, Sends
<1> SUFFICES ASSUME unheard = {}
             PROVE  /\ cl.seq >= Watermark(Len(log))
                    /\ cl.page.loading => cl.asked.phase # "none"
  BY <1>3
<1>4. cl.seq >= Watermark(Len(log))
  <2>1. CASE Watermark(Len(log)) = 0
    BY <1>2, <2>1
  <2>2. CASE Watermark(Len(log)) # 0
    <3>1. CoveredBy(wire, cl.seq, Watermark(Len(log)), Len(wire) + 1)
      BY <1>2, <2>2 DEF Quiet, Gapless, GInv, AllSent
    <3> QED
      BY <1>1, <1>2, <3>1 DEF CoveredBy
  <2> QED
    BY <2>1, <2>2
<1>5. ~Parked(cl)
  <2>1. SUFFICES ASSUME Parked(cl) PROVE FALSE
    OBVIOUS
  <2>2. PICK m : m = cl.parked.snapshot.watermark
    OBVIOUS
  <2>3. cl.seq < m /\ (m # 0 => m \in 1 .. Len(log) /\ Told(m))
    BY <2>1, <2>2 DEF LInv, LoadFits, Marked
  <2>4. m # 0
    BY <1>2, <2>3
  <2> QED
    BY <1>2, <1>4, <2>3, <2>4
<1>6. cl.page.loading => cl.asked.phase # "none"
  BY <1>5 DEF LInv, LoadFits
<1> QED
  BY <1>4, <1>6

\* A subscription that has gone quiet has a view that has the thread and says it is live.
\* If its live fiber listened to all that was published, it has nothing left to wait for:
\* it shows every event the subscription tells, and no older page is loading but one that is
\* asked for.
THEOREM QuietCaughtUp == Spec => []QuietIsCaughtUp
<1>1. Init => Gapless
  BY InitHeard
<1> QED
  BY <1>1, InitFits, StepFits, InitCaught, StepCaught, StepGapless, InitServed, StepServed,
     InitLoads, StepLoads, QuietMeans, PTL DEF Spec
=============================================================================
