---------------------------- MODULE EngineProofs ----------------------------
(***************************************************************************)
(* Proofs about the node engine, for every Dag, every calendar and every   *)
(* order of transaction ids: whatever suffixes and rebuilds led to it, a   *)
(* running node stands where the replay of its order stands.  What the     *)
(* battery reads is then a fact about replays: page by page, the ledger,   *)
(* the recomputed emission and the trackers keep the same books.           *)
(***************************************************************************)
EXTENDS Engine, LedgerProofs, SequenceTheorems

\* The lemmas about the ordered blocks.
DP == INSTANCE DagProofs

\* The engine's store is the ordering layer the proofs of the Dag are about.
LEMMA SameRules ==
    /\ DP!DagAssumption
    /\ Dag!Init => DP!Init
    /\ DP!Held = Held
    /\ \A b, now : Dag!Insert(b, now) <=> DP!Insert(b, now)
    /\ \A t : Dag!IsBestTip(t) <=> DP!IsBestTip(t)
    /\ \A b : Dag!View(b) = DP!View(b)
    /\ \A b : Dag!ConsensusOrder(b) = DP!ConsensusOrder(b)
    /\ \A S : Dag!PastOf(S) = DP!PastOf(S)
    /\ \A S : DP!Cardinality(S) = Cardinality(S) /\ Dag!Cardinality(S) = Cardinality(S)
<1>1. DP!DagAssumption
  BY EngineAssumption DEF EngineAssumption, Dag!DagAssumption, DP!DagAssumption, Dag!Zero, DP!Zero
<1>2. Dag!Init => DP!Init
  BY Zenon DEF Dag!Init, DP!Init, Dag!GenesisNode, DP!GenesisNode, Dag!Zero, DP!Zero
<1>3. DP!Held = Held
  BY Zenon DEF Held, DP!Held
<1>4. ASSUME NEW b, NEW now PROVE Dag!Insert(b, now) <=> DP!Insert(b, now)
  BY Zenon
     DEF Dag!Accepts, DP!Accepts, Dag!AnnouncesHeight, DP!AnnouncesHeight,
         Dag!NotBehindParents, DP!NotBehindParents, Dag!NotPastTheFuture, DP!NotPastTheFuture,
         Dag!Insert, DP!Insert, Dag!Held, DP!Held, Dag!IsSelected, DP!IsSelected,
         Dag!Precedes, DP!Precedes, Dag!Candidates, DP!Candidates, Dag!PastOf, DP!PastOf,
         Dag!IsGreedy, DP!IsGreedy, Dag!Inherited, DP!Inherited, Dag!Anticone, DP!Anticone,
         Dag!Linked, DP!Linked, Dag!NewNode, DP!NewNode, Dag!Cardinality, DP!Cardinality
<1>5. ASSUME NEW t PROVE Dag!IsBestTip(t) <=> DP!IsBestTip(t)
  BY Zenon DEF Dag!IsBestTip, DP!IsBestTip, Dag!Precedes, DP!Precedes
<1>6. ASSUME NEW b PROVE Dag!View(b) = DP!View(b)
  BY Zenon DEF Dag!View, DP!View
<1>7. ASSUME NEW b PROVE Dag!ConsensusOrder(b) = DP!ConsensusOrder(b)
  BY Zenon DEF Dag!ConsensusOrder, DP!ConsensusOrder, Dag!Fresh, DP!Fresh, Dag!View, DP!View,
               Dag!Sorted, DP!Sorted, Dag!ByHeightThenId, DP!ByHeightThenId, Dag!Held, DP!Held,
               Dag!Zero, DP!Zero, Dag!Cardinality, DP!Cardinality
<1>8. ASSUME NEW S PROVE Dag!PastOf(S) = DP!PastOf(S)
  BY Zenon DEF Dag!PastOf, DP!PastOf
<1>9. ASSUME NEW S PROVE DP!Cardinality(S) = Cardinality(S) /\ Dag!Cardinality(S) = Cardinality(S)
  BY Zenon DEF DP!Cardinality, Dag!Cardinality, Cardinality
<1> QED BY <1>1, <1>2, <1>3, <1>4, <1>5, <1>6, <1>7, <1>8, <1>9

----------------------------------------------------------------------------
(* Runs of pages.                                                          *)

\* A page that is taken.
Taken(r, page) ==
    [ledger |-> Commit(r.ledger, page.txs),
     trackers |-> Followed(r.trackers, r.ledger.applied, page.txs),
     checks |-> SlotApplied(r.checks, r.ledger.applied),
     frontier |-> page.id, ok |-> TRUE]

Stopped(r) == [r EXCEPT !.ok = FALSE]

\* g tells what a fold has after each page.
Folds(pages, n, r, g) ==
    /\ g[0] = r /\ Turn(pages, r) = g[n]
    /\ \A i \in 1 .. n : g[i] = Turned(g[i - 1], pages[i])

\* A fold over pages goes page by page.
LEMMA TurnSteps ==
  ASSUME NEW n \in Nat, NEW pages, DOMAIN pages = 1 .. n, NEW r
  PROVE  \E g : Folds(pages, n, r, g)
<1> DEFINE it == CHOOSE it : it = [T \in SUBSET (DOMAIN pages) |->
                    IF T = {} THEN r ELSE Turned(it[T \ {Max(T)}], pages[Max(T)])]
           Loops(m, f) == f = [T \in SUBSET (1 .. m) |->
                    IF T = {} THEN r ELSE Turned(f[T \ {Max(T)}], pages[Max(T)])]
           P == {m \in Nat : m <= n => \E f : Loops(m, f)}
<1>1. Turn(pages, r) = it[DOMAIN pages]
  BY Zenon DEF Turn, FoldLeft, MapThenFoldSet
<1>2. 0 \in P
  <2> DEFINE f == [T \in SUBSET (1 .. 0) |-> r]
  <2>1. \A T \in SUBSET (1 .. 0) : T = {}
    OBVIOUS
  <2>2. Loops(0, f)
    BY <2>1
  <2> QED BY <2>2
<1>3. ASSUME NEW m \in Nat, m \in P PROVE m + 1 \in P
  <2> HIDE DEF Loops
  <2> SUFFICES ASSUME m + 1 <= n PROVE \E f : Loops(m + 1, f)
    OBVIOUS
  <2>1. PICK f : Loops(m, f)
    BY <1>3
  <2> DEFINE S == SUBSET (1 .. m + 1)
             h == [T \in S |-> IF m + 1 \in T THEN Turned(f[T \ {m + 1}], pages[m + 1]) ELSE f[T]]
  <2>2. \A T \in SUBSET (1 .. m) :
          f[T] = IF T = {} THEN r ELSE Turned(f[T \ {Max(T)}], pages[Max(T)])
    BY <2>1 DEF Loops
  <2>3. ASSUME NEW T \in S
        PROVE  h[T] = IF T = {} THEN r ELSE Turned(h[T \ {Max(T)}], pages[Max(T)])
    <3>1. CASE T = {}
      BY <2>2, <3>1
    <3>2. CASE T # {} /\ m + 1 \in T
      <4>1. Max(T) = m + 1
        <5>1. m + 1 \in Nat /\ T \in SUBSET (1 .. m + 1)
          OBVIOUS
        <5>2. Max(T) \in T /\ \A y \in T : Max(T) >= y
          BY <3>2, <5>1, MaxIs
        <5>3. Max(T) \in 1 .. m + 1
          BY <5>2
        <5> QED BY <3>2, <5>2, <5>3
      <4>2. T \ {m + 1} \in S /\ m + 1 \notin T \ {m + 1}
        OBVIOUS
      <4>3. h[T \ {m + 1}] = f[T \ {m + 1}]
        BY <4>2
      <4> QED BY <3>2, <4>1, <4>3
    <3>3. CASE T # {} /\ m + 1 \notin T
      <4>1. T \in SUBSET (1 .. m)
        BY <3>3
      <4>2. Max(T) \in T
        BY <3>3, <4>1, MaxIs
      <4>3. T \ {Max(T)} \in S /\ m + 1 \notin T \ {Max(T)}
        BY <3>3
      <4>4. h[T \ {Max(T)}] = f[T \ {Max(T)}] /\ h[T] = f[T]
        BY <3>3, <4>3
      <4> QED BY <2>2, <3>3, <4>1, <4>4
    <3> QED BY <3>1, <3>2, <3>3
  <2>4. h = [T \in S |-> IF T = {} THEN r ELSE Turned(h[T \ {Max(T)}], pages[Max(T)])]
    <3>1. h = [T \in S |-> h[T]]
      OBVIOUS
    <3> HIDE DEF h, S
    <3> QED BY <2>3, <3>1
  <2>5. Loops(m + 1, h)
    BY <2>4 DEF Loops
  <2> QED BY <2>5
<1>4. n \in P
  <2> HIDE DEF P
  <2>1. Nat \subseteq P
    BY <1>2, <1>3, OverNat
  <2> QED BY <2>1
<1>5. \E f : f = [T \in SUBSET (DOMAIN pages) |->
                    IF T = {} THEN r ELSE Turned(f[T \ {Max(T)}], pages[Max(T)])]
  <2>1. \E f : Loops(n, f)
    <3> HIDE DEF Loops
    <3> QED BY <1>4
  <2> QED BY <2>1, Zenon
<1>6. it = [T \in SUBSET (DOMAIN pages) |->
              IF T = {} THEN r ELSE Turned(it[T \ {Max(T)}], pages[Max(T)])]
  <2> HIDE DEF P, Loops
  <2> QED BY <1>5, Zenon
<1> HIDE DEF it, P, Loops
<1>7. \A T \in SUBSET (1 .. n) :
        it[T] = IF T = {} THEN r ELSE Turned(it[T \ {Max(T)}], pages[Max(T)])
  BY <1>6
<1> DEFINE g == [i \in 0 .. n |-> it[1 .. i]]
<1>8. g[0] = r
  <2>1. 1 .. 0 = {} /\ 0 \in 0 .. n /\ {} \in SUBSET (1 .. n)
    OBVIOUS
  <2>2. it[{}] = r
    BY <1>7, <2>1
  <2> QED BY <2>1, <2>2
<1>9. ASSUME NEW i \in 1 .. n PROVE g[i] = Turned(g[i - 1], pages[i])
  <2> DEFINE T == 1 .. i
  <2>1. T \in SUBSET (1 .. n) /\ T # {} /\ i \in T
    OBVIOUS
  <2>2. Max(T) = i
    <3>1. Max(T) \in T /\ \A y \in T : Max(T) >= y
      <4> HIDE DEF T
      <4> QED BY <2>1, MaxIs
    <3> QED BY <2>1, <3>1
  <2>3. T \ {i} = 1 .. i - 1 /\ i - 1 \in 0 .. n /\ i \in 0 .. n
    OBVIOUS
  <2>4. it[T] = Turned(it[T \ {i}], pages[i])
    <3> HIDE DEF T
    <3> QED BY <1>7, <2>1, <2>2
  <2> QED BY <2>3, <2>4
<1>10. Turn(pages, r) = g[n]
  BY <1>1
<1> HIDE DEF g
<1> QED BY <1>8, <1>9, <1>10 DEF Folds

\* What the engine derives, while nothing was refused.
IsState(r) ==
    r = [ledger |-> r.ledger, trackers |-> r.trackers, checks |-> r.checks,
         frontier |-> r.frontier, ok |-> TRUE]

\* g tells what is derived after each of the first n pages, all of them taken.
OkRun(pages, n, r, g) ==
    /\ g[0] = r
    /\ \A i \in 1 .. n : TakesPage(g[i - 1], pages[i]) /\ g[i] = Taken(g[i - 1], pages[i])

\* Every page took a slot and moved the frontier.
Advances(pages, n, r, g) ==
    /\ \A i \in 0 .. n : IsState(g[i]) /\ g[i].ledger.applied = r.ledger.applied + i
    /\ \A i \in 1 .. n : g[i].frontier = pages[i].id

\* A run turns one page at each step.
LEMMA RunStates ==
  ASSUME NEW pages, NEW n \in Nat, NEW r, NEW g, OkRun(pages, n, r, g),
         IsState(r), r.ledger.applied \in Nat
  PROVE  Advances(pages, n, r, g)
<1> DEFINE P == {i \in Nat : i <= n => IsState(g[i]) /\ g[i].ledger.applied = r.ledger.applied + i}
<1>1. ASSUME NEW i \in 1 .. n PROVE IsState(g[i]) /\ g[i].frontier = pages[i].id
  <2>1. g[i] = Taken(g[i - 1], pages[i])
    BY DEF OkRun
  <2>2. PICK l, trs, c, f : /\ g[i] = [ledger |-> l, trackers |-> trs, checks |-> c,
                                       frontier |-> f, ok |-> TRUE]
                            /\ f = pages[i].id
    BY <2>1, Zenon DEF Taken
  <2> QED BY <2>2 DEF IsState
<1>2. 0 \in P
  BY DEF OkRun
<1>3. ASSUME NEW i \in Nat, i \in P PROVE i + 1 \in P
  <2> SUFFICES ASSUME i + 1 <= n PROVE g[i + 1].ledger.applied = r.ledger.applied + (i + 1)
    BY <1>1
  <2>1. i + 1 \in 1 .. n /\ (i + 1) - 1 = i
    OBVIOUS
  <2>2. g[i + 1] = Taken(g[i], pages[i + 1])
    BY <2>1 DEF OkRun
  <2>3. g[i + 1].ledger.applied = g[i].ledger.applied + 1
    BY <2>2 DEF Taken, Commit
  <2>4. g[i].ledger.applied = r.ledger.applied + i
    BY <1>3
  <2> QED BY <2>3, <2>4
<1>4. Nat \subseteq P
  <2> HIDE DEF P
  <2> QED BY <1>2, <1>3, OverNat
<1>5. \A i \in 0 .. n : IsState(g[i]) /\ g[i].ledger.applied = r.ledger.applied + i
  BY <1>4
<1> QED BY <1>1, <1>5 DEF Advances

\* A fold takes pages until one is refused, and then stands still.
LEMMA RunEnds ==
  ASSUME NEW n \in Nat, NEW pages, DOMAIN pages = 1 .. n, NEW r,
         IsState(r), r.ledger.applied \in Nat
  PROVE  \E k \in 0 .. n : \E g :
           /\ OkRun(pages, k, r, g)
           /\ Turn(pages, r) = IF k = n THEN g[k] ELSE Stopped(g[k])
<1>0. PICK g : Folds(pages, n, r, g)
  BY TurnSteps
<1>1. /\ g[0] = r /\ Turn(pages, r) = g[n]
      /\ \A i \in 1 .. n : g[i] = Turned(g[i - 1], pages[i])
  BY <1>0 DEF Folds
<1> DEFINE Ends(m) == \E k \in 0 .. m : /\ OkRun(pages, k, r, g)
                                       /\ g[m] = IF k = m THEN g[k] ELSE Stopped(g[k])
           P == {m \in Nat : m <= n => Ends(m)}
<1>2. 0 \in P
  BY <1>1 DEF OkRun
<1>3. ASSUME NEW m \in Nat, m \in P, m + 1 <= n PROVE Ends(m + 1)
  <2>1. PICK k \in 0 .. m : /\ OkRun(pages, k, r, g)
                            /\ g[m] = IF k = m THEN g[k] ELSE Stopped(g[k])
    BY <1>3
  <2>2. g[m + 1] = Turned(g[m], pages[m + 1])
    BY <1>1, <1>3
  <2>3. IsState(g[k])
    BY <2>1, RunStates DEF Advances
  <2>4. CASE k = m /\ TakesPage(g[m], pages[m + 1])
    <3>1. g[m + 1] = Taken(g[m], pages[m + 1])
      <4>1. g[m].ok = TRUE
        BY <2>3, <2>4 DEF IsState
      <4> QED BY <2>2, <2>4, <4>1, Zenon DEF Turned, Taken
    <3>2. OkRun(pages, m + 1, r, g)
      <4>1. ASSUME NEW i \in 1 .. m + 1
            PROVE  TakesPage(g[i - 1], pages[i]) /\ g[i] = Taken(g[i - 1], pages[i])
        <5>1. CASE i = m + 1
          <6>1. i - 1 = m
            BY <5>1
          <6> QED BY <2>4, <3>1, <5>1, <6>1, Zenon
        <5>2. CASE i # m + 1
          <6>1. i \in 1 .. k
            BY <2>4, <5>2
          <6> QED BY <2>1, <6>1 DEF OkRun
        <5> QED BY <5>1, <5>2
      <4> QED BY <1>1, <4>1 DEF OkRun
    <3> QED BY <3>2
  <2>5. CASE k = m /\ ~TakesPage(g[m], pages[m + 1])
    <3>1. g[m + 1] = Stopped(g[m])
      BY <2>2, <2>5, Zenon DEF Turned, Stopped
    <3> QED BY <2>1, <2>5, <3>1
  <2>6. CASE k # m
    <3>1. g[m] = Stopped(g[k])
      BY <2>1, <2>6
    <3>2. g[m].ok = FALSE
      BY <2>3, <3>1 DEF Stopped, IsState
    <3>3. g[m + 1] = Stopped(g[m])
      BY <2>2, <3>2, Zenon DEF Turned, Stopped
    <3>4. Stopped(g[m]) = Stopped(g[k])
      BY <2>3, <3>1 DEF Stopped, IsState
    <3>5. k \in 0 .. m + 1 /\ k # m + 1
      OBVIOUS
    <3> QED BY <2>1, <3>3, <3>4, <3>5
  <2> QED BY <2>4, <2>5, <2>6
<1>4. \A m \in Nat : m \in P => m + 1 \in P
  <2> HIDE DEF Ends
  <2>1. \A m \in Nat : m \in P /\ m + 1 <= n => Ends(m + 1)
    BY <1>3
  <2> QED BY <2>1
<1>5. Ends(n)
  <2>1. Nat \subseteq P
    <3> HIDE DEF P
    <3> QED BY <1>2, <1>4, OverNat
  <2> HIDE DEF Ends
  <2> QED BY <2>1
<1> QED BY <1>1, <1>5

\* What is taken page by page is what the fold gives.
LEMMA RunIsTurn ==
  ASSUME NEW n \in Nat, NEW pages, DOMAIN pages = 1 .. n, NEW r, IsState(r),
         r.ledger.applied \in Nat, NEW g, OkRun(pages, n, r, g)
  PROVE  Turn(pages, r) = g[n]
<1>0. PICK t : Folds(pages, n, r, t)
  BY TurnSteps
<1>1. /\ t[0] = r /\ Turn(pages, r) = t[n]
      /\ \A i \in 1 .. n : t[i] = Turned(t[i - 1], pages[i])
  BY <1>0 DEF Folds
<1> DEFINE P == {m \in Nat : m <= n => t[m] = g[m]}
<1>2. 0 \in P
  BY <1>1 DEF OkRun
<1>3. ASSUME NEW m \in Nat, m \in P PROVE m + 1 \in P
  <2> SUFFICES ASSUME m + 1 <= n PROVE t[m + 1] = g[m + 1]
    OBVIOUS
  <2>1. m + 1 \in 1 .. n /\ (m + 1) - 1 = m /\ m \in 0 .. n /\ t[m] = g[m]
    BY <1>3
  <2>2. t[m + 1] = Turned(g[m], pages[m + 1])
    BY <1>1, <2>1
  <2>3. TakesPage(g[m], pages[m + 1]) /\ g[m + 1] = Taken(g[m], pages[m + 1])
    BY <2>1 DEF OkRun
  <2>4. g[m].ok = TRUE
    <3>1. IsState(g[m])
      BY <2>1, RunStates DEF Advances
    <3> QED BY <3>1 DEF IsState
  <2> QED BY <2>2, <2>3, <2>4, Zenon DEF Turned, Taken
<1>4. Nat \subseteq P
  <2> HIDE DEF P
  <2> QED BY <1>2, <1>3, OverNat
<1> QED BY <1>1, <1>4

\* The same page, with at least the bodies it had.
SamePage(page, later) ==
    /\ later.id = page.id /\ later.height = page.height /\ later.txs = page.txs
    /\ page.whole => later.whole

\* Pages that say the same, with at least the bodies, are taken the same way.
LEMMA RunPersists ==
  ASSUME NEW n \in Nat, NEW pages, NEW later, \A i \in 1 .. n : SamePage(pages[i], later[i]),
         NEW r, NEW g, OkRun(pages, n, r, g)
  PROVE  OkRun(later, n, r, g)
<1>1. ASSUME NEW i \in 1 .. n
      PROVE  TakesPage(g[i - 1], later[i]) /\ g[i] = Taken(g[i - 1], later[i])
  <2>1. TakesPage(g[i - 1], pages[i]) /\ g[i] = Taken(g[i - 1], pages[i])
    BY DEF OkRun
  <2>2. SamePage(pages[i], later[i])
    OBVIOUS
  <2>3. TakesPage(g[i - 1], later[i])
    BY <2>1, <2>2, Zenon DEF SamePage, TakesPage
  <2>4. Taken(g[i - 1], later[i]) = Taken(g[i - 1], pages[i])
    BY <2>2, Zenon DEF SamePage, Taken
  <2> QED BY <2>1, <2>3, <2>4
<1> QED BY <1>1 DEF OkRun

\* A run over the first pages and a run over the rest are a run.
LEMMA RunsJoin ==
  ASSUME NEW n \in Nat, NEW k \in 0 .. n, NEW j \in 0 .. n - k, NEW pages,
         NEW r, NEW g, OkRun(pages, k, r, g),
         NEW h, OkRun(SubSeq(pages, k + 1, n), j, g[k], h)
  PROVE  \E f : OkRun(pages, k + j, r, f) /\ f[k + j] = h[j] /\ k + j \in 0 .. n
<1> DEFINE f == [i \in 0 .. k + j |-> IF i <= k THEN g[i] ELSE h[i - k]]
           rest == SubSeq(pages, k + 1, n)
<1>1. \A i \in 1 .. n - k : rest[i] = pages[k + i]
  <2>1. rest = [i \in 1 .. n - k |-> pages[k + i]]
    <3>1. n - (k + 1) + 1 = n - k /\ \A i \in 1 .. n - k : (k + 1) + i - 1 = k + i
      OBVIOUS
    <3> QED BY <3>1
  <2> HIDE DEF rest
  <2> QED BY <2>1
<1>2. h[0] = g[k] /\ g[0] = r
  BY DEF OkRun
<1>3. f[k + j] = h[j]
  BY <1>2
<1>4. f[0] = r
  BY <1>2
<1>5. ASSUME NEW i \in 1 .. k + j
      PROVE  TakesPage(f[i - 1], pages[i]) /\ f[i] = Taken(f[i - 1], pages[i])
  <2>1. CASE i <= k
    <3>1. i \in 1 .. k /\ f[i - 1] = g[i - 1] /\ f[i] = g[i]
      BY <2>1
    <3> HIDE DEF f
    <3> QED BY <3>1 DEF OkRun
  <2>2. CASE i > k
    <3>1. PICK l \in 1 .. j : l = i - k
      BY <2>2
    <3>2. f[i] = h[l]
      BY <2>2, <3>1
    <3>3. f[i - 1] = h[l - 1]
      <4>1. CASE l = 1
        BY <1>2, <3>1, <4>1
      <4>2. CASE l # 1
        <5>1. ~(i - 1 <= k) /\ (i - 1) - k = l - 1 /\ i - 1 \in 0 .. k + j
          BY <3>1, <4>2
        <5> QED BY <5>1
      <4> QED BY <4>1, <4>2
    <3>4. rest[l] = pages[i]
      <4>1. l \in 1 .. n - k /\ k + l = i
        BY <3>1
      <4> QED BY <1>1, <4>1
    <3>5. TakesPage(h[l - 1], rest[l]) /\ h[l] = Taken(h[l - 1], rest[l])
      BY DEF OkRun
    <3> HIDE DEF f, rest
    <3> QED BY <3>2, <3>3, <3>4, <3>5
  <2> QED BY <2>1, <2>2
<1> HIDE DEF f
<1>6. OkRun(pages, k + j, r, f)
  BY <1>4, <1>5 DEF OkRun
<1> QED BY <1>3, <1>6

----------------------------------------------------------------------------
(* The ordered blocks.                                                     *)

Order(b) == Dag!ConsensusOrder(b)
PagesOf(b) == [i \in DOMAIN Order(b) |-> Page(Order(b)[i])]

\* What the engine needs of the Dag: orders that list the views, end at their
\* block and agree as far as they have a block at the same place, and a best
\* tip.
Ordered ==
    /\ DP!Grows
    /\ \A b \in Held :
         /\ Order(b) = DP!ConsensusOrder(b) /\ Dag!View(b) = DP!View(b)
         /\ OrderLen(b) \in Nat \ {0}
         /\ DOMAIN Order(b) = 1 .. OrderLen(b) /\ Len(Order(b)) = OrderLen(b)
         /\ \A i \in 1 .. OrderLen(b) : Order(b)[i] \in Held
         /\ Order(b)[OrderLen(b)] = b
    /\ \A x, y \in Held :
         OrderLen(x) <= OrderLen(y) /\ Order(y)[OrderLen(x)] = x
           => \A i \in 1 .. OrderLen(x) : Order(y)[i] = Order(x)[i]
    /\ Best \in Held /\ Dag!IsBestTip(Best)

\* The invariant of the ordering layer gives the engine all it asks of it.
LEMMA DagIsOrdered == DP!DInv => Ordered
<1> SUFFICES ASSUME DP!DInv PROVE Ordered
  OBVIOUS
<1>0. DP!DagAssumption /\ DP!Held = Held
  BY SameRules
<1>1. ASSUME NEW b \in Held
      PROVE  /\ Order(b) = DP!ConsensusOrder(b) /\ Dag!View(b) = DP!View(b)
             /\ OrderLen(b) = DP!Cardinality(DP!View(b))
             /\ DP!Numbers(Order(b), OrderLen(b), b)
  <2>1. Order(b) = DP!ConsensusOrder(b) /\ Dag!View(b) = DP!View(b)
    BY SameRules DEF Order
  <2>2. OrderLen(b) = DP!Cardinality(DP!View(b))
    BY <2>1, SameRules DEF OrderLen
  <2>3. DP!Numbers(DP!ConsensusOrder(b), DP!Cardinality(DP!View(b)), b)
    BY <1>0, DP!OrderNumbers
  <2> QED BY <2>1, <2>2, <2>3
<1>2. ASSUME NEW b \in Held
      PROVE  /\ OrderLen(b) \in Nat \ {0}
             /\ DOMAIN Order(b) = 1 .. OrderLen(b) /\ Len(Order(b)) = OrderLen(b)
             /\ \A i \in 1 .. OrderLen(b) : Order(b)[i] \in Held
             /\ Order(b)[OrderLen(b)] = b
  <2>1. DP!Numbers(Order(b), OrderLen(b), b)
    BY <1>1
  <2>2. Order(b)[OrderLen(b)] = b
    BY <1>0, <2>1, DP!EndsAtTip
  <2> QED BY <1>0, <2>1, <2>2, Zenon DEF DP!Numbers
<1>3. ASSUME NEW x \in Held, NEW y \in Held,
             OrderLen(x) <= OrderLen(y), Order(y)[OrderLen(x)] = x,
             NEW i \in 1 .. OrderLen(x)
      PROVE  Order(y)[i] = Order(x)[i]
  <2>1. DP!Agrees(x, y)
    BY <1>0, DP!PrefixOrder
  <2> QED BY <1>1, <1>3, <2>1 DEF DP!Agrees
<1>4. Best \in Held /\ Dag!IsBestTip(Best)
  <2>1. PICK t \in Held : DP!IsBestTip(t)
    BY <1>0, DP!OneBestTip
  <2>2. Dag!IsBestTip(t)
    BY <2>1, SameRules
  <2>3. t \in tips
    BY <2>2 DEF Dag!IsBestTip
  <2>4. Best \in tips /\ Dag!IsBestTip(Best)
    BY <2>2, <2>3, Zenon DEF Best
  <2>5. DP!IsBestTip(Best)
    BY <2>4, SameRules
  <2>6. tips \subseteq Held
    BY <1>0 DEF DP!DInv, DP!Inv, DP!TypeOK
  <2> QED BY <2>4, <2>6
<1>5. DP!Grows
  BY <1>0, DP!OrderGrows DEF DP!Grows
<1> QED BY <1>1, <1>2, <1>3, <1>4, <1>5 DEF Ordered

\* An insertion leaves the orders of the blocks that were held.
LEMMA OrdersStay ==
  ASSUME DP!DInv, Ordered, Ordered', NEW b \in DP!Header, NEW now, Dag!Insert(b, now)
  PROVE  /\ Held' = Held \cup {b.id} /\ b.id \notin Held
         /\ \A x \in Held : /\ Order(x)' = Order(x) /\ OrderLen(x)' = OrderLen(x)
                            /\ nodes'[x].height = nodes[x].height
<1>1. DP!DagAssumption /\ DP!Insert(b, now) /\ DP!Held = Held
  BY SameRules
<1>2. DP!Held' = Held'
  BY DEF DP!Held, Held
<1>3. /\ DP!Held' = DP!Held \cup {b.id} /\ b.id \notin DP!Held
      /\ \A x \in DP!Held : /\ DP!View(x)' = DP!View(x)
                            /\ DP!ConsensusOrder(x)' = DP!ConsensusOrder(x)
                            /\ nodes'[x].height = nodes[x].height
  BY <1>1, DP!OrderStays DEF Ordered
<1>4. ASSUME NEW x \in Held
      PROVE  Order(x)' = Order(x) /\ OrderLen(x)' = OrderLen(x)
  <2>1. x \in Held' /\ x \in DP!Held
    BY <1>1, <1>2, <1>3
  <2>2. Order(x)' = DP!ConsensusOrder(x)' /\ Dag!View(x)' = DP!View(x)'
    BY <2>1 DEF Ordered
  <2>3. Order(x) = DP!ConsensusOrder(x) /\ Dag!View(x) = DP!View(x)
    BY DEF Ordered
  <2>4. Dag!View(x)' = Dag!View(x)
    BY <1>3, <2>1, <2>2, <2>3
  <2>5. OrderLen(x)' = OrderLen(x)
    BY <2>4 DEF OrderLen
  <2> QED BY <1>3, <2>1, <2>2, <2>3, <2>5
<1> QED BY <1>1, <1>2, <1>3, <1>4

----------------------------------------------------------------------------
(* The frontier.                                                           *)

\* g runs along the order of t up to the frontier, and gives the ledger.
Reaches(t, g) ==
    /\ ledger.applied \in 1 .. OrderLen(t)
    /\ OkRun(PagesOf(t), ledger.applied, Blank, g)
    /\ Order(t)[ledger.applied] = frontier
    /\ g[ledger.applied].ledger = ledger

\* The ledger ends at a block of some order.
EndsAtABlock == \E t \in Held : \E g : Reaches(t, g)

\* The engine has applied the best order to its end.
Stands ==
    /\ frontier = Best
    /\ ledger.applied = OrderLen(Best)
    /\ \E g : Reaches(Best, g) /\ g[OrderLen(Best)] = Current

\* The inductive invariant.
EInv ==
    /\ DOMAIN payload = Held
    /\ EndsAtABlock
    /\ Runs => Stands

\* A rebuild starts from nothing.
LEMMA BlankIsNew == IsState(Blank) /\ Blank.ledger = New /\ Blank.ledger.applied = 0
  BY DEF Blank, IsState, New

\* The pages of a block are those of its order, one each.
LEMMA PagesAre ==
  ASSUME Ordered, NEW t \in Held
  PROVE  /\ DOMAIN PagesOf(t) = 1 .. OrderLen(t)
         /\ \A i \in 1 .. OrderLen(t) : PagesOf(t)[i] = Page(Order(t)[i])
         /\ Len(PagesOf(t)) = OrderLen(t)
<1>1. /\ DOMAIN Order(t) = 1 .. OrderLen(t) /\ OrderLen(t) \in Nat
  BY DEF Ordered
<1>2. /\ DOMAIN PagesOf(t) = 1 .. OrderLen(t)
      /\ \A i \in 1 .. OrderLen(t) : PagesOf(t)[i] = Page(Order(t)[i])
  BY <1>1 DEF PagesOf
<1>3. Len(PagesOf(t)) = OrderLen(t)
  <2> DEFINE p == PagesOf(t)
             n == OrderLen(t)
             F(i) == Page(Order(t)[i])
  <2>1. p = [i \in 1 .. n |-> F(i)]
    BY <1>1 DEF PagesOf
  <2>2. n \in Nat
    BY <1>1
  <2> HIDE DEF p, n, F
  <2>3. Len(p) = n
    BY <2>1, <2>2
  <2> QED BY <2>3 DEF p, n
<1> QED BY <1>2, <1>3

\* Of a block that was held, an engine step keeps the page.
Recalls ==
    /\ bodies \subseteq bodies'
    /\ \A x \in Held : /\ x \in Held'
                       /\ Order(x)' = Order(x) /\ OrderLen(x)' = OrderLen(x)
                       /\ nodes'[x].height = nodes[x].height /\ payload'[x] = payload[x]

\* The pages of a held block outlive an insertion.
LEMMA PagesStay ==
  ASSUME Ordered, Ordered', Recalls, NEW t \in Held
  PROVE  /\ PagesOf(t)' = [i \in 1 .. OrderLen(t) |-> Page(Order(t)[i])']
         /\ \A i \in 1 .. OrderLen(t) : SamePage(PagesOf(t)[i], (PagesOf(t)')[i])
<1>1. t \in Held' /\ Order(t)' = Order(t) /\ OrderLen(t)' = OrderLen(t)
      /\ DOMAIN Order(t) = 1 .. OrderLen(t)
      /\ \A i \in 1 .. OrderLen(t) : Order(t)[i] \in Held
  BY DEF Recalls, Ordered
<1>2. ASSUME NEW x \in Held PROVE SamePage(Page(x), Page(x)')
  BY DEF SamePage, Page, Recalls
<1>3. PagesOf(t)' = [i \in 1 .. OrderLen(t) |-> Page(Order(t)[i])']
  BY <1>1 DEF PagesOf
<1>4. ASSUME NEW i \in 1 .. OrderLen(t)
      PROVE  SamePage(PagesOf(t)[i], (PagesOf(t)')[i])
  <2>1. (PagesOf(t)')[i] = Page(Order(t)[i])'
    BY <1>3
  <2>2. PagesOf(t)[i] = Page(Order(t)[i])
    BY PagesAre
  <2> QED BY <1>1, <1>2, <2>1, <2>2
<1> QED BY <1>3, <1>4

\* A step that leaves the ledger leaves it where it ends.
LEMMA StillReaches ==
  ASSUME Ordered, Ordered', Recalls, UNCHANGED <<ledger, frontier>>,
         NEW t \in Held, NEW g, Reaches(t, g)
  PROVE  Reaches(t, g)'
<1> DEFINE n == ledger.applied
<1>1. OrderLen(t)' = OrderLen(t) /\ Order(t)' = Order(t) /\ OrderLen(t) \in Nat /\ n \in 1 .. OrderLen(t)
  BY DEF Recalls, Ordered, Reaches
<1>2. \A i \in 1 .. n : SamePage(PagesOf(t)[i], (PagesOf(t)')[i])
  BY <1>1, PagesStay
<1>3. OkRun(PagesOf(t), n, Blank, g)
  BY DEF Reaches
<1>4. OkRun(PagesOf(t)', n, Blank, g)
  <2>1. n \in Nat
    BY <1>1
  <2> HIDE DEF n
  <2> QED BY <1>2, <1>3, <2>1, RunPersists
<1>5. ledger' = ledger /\ frontier' = frontier
  OBVIOUS
<1>6. OkRun(PagesOf(t), ledger.applied, Blank, g)'
  BY <1>4, <1>5, Zenon DEF OkRun, TakesPage, Taken, Blank, Stopped
<1> QED BY <1>1, <1>5, <1>6 DEF Reaches

\* A run along the new best order says where the ledger is.
LEMMA ReachedBy ==
  ASSUME Ordered', NEW k \in Nat \ {0}, k <= OrderLen(Best)', NEW f,
         OkRun(BestPages', k, Blank, f), ledger' = f[k].ledger, frontier' = f[k].frontier
  PROVE  /\ Reaches(Best, f)' /\ ledger'.applied = k
         /\ k = OrderLen(Best)' /\ trackers' = f[k].trackers /\ checks' = f[k].checks => Stands'
<1>1. PICK n \in Nat : n = OrderLen(Best)' /\ k \in 1 .. n
  BY DEF Ordered
<1>2. BestPages' = PagesOf(Best)'
  BY DEF BestPages, PagesOf, BestOrder, Order
<1>3. /\ \A i \in 1 .. n : (BestPages')[i].id = Order(Best)'[i]
  <2>1. DOMAIN Order(Best)' = 1 .. n
    BY <1>1 DEF Ordered
  <2>2. PagesOf(Best)' = [i \in 1 .. n |-> Page(Order(Best)[i])']
    BY <2>1 DEF PagesOf
  <2>3. \A i \in 1 .. n : (PagesOf(Best)')[i].id = Order(Best)'[i]
    BY <2>2 DEF Page
  <2> QED BY <1>2, <2>3
<1>4. /\ IsState(f[k]) /\ f[k].ledger.applied = k
      /\ f[k].frontier = (BestPages')[k].id
  <2>1. /\ \A i \in 0 .. k : IsState(f[i]) /\ f[i].ledger.applied = Blank.ledger.applied + i
        /\ \A i \in 1 .. k : f[i].frontier = (BestPages')[i].id
    <3>1. IsState(Blank) /\ Blank.ledger.applied \in Nat /\ k \in Nat
      BY BlankIsNew
    <3> QED BY <3>1, RunStates DEF Advances
  <2>2. k \in 0 .. k /\ k \in 1 .. k
    OBVIOUS
  <2> QED BY <2>1, <2>2, BlankIsNew
<1>5. ledger'.applied = k /\ frontier' = Order(Best)'[k]
  BY <1>1, <1>3, <1>4
<1>6. OkRun(PagesOf(Best), ledger.applied, Blank, f)'
  <2>1. OkRun(PagesOf(Best)', ledger'.applied, Blank, f)
    BY <1>2, <1>5
  <2> QED BY <2>1, Zenon DEF OkRun, TakesPage, Taken, Blank
<1>7. Reaches(Best, f)'
  BY <1>1, <1>5, <1>6 DEF Reaches
<1>8. ASSUME k = OrderLen(Best)', trackers' = f[k].trackers, checks' = f[k].checks PROVE Stands'
  <2>1. Current' = f[k]
    BY <1>4, <1>8 DEF Current, IsState
  <2>2. Order(Best)'[k] = Best'
    BY <1>8 DEF Ordered
  <2> QED BY <1>5, <1>7, <1>8, <2>1, <2>2 DEF Stands
<1> QED BY <1>5, <1>7, <1>8

\* The suffix of an order that extends the frontier.
LEMMA SuffixApplied ==
  ASSUME Ordered, Ordered', Recalls, Stands, ExtendsFrontier(BestPages'),
         NEW r, r = Turn(SubSeq(BestPages', ledger.applied + 1, Len(BestPages')), Current),
         ledger' = r.ledger, frontier' = r.frontier, trackers' = r.trackers, checks' = r.checks
  PROVE  EndsAtABlock' /\ (r.ok => Stands')
<1> DEFINE pages == BestPages'
           rest == SubSeq(pages, ledger.applied + 1, Len(pages))
<1>1. PICK m \in Nat, n \in Nat, last \in Held :
        /\ m = OrderLen(Best)' /\ n = ledger.applied /\ n \in 1 .. m
        /\ last = Best /\ n = OrderLen(last) /\ Len(pages) = m
        /\ pages[n].id = last
        /\ \A i \in 1 .. m : pages[i] = Page(Order(Best)[i])'
  <2>1. Best' \in Held' /\ OrderLen(Best)' \in Nat /\ DOMAIN Order(Best)' = 1 .. OrderLen(Best)'
    BY DEF Ordered
  <2>2. Best \in Held /\ OrderLen(Best) \in Nat \ {0} /\ ledger.applied = OrderLen(Best) /\ frontier = Best
    BY DEF Ordered, Stands
  <2> DEFINE m == OrderLen(Best)'
             F(i) == Page(Order(Best)[i])'
  <2>3. pages = [i \in 1 .. m |-> F(i)]
    BY <2>1 DEF BestPages, BestOrder, Order
  <2>4. m \in Nat
    BY <2>1
  <2>5. Len(pages) = m /\ \A i \in 1 .. m : pages[i] = F(i)
    <3> HIDE DEF pages, m, F
    <3> QED BY <2>3, <2>4
  <2>6. Len(pages) >= ledger.applied /\ pages[ledger.applied].id = frontier
    BY DEF ExtendsFrontier
  <2> HIDE DEF pages, m
  <2>7. ledger.applied \in 1 .. m
    BY <2>2, <2>4, <2>5, <2>6
  <2> QED BY <2>2, <2>4, <2>5, <2>6, <2>7 DEF m
<1>2. /\ last \in Held' /\ Best' \in Held' /\ n = OrderLen(last)' /\ Order(last)' = Order(last)
  BY <1>1 DEF Recalls, Ordered
<1>3. \A i \in 1 .. n : Order(Best)'[i] = Order(last)[i]
  <2>1. Page(Order(Best)[n])'.id = Order(Best)'[n]
    BY DEF Page
  <2>2. Order(Best)'[n] = last
    BY <1>1, <2>1
  <2>3. OrderLen(last)' <= OrderLen(Best)'
    BY <1>1, <1>2
  <2> QED BY <1>2, <2>2, <2>3 DEF Ordered
<1>4. \A i \in 1 .. n : SamePage(PagesOf(last)[i], pages[i])
  <2>1. \A i \in 1 .. n : SamePage(PagesOf(last)[i], (PagesOf(last)')[i])
    BY <1>1, PagesStay
  <2>2. PagesOf(last)' = [i \in 1 .. n |-> Page(Order(last)[i])']
    BY <1>1, PagesStay
  <2>3. ASSUME NEW i \in 1 .. n PROVE (PagesOf(last)')[i] = pages[i]
    <3>1. (PagesOf(last)')[i] = Page(Order(last)[i])'
      BY <2>2
    <3>2. pages[i] = Page(Order(Best)[i])'
      BY <1>1
    <3>3. Order(Best)'[i] = Order(last)'[i]
      BY <1>2, <1>3
    <3>4. Page(Order(last)[i])' = Page(Order(Best)[i])'
      BY <3>3 DEF Page
    <3> QED BY <3>1, <3>2, <3>4
  <2> HIDE DEF pages
  <2> QED BY <2>1, <2>3
<1>5. PICK g : OkRun(PagesOf(last), n, Blank, g) /\ g[n] = Current
  BY <1>1 DEF Stands, Reaches
<1>6. OkRun(pages, n, Blank, g)
  <2> HIDE DEF pages
  <2> QED BY <1>4, <1>5, RunPersists
<1>7. IsState(Current) /\ Current.ledger.applied \in Nat
  BY <1>1 DEF Current, IsState
<1>0. PICK j \in 0 .. m - n : \E h : /\ OkRun(rest, j, Current, h)
                                      /\ r = IF j = m - n THEN h[j] ELSE Stopped(h[j])
  <2>1. DOMAIN rest = 1 .. m - n /\ m - n \in Nat
    <3>1. m - (n + 1) + 1 = m - n
      OBVIOUS
    <3> HIDE DEF pages
    <3> QED BY <1>1, <3>1
  <2> DEFINE d == m - n
  <2>2. d \in Nat /\ DOMAIN rest = 1 .. d
    BY <2>1
  <2> HIDE DEF pages, rest, d
  <2>3. PICK j \in 0 .. d : \E h :
          /\ OkRun(rest, j, Current, h)
          /\ Turn(rest, Current) = IF j = d THEN h[j] ELSE Stopped(h[j])
    BY <1>7, <2>2, RunEnds
  <2> QED BY <2>3 DEF d, rest, pages
<1>8. PICK h : /\ OkRun(rest, j, Current, h)
               /\ r = IF j = m - n THEN h[j] ELSE Stopped(h[j])
  <2> HIDE DEF pages, rest
  <2> QED BY <1>0
<1>9. PICK f : OkRun(pages, n + j, Blank, f) /\ f[n + j] = h[j] /\ n + j \in 1 .. m
  <2>1. rest = SubSeq(pages, n + 1, m)
    BY <1>1
  <2>2. OkRun(SubSeq(pages, n + 1, m), j, g[n], h)
    BY <1>5, <1>8, <2>1
  <2>3. n \in 0 .. m
    BY <1>1
  <2> HIDE DEF pages
  <2>4. PICK f : OkRun(pages, n + j, Blank, f) /\ f[n + j] = h[j] /\ n + j \in 0 .. m
    BY <1>6, <2>2, <2>3, RunsJoin
  <2>5. n + j \in 1 .. m
    BY <1>1, <2>4
  <2> QED BY <2>4, <2>5
<1>10. IsState(h[j])
  <2>1. j \in Nat /\ j \in 0 .. j
    OBVIOUS
  <2>2. OkRun(rest, j, Current, h)
    BY <1>8
  <2> HIDE DEF rest
  <2> QED BY <1>7, <2>1, <2>2, RunStates DEF Advances
<1>11. /\ r.ledger = h[j].ledger /\ r.frontier = h[j].frontier
       /\ r.ok => j = m - n /\ r = h[j]
  BY <1>8, <1>10 DEF Stopped, IsState
<1>12. n + j \in Nat \ {0} /\ n + j <= OrderLen(Best)'
  BY <1>1, <1>9
<1>13. /\ ledger' = f[n + j].ledger /\ frontier' = f[n + j].frontier
       /\ r.ok => n + j = OrderLen(Best)' /\ trackers' = f[n + j].trackers /\ checks' = f[n + j].checks
  BY <1>1, <1>9, <1>11
<1>14. Reaches(Best, f)' /\ (r.ok => Stands')
  <2> DEFINE k == n + j
  <2>1. k \in Nat \ {0} /\ k <= OrderLen(Best)' /\ OkRun(BestPages', k, Blank, f)
    BY <1>9, <1>12
  <2> HIDE DEF k
  <2> QED BY <1>13, <2>1, ReachedBy DEF k
<1> QED BY <1>2, <1>14 DEF EndsAtABlock

\* The replay of an order from nothing.
LEMMA OrderReplayed ==
  ASSUME Ordered', NEW r, r = Turn(BestPages', Blank), r.ok,
         ledger' = r.ledger, frontier' = r.frontier, trackers' = r.trackers, checks' = r.checks
  PROVE  EndsAtABlock' /\ Stands'
<1> DEFINE pages == BestPages'
<1>1. PICK m \in Nat \ {0} : m = OrderLen(Best)' /\ DOMAIN pages = 1 .. m /\ Best' \in Held'
  BY DEF Ordered, BestPages, BestOrder, Order
<1>0. PICK k \in 0 .. m : \E f : /\ OkRun(pages, k, Blank, f)
                                  /\ r = IF k = m THEN f[k] ELSE Stopped(f[k])
  <2> HIDE DEF pages
  <2>1. IsState(Blank) /\ Blank.ledger.applied \in Nat /\ m \in Nat
    BY BlankIsNew
  <2>2. PICK k \in 0 .. m : \E f :
          /\ OkRun(pages, k, Blank, f)
          /\ Turn(pages, Blank) = IF k = m THEN f[k] ELSE Stopped(f[k])
    BY <1>1, <2>1, RunEnds
  <2> QED BY <2>2 DEF pages
<1>2. PICK f : OkRun(pages, k, Blank, f) /\ r = IF k = m THEN f[k] ELSE Stopped(f[k])
  <2> HIDE DEF pages
  <2> QED BY <1>0
<1>3. IsState(f[k])
  <2>1. IsState(Blank) /\ Blank.ledger.applied \in Nat /\ k \in Nat /\ k \in 0 .. k
    BY BlankIsNew
  <2>2. OkRun(pages, k, Blank, f)
    BY <1>2
  <2> HIDE DEF pages
  <2> QED BY <2>1, <2>2, RunStates DEF Advances
<1>4. k = m /\ r = f[k]
  BY <1>2, <1>3 DEF Stopped, IsState
<1>5. Reaches(Best, f)' /\ Stands'
  BY <1>1, <1>2, <1>4, ReachedBy
<1> QED BY <1>1, <1>5 DEF EndsAtABlock

----------------------------------------------------------------------------
(* The steps.                                                              *)

\* A step that orders a block.
Inserts == \E b \in DP!Header : \E txs : Dag!Insert(b, b.time) /\ InsertBlock(b, txs)

\* A step that orders nothing.
LeavesOrder == UNCHANGED <<dagVars, payload, stateVars>>

\* A header the rules accept names a height.
LEMMA HeaderFits ==
  ASSUME DP!DInv, NEW id \in Ids, NEW parents \in SUBSET Held, NEW height, NEW time \in Times,
         Dag!Insert(HeaderOn(id, parents, height, time), time)
  PROVE  HeaderOn(id, parents, height, time) \in DP!Header
<1> DEFINE b == HeaderOn(id, parents, height, time)
<1>1. /\ Held \subseteq Ids /\ Times \subseteq Nat /\ \A x \in Held : nodes[x].height \in Nat
  <2>1. DP!TypeOK /\ DP!DagAssumption /\ DP!Held = Held
    BY SameRules DEF DP!DInv, DP!Inv
  <2> QED BY <2>1 DEF DP!TypeOK, DP!Node, DP!DagAssumption
<1>2. Dag!AnnouncesHeight(b)
  BY Zenon DEF Dag!Insert, Dag!Accepts
<1>3. PICK p \in parents : height = nodes[p].height + 1
  BY <1>2 DEF Dag!AnnouncesHeight, HeaderOn
<1>4. height \in Nat
  BY <1>1, <1>3
<1> QED BY <1>1, <1>4 DEF HeaderOn, DP!Header

\* What a step does to the blocks, the bodies and what is derived.
LEMMA StepKinds ==
  ASSUME DP!DInv, Ordered, Next
  PROVE  /\ Runs /\ bodies \subseteq bodies'
         /\ Inserts \/ (LeavesOrder /\ (breach' = "none" => UNCHANGED bodies))
<1>1. /\ Held \subseteq Ids /\ Times \subseteq Nat /\ Best \in Held
      /\ \A x \in Held : nodes[x].height \in Nat
  <2>1. DP!TypeOK /\ DP!DagAssumption /\ DP!Held = Held
    BY SameRules DEF DP!DInv, DP!Inv
  <2> QED BY <2>1 DEF DP!TypeOK, DP!Node, DP!DagAssumption, Ordered
<1>2. ASSUME NEW id \in Ids, NEW parents \in SUBSET Held, NEW height, NEW time \in Times,
             Dag!Insert(HeaderOn(id, parents, height, time), time)
      PROVE  HeaderOn(id, parents, height, time) \in DP!Header
  BY <1>2, HeaderFits
<1>3. ASSUME NEW id \in Ids, NEW parents \in SUBSET Held, NEW height, NEW time \in Times, NEW txs,
             InsertBlock(HeaderOn(id, parents, height, time), txs)
      PROVE  Inserts
  <2> DEFINE b == HeaderOn(id, parents, height, time)
  <2>1. b.time = time
    BY DEF HeaderOn
  <2>2. Dag!Insert(b, b.time)
    BY <1>3, Zenon DEF InsertBlock
  <2>3. b \in DP!Header
    BY <1>2, <2>1, <2>2
  <2> QED BY <1>3, <2>2, <2>3, Zenon DEF Inserts
<1>4. ASSUME NEW id \in Ids \ Held, NEW time \in Times, MineAndApply(id, time)
      PROVE  Inserts /\ bodies \subseteq bodies'
  <2>1. \E height, txs : InsertBlock(HeaderOn(id, {Best}, height, time), txs) /\ RegisterPayload(txs)
    BY <1>4, Zenon DEF MineAndApply
  <2>2. {Best} \in SUBSET Held
    BY <1>1
  <2> QED BY <1>3, <2>1, <2>2 DEF RegisterPayload
<1>5. ASSUME MiningExhausted
      PROVE  LeavesOrder /\ bodies \subseteq bodies' /\ breach' = "mining"
  <2>1. \E txs : RegisterPayload(txs)
    BY <1>5, Zenon DEF MiningExhausted
  <2>2. LeavesOrder /\ breach' = "mining"
    BY <1>5, Zenon DEF MiningExhausted, LeavesOrder
  <2> QED BY <2>1, <2>2 DEF RegisterPayload
<1>6. ASSUME NEW id \in Ids \ Held, NEW parents \in SUBSET Held, NEW time \in Times,
             RemoteBlock(id, parents, time)
      PROVE  Inserts /\ bodies \subseteq bodies'
  <2>1. \E height, txs, known : /\ InsertBlock(HeaderOn(id, parents, height, time), txs)
                               /\ RegisterPayload(known)
    BY <1>6, Zenon DEF RemoteBlock
  <2> QED BY <1>3, <2>1 DEF RegisterPayload
<1>7. ASSUME ActivityMiner \/ ActivityAlice
      PROVE  LeavesOrder /\ UNCHANGED bodies
  <2>1. \E wallet, destination, n : Activity(wallet, destination, n)
    BY <1>7, Zenon DEF ActivityMiner, ActivityAlice
  <2> QED BY <2>1, Zenon DEF Activity, LeavesOrder
<1>8. Runs
  BY Zenon DEF Next
<1>9. \/ \E id \in Ids \ Held, time \in Times : MineAndApply(id, time)
      \/ MiningExhausted
      \/ \E id \in Ids \ Held, parents \in SUBSET Held, time \in Times : RemoteBlock(id, parents, time)
      \/ ActivityMiner \/ ActivityAlice
  BY Zenon DEF Next
<1>10. ASSUME NEW x, x = "mining" PROVE x # "none"
  BY <1>10
<1> QED BY <1>4, <1>5, <1>6, <1>7, <1>8, <1>9, <1>10

\* What an insertion does to the order keeps the invariant of the ordering
\* layer; every other step leaves the blocks alone.
LEMMA DagStep ==
  ASSUME DP!DInv, Ordered, [Next]_vars
  PROVE  DP!DInv'
<1>1. DP!DagAssumption
  BY SameRules
<1>2. CASE Inserts
  <2>1. PICK b \in DP!Header : DP!Insert(b, b.time)
    BY <1>2, SameRules DEF Inserts
  <2> QED BY <1>1, <2>1, DP!InsertDInv
<1>3. CASE UNCHANGED dagVars
  <2>1. UNCHANGED DP!vars
    BY <1>3 DEF dagVars, DP!vars
  <2> QED BY <1>1, <2>1, DP!Unchanged
<1>4. UNCHANGED vars \/ LeavesOrder => UNCHANGED dagVars
  BY DEF vars, LeavesOrder
<1>5. Next => Inserts \/ LeavesOrder
  BY StepKinds
<1> QED BY <1>2, <1>3, <1>4, <1>5

\* An insertion keeps the invariant, whichever way the ledger is synchronized.
LEMMA InsertEInv ==
  ASSUME DP!DInv, Ordered, Ordered', EInv, Runs, bodies \subseteq bodies', Inserts
  PROVE  EInv'
<1>1. PICK b, txs : b \in DP!Header /\ Dag!Insert(b, b.time) /\ InsertBlock(b, txs)
  BY DEF Inserts
<1>2. /\ Held' = Held \cup {b.id} /\ b.id \notin Held
      /\ \A x \in Held : /\ Order(x)' = Order(x) /\ OrderLen(x)' = OrderLen(x)
                         /\ nodes'[x].height = nodes[x].height
  BY <1>1, OrdersStay
<1>3. /\ payload' = [x \in Held \cup {b.id} |-> IF x = b.id THEN txs ELSE payload[x]]
      /\ SyncLedger(BestPages')
  BY <1>1, Zenon DEF InsertBlock
<1>4. Recalls /\ DOMAIN payload' = Held'
  BY <1>2, <1>3 DEF Recalls
<1>5. Stands /\ EndsAtABlock
  BY DEF EInv
<1> DEFINE extends == ExtendsFrontier(BestPages')
           suffix == Turn(SubSeq(BestPages', ledger.applied + 1, Len(BestPages')), Current)
           replay == Turn(BestPages', Blank)
           r == IF extends THEN suffix ELSE replay
<1>6. /\ ledger' = IF extends \/ r.ok THEN r.ledger ELSE ledger
      /\ frontier' = IF extends \/ r.ok THEN r.frontier ELSE frontier
      /\ trackers' = r.trackers /\ checks' = r.checks
      /\ breach' = IF r.ok THEN "none" ELSE "ledger"
  BY <1>3, Zenon DEF SyncLedger
<1> HIDE DEF suffix, replay
<1>7. Runs' => r.ok
  BY <1>6 DEF Runs
<1>8. CASE extends
  <2>1. EndsAtABlock' /\ (suffix.ok => Stands')
    <3>1. /\ ledger' = suffix.ledger /\ frontier' = suffix.frontier
          /\ trackers' = suffix.trackers /\ checks' = suffix.checks
      BY <1>6, <1>8
    <3>2. suffix = Turn(SubSeq(BestPages', ledger.applied + 1, Len(BestPages')), Current)
      BY DEF suffix
    <3> QED BY <1>4, <1>5, <1>8, <3>1, <3>2, SuffixApplied
  <2> QED BY <1>4, <1>7, <1>8, <2>1 DEF EInv
<1>9. CASE ~extends /\ replay.ok
  <2>1. /\ ledger' = replay.ledger /\ frontier' = replay.frontier
        /\ trackers' = replay.trackers /\ checks' = replay.checks
    BY <1>6, <1>9
  <2>2. replay = Turn(BestPages', Blank)
    BY DEF replay
  <2>3. EndsAtABlock' /\ Stands'
    BY <1>9, <2>1, <2>2, OrderReplayed
  <2> QED BY <1>4, <2>3 DEF EInv
<1>10. CASE ~extends /\ ~replay.ok
  <2>1. UNCHANGED <<ledger, frontier>>
    BY <1>6, <1>10
  <2>2. EndsAtABlock'
    BY <1>2, <1>4, <1>5, <2>1, StillReaches DEF EndsAtABlock
  <2> QED BY <1>4, <1>7, <1>10, <2>2 DEF EInv
<1> QED BY <1>8, <1>9, <1>10

\* What module DagOrder lists, as a function of the table of nodes.
ViewIn(N, x) == N[x].past \cup {x}

FreshIn(N, x) ==
    LET S == ViewIn(N, x) \ ViewIn(N, N[x].sp)
        Earlier(y, z) == \/ N[y].height < N[z].height
                         \/ N[y].height = N[z].height /\ y < z
    IN  [i \in 1 .. Cardinality(S) |->
           CHOOSE z \in S : Cardinality({y \in S : Earlier(y, z)}) = i - 1]

OrderIn(N, x) ==
    LET listed[y \in DOMAIN N] ==
            IF N[y].sp = Dag!Zero THEN <<y>> ELSE listed[N[y].sp] \o FreshIn(N, y)
    IN  listed[x]

\* The order of a block is a function of the blocks alone.
LEMMA OrderIsIn ==
  ASSUME NEW x
  PROVE  Order(x) = OrderIn(nodes, x) /\ Order(x)' = OrderIn(nodes', x)
<1>1. Order(x) = OrderIn(nodes, x)
  BY Zenon DEF Order, Dag!ConsensusOrder, OrderIn, Dag!Fresh, FreshIn, Dag!Sorted, Dag!View, ViewIn,
               Dag!ByHeightThenId, Dag!Held, Dag!Zero, Dag!Cardinality, Cardinality
<1>2. Order(x)' = OrderIn(nodes', x)
  BY Zenon DEF Order, Dag!ConsensusOrder, OrderIn, Dag!Fresh, FreshIn, Dag!Sorted, Dag!View, ViewIn,
               Dag!ByHeightThenId, Dag!Held, Dag!Zero, Dag!Cardinality, Cardinality
<1> QED BY <1>1, <1>2

\* So does a step that orders nothing.
LEMMA LeaveEInv ==
  ASSUME Ordered, Ordered', EInv, LeavesOrder, bodies \subseteq bodies',
         Runs' => Runs
  PROVE  EInv'
<1>1. /\ nodes' = nodes /\ tips' = tips /\ payload' = payload /\ ledger' = ledger
      /\ frontier' = frontier /\ trackers' = trackers /\ checks' = checks
  BY DEF LeavesOrder, dagVars, stateVars
<1>2. Held' = Held
  BY <1>1 DEF Held
<1>3. \A x : Order(x)' = Order(x) /\ OrderLen(x)' = OrderLen(x)
  <2>1. ASSUME NEW x PROVE Dag!View(x)' = Dag!View(x)
    BY <1>1, Zenon DEF Dag!View
  <2>2. ASSUME NEW x PROVE Order(x)' = Order(x)
    <3>1. OrderIn(nodes', x) = OrderIn(nodes, x)
      BY <1>1
    <3> QED BY <3>1, OrderIsIn
  <2> QED BY <2>1, <2>2 DEF OrderLen
<1>4. Best' = Best
  BY <1>1, Zenon DEF Best, Dag!IsBestTip, Dag!Precedes
<1>5. Recalls
  BY <1>1, <1>2, <1>3 DEF Recalls
<1>6. EndsAtABlock'
  BY <1>1, <1>2, <1>5, StillReaches DEF EInv, EndsAtABlock
<1>7. ASSUME Runs' PROVE Stands'
  <2>1. Stands /\ Best \in Held
    BY <1>7 DEF EInv, Ordered
  <2>2. PICK g : Reaches(Best, g) /\ g[OrderLen(Best)] = Current
    BY <2>1 DEF Stands
  <2>3. Reaches(Best, g)'
    <3>1. PICK t \in Held : t = Best
      BY <2>1
    <3>2. Reaches(t, g)'
      BY <1>1, <1>5, <2>2, <3>1, StillReaches
    <3> QED BY <1>4, <3>1, <3>2 DEF Reaches, Order, PagesOf, OrderLen
  <2>4. Current' = Current
    BY <1>1 DEF Current
  <2>5. OrderLen(Best)' = OrderLen(Best)
    BY <1>3, <1>4 DEF OrderLen
  <2> QED BY <1>1, <1>4, <2>1, <2>2, <2>3, <2>4, <2>5 DEF Stands
<1> QED BY <1>1, <1>2, <1>6, <1>7 DEF EInv

\* So does every step.
LEMMA EngineStep ==
  ASSUME DP!DInv, Ordered, Ordered', EInv, [Next]_vars
  PROVE  EInv'
<1>1. CASE UNCHANGED vars
  <2>1. LeavesOrder /\ bodies' = bodies /\ breach' = breach
    BY <1>1 DEF vars, LeavesOrder
  <2>2. Runs' => Runs
    BY <2>1 DEF Runs
  <2> QED BY <2>1, <2>2, LeaveEInv
<1>2. CASE Next
  <2>1. /\ Runs /\ bodies \subseteq bodies'
        /\ Inserts \/ LeavesOrder
    BY <1>2, StepKinds
  <2> QED BY <2>1, InsertEInv, LeaveEInv
<1> QED BY <1>1, <1>2

\* A wallet follows nothing in an empty payload.
LEMMA NothingFollowed == Followed(NoTrackers, 0, {}) = NoTrackers
<1> DEFINE s == Dag!Sorted({}, Before)
           OneTx(w, acc, t) ==
             Debit(CreditAll(acc, w, t, IF t.coinbase THEN 0 ELSE NoSlot), Claims(t))
           it(w) == CHOOSE it : it = [T \in SUBSET (DOMAIN s) |->
                      IF T = {} THEN NoTrackers[w] ELSE OneTx(w, it[T \ {Max(T)}], s[Max(T)])]
<1>1. Followed(NoTrackers, 0, {}) = [w \in Wallets |-> it(w)[DOMAIN s]]
  BY Zenon DEF Followed, FoldLeft, MapThenFoldSet
<1>2. DOMAIN s = {}
  <2>1. Cardinality({}) = 0
    BY FS_EmptySet
  <2> DEFINE F(i) == CHOOSE x \in {} : Cardinality({y \in {} : Before(y, x)}) = i - 1
  <2>2. s = [i \in 1 .. Cardinality({}) |-> F(i)]
    BY Zenon DEF Dag!Sorted, Dag!Cardinality, Cardinality
  <2> HIDE DEF s, F
  <2> QED BY <2>1, <2>2
<1> HIDE DEF s, OneTx
<1>3. ASSUME NEW w PROVE it(w)[DOMAIN s] = NoTrackers[w]
  <2> DEFINE base == NoTrackers[w]
             f == [T \in SUBSET (DOMAIN s) |-> base]
             k == it(w)
  <2>1. \A T \in SUBSET (DOMAIN s) : T = {}
    BY <1>2
  <2>2. f = [T \in SUBSET (DOMAIN s) |->
               IF T = {} THEN base ELSE OneTx(w, f[T \ {Max(T)}], s[Max(T)])]
    BY <2>1
  <2> HIDE DEF base, f
  <2>3. \E h : h = [T \in SUBSET (DOMAIN s) |->
               IF T = {} THEN base ELSE OneTx(w, h[T \ {Max(T)}], s[Max(T)])]
    BY <2>2
  <2>4. k = [T \in SUBSET (DOMAIN s) |->
               IF T = {} THEN base ELSE OneTx(w, k[T \ {Max(T)}], s[Max(T)])]
    BY <2>3, Zenon DEF base
  <2> HIDE DEF k
  <2>5. {} \in SUBSET (DOMAIN s)
    OBVIOUS
  <2>6. k[{}] = base
    BY <2>4, <2>5
  <2> QED BY <1>2, <2>6 DEF base, k
<1> HIDE DEF it
<1>4. [w \in Wallets |-> it(w)[DOMAIN s]] = [w \in Wallets |-> NoTrackers[w]]
  BY <1>3
<1>5. NoTrackers = [w \in Wallets |-> NoTrackers[w]]
  BY DEF NoTrackers
<1> QED BY <1>1, <1>4, <1>5

\* The genesis alone is a replay of its order.
LEMMA InitEInv ==
  ASSUME Init, Ordered
  PROVE  EInv
<1>1. /\ Held = {Genesis} /\ payload = [b \in {Genesis} |-> {}] /\ nodes[Genesis].height = 0
      /\ ledger = Commit(New, {}) /\ frontier = Genesis /\ trackers = NoTrackers /\ checks = NoChecks
  BY DEF Init, Dag!Init, Dag!GenesisNode, Held
<1>2. Best = Genesis /\ Genesis \in Held
  BY <1>1 DEF Ordered
<1>3. OrderLen(Genesis) = 1
  <2>1. Dag!View(Genesis) = {Genesis}
    BY DEF Init, Dag!Init, Dag!GenesisNode, Dag!View
  <2> QED BY <2>1, FS_Singleton DEF OrderLen
<1>4. Order(Genesis)[1] = Genesis
  BY <1>2, <1>3 DEF Ordered
<1>5. PagesOf(Genesis)[1] = [id |-> Genesis, height |-> 0, txs |-> {}, whole |-> TRUE]
  <2>1. PagesOf(Genesis)[1] = Page(Genesis)
    BY <1>2, <1>3, <1>4, PagesAre
  <2> QED BY <1>1, <2>1 DEF Page
<1> DEFINE page == PagesOf(Genesis)[1]
           g == [i \in 0 .. 1 |-> IF i = 0 THEN Blank ELSE Current]
<1>6. TakesPage(Blank, page)
  BY <1>5 DEF TakesPage, BlockHolds
<1>7. Taken(Blank, page) = Current
  <2>1. Taken(Blank, page) =
          [ledger |-> Commit(New, {}), trackers |-> Followed(NoTrackers, 0, {}),
           checks |-> SlotApplied(NoChecks, 0), frontier |-> Genesis, ok |-> TRUE]
    <3>1. Blank.ledger = New /\ Blank.trackers = NoTrackers /\ Blank.checks = NoChecks /\ New.applied = 0
      BY DEF Blank, New
    <3>2. page.txs = {} /\ page.id = Genesis
      BY <1>5
    <3> QED BY <3>1, <3>2, Zenon DEF Taken
  <2>2. SlotApplied(NoChecks, 0) = NoChecks
    BY DEF SlotApplied
  <2> QED BY <1>1, <2>1, <2>2, NothingFollowed, Zenon DEF Current
<1>8. ledger.applied = 1
  BY <1>1 DEF Commit, New
<1>9. OkRun(PagesOf(Genesis), 1, Blank, g)
  <2>1. g[0] = Blank /\ g[1] = Current
    OBVIOUS
  <2> HIDE DEF g
  <2>2. ASSUME NEW i \in 1 .. 1
        PROVE  TakesPage(g[i - 1], PagesOf(Genesis)[i]) /\ g[i] = Taken(g[i - 1], PagesOf(Genesis)[i])
    <3>1. i = 1 /\ i - 1 = 0
      OBVIOUS
    <3> QED BY <1>6, <1>7, <2>1, <3>1
  <2> QED BY <2>1, <2>2 DEF OkRun
<1>10. g[1] = Current /\ g[1].ledger = ledger
  BY DEF Current
<1> HIDE DEF g
<1>11. Reaches(Best, g)
  BY <1>1, <1>2, <1>3, <1>4, <1>8, <1>9, <1>10 DEF Reaches
<1>12. Stands
  BY <1>1, <1>2, <1>3, <1>8, <1>10, <1>11 DEF Stands
<1> QED BY <1>1, <1>2, <1>11, <1>12 DEF EInv, EndsAtABlock

\* The ordering layer keeps its invariant under the engine.
LEMMA DagAlways == Spec => [](DP!DInv /\ Ordered)
<1>1. Init => DP!DInv
  BY SameRules, DP!InitDInv DEF Init
<1>2. DP!DInv /\ [Next]_vars => DP!DInv'
  BY DagIsOrdered, DagStep
<1>3. Spec => []DP!DInv
  BY <1>1, <1>2, PTL DEF Spec
<1> QED BY <1>3, DagIsOrdered, PTL

\* The engine keeps its invariant.
LEMMA EngineAlways == Spec => []EInv
<1>1. Init => EInv
  BY SameRules, DP!InitDInv, DagIsOrdered, InitEInv DEF Init
<1>2. DP!DInv /\ Ordered /\ Ordered' /\ EInv /\ [Next]_vars => EInv'
  BY EngineStep
<1> QED BY <1>1, <1>2, DagAlways, PTL DEF Spec

\* A running node stands at the best tip, and the ledger, the trackers and the
\* recomputed emission are those of a replay of the best order from nothing
\* (engine.rs, sync_ledger).
THEOREM IncrementalIsRebuilt == Spec => []RunningNodeIsTheReplay
<1>1. Ordered /\ EInv => RunningNodeIsTheReplay
  <2> SUFFICES ASSUME Ordered, EInv, Runs
               PROVE  frontier = Best /\ Current = Turn(BestPages, Blank)
    BY DEF RunningNodeIsTheReplay
  <2>1. Stands /\ Best \in Held
    BY DEF EInv, Ordered
  <2>2. PICK g : Reaches(Best, g) /\ g[OrderLen(Best)] = Current
    BY <2>1 DEF Stands
  <2>3. BestPages = PagesOf(Best)
    BY DEF BestPages, PagesOf, BestOrder, Order
  <2>4. DOMAIN PagesOf(Best) = 1 .. OrderLen(Best) /\ OrderLen(Best) \in Nat
    BY <2>1, PagesAre DEF Ordered
  <2>5. OkRun(PagesOf(Best), OrderLen(Best), Blank, g)
    BY <2>1, <2>2 DEF Stands, Reaches
  <2>6. IsState(Blank) /\ Blank.ledger.applied \in Nat
    BY BlankIsNew
  <2>7. Turn(PagesOf(Best), Blank) = g[OrderLen(Best)]
    BY <2>4, <2>5, <2>6, RunIsTurn
  <2> QED BY <2>1, <2>2, <2>3, <2>7 DEF Stands
<1> QED BY <1>1, DagAlways, EngineAlways, PTL

\* Whatever was refused, the ledger is the replay of the order of a held block
\* up to the frontier.
THEOREM LedgerIsAPrefix == Spec => []LedgerEndsAtTheFrontier
<1>1. Ordered /\ EInv => LedgerEndsAtTheFrontier
  <2> SUFFICES ASSUME Ordered, EInv PROVE LedgerEndsAtTheFrontier
    OBVIOUS
  <2>0. PICK t \in Held : \E g : Reaches(t, g)
    BY DEF EInv, EndsAtABlock
  <2>1. PICK g : Reaches(t, g)
    BY <2>0
  <2> DEFINE n == ledger.applied
             pages == [i \in 1 .. n |-> Page(Order(t)[i])]
  <2>2. n \in Nat /\ n \in 1 .. OrderLen(t) /\ OrderLen(t) \in Nat /\ Len(Order(t)) = OrderLen(t)
    BY <2>1 DEF Reaches, Ordered
  <2>3. OkRun(PagesOf(t), n, Blank, g)
    BY <2>1 DEF Reaches
  <2>4. \A i \in 1 .. n : SamePage(PagesOf(t)[i], pages[i])
    <3>1. \A i \in 1 .. n : i \in 1 .. OrderLen(t)
      BY <2>2
    <3> QED BY <3>1, PagesAre DEF SamePage
  <2>5. DOMAIN pages = 1 .. n
    OBVIOUS
  <2> HIDE DEF n, pages
  <2>6. OkRun(pages, n, Blank, g)
    BY <2>2, <2>3, <2>4, RunPersists
  <2>7. IsState(Blank) /\ Blank.ledger.applied \in Nat
    BY BlankIsNew
  <2>8. Turn(pages, Blank) = g[n]
    BY <2>2, <2>5, <2>6, <2>7, RunIsTurn
  <2>9. /\ Len(Order(t)) >= n /\ Order(t)[n] = frontier /\ Turn(pages, Blank).ledger = ledger
    BY <2>1, <2>2, <2>8 DEF Reaches, n
  <2> QED BY <2>9 DEF LedgerEndsAtTheFrontier, Order, pages, n
<1> QED BY <1>1, DagAlways, EngineAlways, PTL

----------------------------------------------------------------------------
(* The mempool.                                                            *)

\* What the mempool's operations do to the engine's pool and claims.
LEMMA SamePool ==
  /\ \A taken : MP!Take(taken) <=> pool' = pool \ taken /\ claimed' = claimed \ Consumed(taken)
  /\ \A t : MP!Admit(t) <=> pool' = pool \cup {t} /\ claimed' = claimed \cup Claims(t)
  /\ \A taken, max : MP!IsTaken(taken, max) => taken \subseteq pool
<1>1. ASSUME NEW taken
      PROVE  MP!Take(taken) <=> pool' = pool \ taken /\ claimed' = claimed \ Consumed(taken)
  BY Zenon DEF MP!Take, MP!Consumed, MP!Claims, Consumed, Claims
<1>2. ASSUME NEW t
      PROVE  MP!Admit(t) <=> pool' = pool \cup {t} /\ claimed' = claimed \cup Claims(t)
  BY Zenon DEF MP!Admit, MP!Claims, Claims
<1>3. \A taken, max : MP!IsTaken(taken, max) => taken \subseteq pool
  BY Zenon DEF MP!IsTaken
<1> QED BY <1>1, <1>2, <1>3

\* What a step does to the pool: a part of it leaves, or a transfer enters
\* whose inputs are not claimed, or nothing changes.
LEMMA PoolSteps ==
  ASSUME [Next]_vars
  PROVE  \/ UNCHANGED poolVars
         \/ \E taken \in SUBSET pool : pool' = pool \ taken /\ claimed' = claimed \ Consumed(taken)
         \/ \E t : /\ pool' = pool \cup {t} /\ claimed' = claimed \cup Claims(t)
                  /\ Claims(t) # {} /\ Claims(t) \cap claimed = {}
                  /\ ~t.coinbase
<1>1. CASE UNCHANGED vars
  BY <1>1 DEF vars
<1>2. ASSUME NEW taken \in SUBSET pool, MP!Take(taken)
      PROVE  \E part \in SUBSET pool : pool' = pool \ part /\ claimed' = claimed \ Consumed(part)
  BY <1>2, SamePool
<1>3. CASE \E id \in Ids \ Held, time \in Times : MineAndApply(id, time)
  <2>1. \E transfers \in SUBSET pool : MP!Take(transfers)
    BY <1>3, Zenon DEF MineAndApply
  <2> QED BY <1>2, <2>1
<1>4. CASE MiningExhausted
  <2>1. \E transfers \in SUBSET pool : MP!Take(transfers)
    BY <1>4, Zenon DEF MiningExhausted
  <2> QED BY <1>2, <2>1
<1>5. CASE \E id \in Ids \ Held, parents \in SUBSET Held, time \in Times : RemoteBlock(id, parents, time)
  BY <1>5, Zenon DEF RemoteBlock
<1>6. CASE ActivityMiner \/ ActivityAlice
  <2>1. \E wallet, destination, n : Activity(wallet, destination, n)
    BY <1>6, Zenon DEF ActivityMiner, ActivityAlice
  <2>2. \/ UNCHANGED poolVars
        \/ \E w, ref, v, d, amount : LET t == SpendOne(w, ref, v, d, amount)
                                     IN  Submits(t) /\ MP!Admit(t)
    BY <2>1, Zenon DEF Activity
  <2>3. ASSUME NEW w, NEW ref, NEW v, NEW d, NEW amount,
               Submits(SpendOne(w, ref, v, d, amount)), MP!Admit(SpendOne(w, ref, v, d, amount))
        PROVE  \E t : /\ pool' = pool \cup {t} /\ claimed' = claimed \cup Claims(t)
                     /\ Claims(t) # {} /\ Claims(t) \cap claimed = {}
                     /\ ~t.coinbase
    <3> DEFINE t == SpendOne(w, ref, v, d, amount)
    <3>1. t.inputs = {[ref |-> ref, key |-> w]} /\ t.coinbase = FALSE
      BY DEF SpendOne
    <3>2. Claims(t) = {ref}
      BY <3>1 DEF Claims
    <3>3. \A input \in t.inputs : input.ref \notin claimed
      BY <2>3, Zenon DEF Submits, MP!Admits
    <3>4. ref \notin claimed
      BY <3>1, <3>3
    <3>5. pool' = pool \cup {t} /\ claimed' = claimed \cup Claims(t)
      BY <2>3, SamePool
    <3> HIDE DEF t
    <3> QED BY <3>1, <3>2, <3>4, <3>5
  <2> QED BY <2>2, <2>3
<1>7. CASE Next
  <2>1. \/ \E id \in Ids \ Held, time \in Times : MineAndApply(id, time)
        \/ MiningExhausted
        \/ \E id \in Ids \ Held, parents \in SUBSET Held, time \in Times : RemoteBlock(id, parents, time)
        \/ ActivityMiner \/ ActivityAlice
    BY <1>7, Zenon DEF Next
  <2> QED BY <1>3, <1>4, <1>5, <1>6, <2>1
<1> QED BY <1>1, <1>7

\* The claims of the mempool are the inputs of its transactions, each claimed
\* by one of them: a claim is released with its transaction and with no other
\* (mempool.rs, submit and take_for_block).
THEOREM ClaimsExact == Spec => []ClaimsAreExact
<1>1. Init => ClaimsAreExact
  BY DEF Init, ClaimsAreExact, Consumed
<1>2. ClaimsAreExact /\ [Next]_vars => ClaimsAreExact'
  <2> SUFFICES ASSUME ClaimsAreExact, [Next]_vars PROVE ClaimsAreExact'
    OBVIOUS
  <2>1. /\ claimed = Consumed(pool)
        /\ \A t, u \in pool : t # u => Claims(t) \cap Claims(u) = {}
    BY DEF ClaimsAreExact
  <2>2. CASE UNCHANGED poolVars
    BY <2>1, <2>2 DEF poolVars, ClaimsAreExact
  <2>3. CASE \E taken \in SUBSET pool : pool' = pool \ taken /\ claimed' = claimed \ Consumed(taken)
    <3>1. PICK taken \in SUBSET pool : pool' = pool \ taken /\ claimed' = claimed \ Consumed(taken)
      BY <2>3
    <3>2. Consumed(pool) \ Consumed(taken) = Consumed(pool \ taken)
      <4>1. ASSUME NEW x PROVE x \in Consumed(pool) \ Consumed(taken) <=> x \in Consumed(pool \ taken)
        <5>1. \A S : x \in Consumed(S) <=> \E t \in S : x \in Claims(t)
          BY DEF Consumed
        <5>2. \A t, u \in pool : x \in Claims(t) /\ x \in Claims(u) => t = u
          BY <2>1
        <5> QED BY <5>1, <5>2
      <4> QED BY <4>1
    <3>3. claimed' = Consumed(pool')
      BY <2>1, <3>1, <3>2
    <3> QED BY <2>1, <3>1, <3>3 DEF ClaimsAreExact
  <2>4. CASE \E t : /\ pool' = pool \cup {t} /\ claimed' = claimed \cup Claims(t)
                   /\ Claims(t) # {} /\ Claims(t) \cap claimed = {} /\ ~t.coinbase
    <3>1. PICK t : /\ pool' = pool \cup {t} /\ claimed' = claimed \cup Claims(t)
                   /\ Claims(t) # {} /\ Claims(t) \cap claimed = {}
      BY <2>4
    <3>2. Consumed(pool \cup {t}) = Consumed(pool) \cup Claims(t)
      BY DEF Consumed
    <3>3. \A u \in pool : Claims(u) \subseteq Consumed(pool)
      BY DEF Consumed
    <3>4. claimed' = Consumed(pool')
      BY <2>1, <3>1, <3>2
    <3> QED BY <2>1, <3>1, <3>3, <3>4 DEF ClaimsAreExact
  <2> QED BY <2>2, <2>3, <2>4, PoolSteps
<1> QED BY <1>1, <1>2, PTL DEF Spec

----------------------------------------------------------------------------
(* The trackers.                                                           *)

\* The trackers of the outputs refs.
Trackers(refs) == Seq([ref : refs, amount : Nat, slot : Int, spent : BOOLEAN])

\* A tracker has one credit for each of the outputs refs, debited when the
\* output is one of spent.
Tracks(tr, refs, spent) ==
    /\ tr \in Trackers(refs)
    /\ \A ref \in refs : \E i \in DOMAIN tr : tr[i].ref = ref
    /\ \A i, j \in DOMAIN tr : tr[i].ref = tr[j].ref => i = j
    /\ \A i \in DOMAIN tr : /\ tr[i].amount = OutputAt(tr[i].ref).amount
                            /\ tr[i].spent <=> tr[i].ref \in spent

\* The tracker of more outputs.
LEMMA TrackerGrows ==
  ASSUME NEW refs, NEW more, refs \subseteq more, NEW tr \in Trackers(refs)
  PROVE  tr \in Trackers(more)
<1> DEFINE C == [ref : refs, amount : Nat, slot : Int, spent : BOOLEAN]
           E == [ref : more, amount : Nat, slot : Int, spent : BOOLEAN]
<1>1. tr \in Seq(C) /\ C \subseteq E
  BY DEF Trackers
<1> HIDE DEF C, E
<1>2. tr \in Seq(E)
  BY <1>1
<1> QED BY <1>2 DEF Trackers, E

\* A credit is one more entry, or none.
LEMMA CreditType ==
  ASSUME NEW refs, NEW tr \in Trackers(refs), NEW ref \in refs, OutputAt(ref).amount \in Nat,
         NEW slot \in Int
  PROVE  Credit(tr, ref, slot) \in Trackers(refs)
<1> DEFINE E == [ref : refs, amount : Nat, slot : Int, spent : BOOLEAN]
           e == [ref |-> ref, amount |-> OutputAt(ref).amount, slot |-> slot, spent |-> FALSE]
<1>1. tr \in Seq(E) /\ e \in E
  BY DEF Trackers
<1>2. Credit(tr, ref, slot) \in {tr, Append(tr, e)}
  BY DEF Credit
<1> HIDE DEF E, e
<1>3. Append(tr, e) \in Seq(E)
  BY <1>1
<1> QED BY <1>1, <1>2, <1>3 DEF Trackers, E

\* A credit to a new output extends what the tracker follows.
LEMMA Credited ==
  ASSUME NEW refs, NEW spent, NEW tr, Tracks(tr, refs, spent),
         NEW ref, ref \notin refs, ref \notin spent, OutputAt(ref).amount \in Nat, NEW slot \in Int
  PROVE  Tracks(Credit(tr, ref, slot), refs \cup {ref}, spent)
<1> DEFINE more == refs \cup {ref}
           E == [ref : more, amount : Nat, slot : Int, spent : BOOLEAN]
           e == [ref |-> ref, amount |-> OutputAt(ref).amount, slot |-> slot, spent |-> FALSE]
           n == Len(tr)
           new == Append(tr, e)
<1>1. tr \in Trackers(more) /\ tr \in Seq(E) /\ e \in E
  <2>1. tr \in Trackers(refs) /\ refs \subseteq more
    BY DEF Tracks
  <2>2. tr \in Trackers(more)
    BY <2>1, TrackerGrows
  <2> QED BY <2>2 DEF Trackers
<1>2. n \in Nat /\ DOMAIN tr = 1 .. n
  BY <1>1
<1>3. \A i \in 1 .. n : tr[i].ref \in refs
  <2> DEFINE C == [ref : refs, amount : Nat, slot : Int, spent : BOOLEAN]
  <2>1. tr \in Seq(C) /\ \A c \in C : c.ref \in refs
    BY DEF Tracks, Trackers
  <2> HIDE DEF C
  <2>2. \A i \in 1 .. n : tr[i] \in C
    BY <1>2, <2>1
  <2> QED BY <2>1, <2>2
<1>4. Credit(tr, ref, slot) = new
  <2>1. ~Knows(tr, ref)
    BY <1>2, <1>3 DEF Knows
  <2> QED BY <2>1 DEF Credit
<1>5. e.ref = ref /\ e.amount = OutputAt(ref).amount /\ e.spent = FALSE
  OBVIOUS
<1> HIDE DEF E, e
<1>6. /\ new \in Seq(E) /\ DOMAIN new = 1 .. n + 1
      /\ \A i \in 1 .. n : new[i] = tr[i]
      /\ new[n + 1] = e
  BY <1>1, <1>2
<1> HIDE DEF n, new
<1>7. new \in Trackers(more)
  BY <1>6 DEF Trackers, E
<1>8. \A i \in 1 .. n + 1 : i \in 1 .. n \/ i = n + 1
  BY <1>2
<1>9. \A r \in more : \E i \in DOMAIN new : new[i].ref = r
  <2>1. ASSUME NEW r \in refs PROVE \E i \in 1 .. n + 1 : new[i].ref = r
    <3>1. PICK i \in 1 .. n : tr[i].ref = r
      BY <1>2 DEF Tracks
    <3>2. i \in 1 .. n + 1
      BY <1>2
    <3> QED BY <1>6, <3>1, <3>2
  <2>2. new[n + 1].ref = ref /\ n + 1 \in 1 .. n + 1
    BY <1>2, <1>5, <1>6
  <2> QED BY <1>6, <2>1, <2>2
<1>10. ASSUME NEW i \in 1 .. n + 1, NEW j \in 1 .. n + 1, new[i].ref = new[j].ref PROVE i = j
  <2>1. CASE i \in 1 .. n /\ j \in 1 .. n
    BY <1>2, <1>6, <1>10, <2>1 DEF Tracks
  <2>2. CASE i = n + 1 /\ j \in 1 .. n
    BY <1>3, <1>5, <1>6, <1>10, <2>2
  <2>3. CASE i \in 1 .. n /\ j = n + 1
    BY <1>3, <1>5, <1>6, <1>10, <2>3
  <2> QED BY <1>8, <2>1, <2>2, <2>3
<1>11. ASSUME NEW i \in 1 .. n + 1
       PROVE  new[i].amount = OutputAt(new[i].ref).amount /\ (new[i].spent <=> new[i].ref \in spent)
  <2>1. CASE i \in 1 .. n
    <3>1. new[i] = tr[i] /\ i \in DOMAIN tr
      BY <1>2, <1>6, <2>1
    <3> QED BY <3>1, Zenon DEF Tracks
  <2>2. CASE i = n + 1
    BY <1>5, <1>6, <2>2
  <2> QED BY <1>8, <2>1, <2>2
<1> QED BY <1>4, <1>6, <1>7, <1>9, <1>10, <1>11, Zenon DEF Tracks, more

\* A debit marks what it names and keeps the rest.
LEMMA Debits ==
  ASSUME NEW refs, NEW tr \in Trackers(refs), NEW taken
  PROVE  /\ Debit(tr, taken) \in Trackers(refs)
         /\ DOMAIN Debit(tr, taken) = DOMAIN tr
         /\ \A i \in DOMAIN tr :
              /\ Debit(tr, taken)[i].ref = tr[i].ref
              /\ Debit(tr, taken)[i].amount = tr[i].amount
              /\ Debit(tr, taken)[i].spent <=> tr[i].spent \/ tr[i].ref \in taken
<1> DEFINE E == [ref : refs, amount : Nat, slot : Int, spent : BOOLEAN]
           n == Len(tr)
           d == Debit(tr, taken)
<1>1. tr \in Seq(E)
  BY DEF Trackers
<1>2. n \in Nat /\ DOMAIN tr = 1 .. n /\ \A i \in 1 .. n : tr[i] \in E
  <2> HIDE DEF E
  <2> QED BY <1>1
<1>3. d = [i \in 1 .. n |-> IF tr[i].ref \in taken THEN [tr[i] EXCEPT !.spent = TRUE] ELSE tr[i]]
  BY <1>2 DEF Debit
<1>4. ASSUME NEW i \in 1 .. n
      PROVE  /\ d[i] \in E /\ d[i].ref = tr[i].ref /\ d[i].amount = tr[i].amount
             /\ d[i].spent <=> tr[i].spent \/ tr[i].ref \in taken
  <2>1. tr[i] \in E
    BY <1>2
  <2>2. CASE tr[i].ref \in taken
    <3>1. d[i] = [tr[i] EXCEPT !.spent = TRUE]
      BY <1>3, <2>2
    <3> HIDE DEF d
    <3> QED BY <2>1, <2>2, <3>1
  <2>3. CASE tr[i].ref \notin taken
    BY <1>3, <2>1, <2>3
  <2> QED BY <2>2, <2>3
<1>5. DOMAIN d = 1 .. n
  BY <1>3
<1> HIDE DEF d, n, E
<1>6. d = [i \in 1 .. n |-> d[i]]
  BY <1>3
<1>7. d \in Seq(E)
  BY <1>2, <1>4, <1>6, IsASeq
<1> QED BY <1>2, <1>4, <1>5, <1>7 DEF Trackers, d, E

\* A debit marks what was spent and nothing else.
LEMMA Debited ==
  ASSUME NEW refs, NEW spent, NEW tr, Tracks(tr, refs, spent), NEW taken
  PROVE  Tracks(Debit(tr, taken), refs, spent \cup taken)
<1> DEFINE d == Debit(tr, taken)
<1>1. tr \in Trackers(refs)
  BY DEF Tracks
<1>2. /\ d \in Trackers(refs) /\ DOMAIN d = DOMAIN tr
      /\ \A i \in DOMAIN tr : /\ d[i].ref = tr[i].ref /\ d[i].amount = tr[i].amount
                              /\ d[i].spent <=> tr[i].spent \/ tr[i].ref \in taken
  BY <1>1, Debits
<1> HIDE DEF d
<1>3. \A ref \in refs : \E i \in DOMAIN tr : tr[i].ref = ref
  BY DEF Tracks
<1>4. \A i, j \in DOMAIN tr : tr[i].ref = tr[j].ref => i = j
  BY DEF Tracks
<1>5. \A i \in DOMAIN tr : /\ tr[i].amount = OutputAt(tr[i].ref).amount
                           /\ tr[i].spent <=> tr[i].ref \in spent
  BY Zenon DEF Tracks
<1>6. \A ref \in refs : \E i \in DOMAIN d : d[i].ref = ref
  BY <1>2, <1>3
<1>7. \A i, j \in DOMAIN d : d[i].ref = d[j].ref => i = j
  BY <1>2, <1>4
<1>8. \A i \in DOMAIN d : /\ d[i].amount = OutputAt(d[i].ref).amount
                          /\ d[i].spent <=> d[i].ref \in spent \cup taken
  BY <1>2, <1>5
<1> QED BY <1>2, <1>6, <1>7, <1>8 DEF Tracks, d

----------------------------------------------------------------------------
(* The credits of a transaction.                                           *)

Pay(tr, w, t, slot, i) == IF t.outputs[i].to = w THEN Credit(tr, <<t, i>>, slot) ELSE tr

\* g tells what the loop over the outputs has after each.
Pays(tr, w, t, slot, n, g) ==
    /\ g[0] = tr /\ CreditAll(tr, w, t, slot) = g[n]
    /\ \A i \in 1 .. n : g[i] = Pay(g[i - 1], w, t, slot, i)

\* A transaction whose outputs are a list.
HasList(t, n) == DOMAIN t.outputs = 1 .. n /\ \A i \in 1 .. n : t.outputs[i].amount \in Nat

\* Crediting a transaction is crediting its outputs one after the other.
LEMMA PaySteps ==
  ASSUME NEW n \in Nat, NEW t, HasList(t, n), NEW refs, RefsOf(t) \subseteq refs,
         NEW tr \in Trackers(refs), NEW w, NEW slot \in Int
  PROVE  \E g : Pays(tr, w, t, slot, n, g)
<1> DEFINE V == Trackers(refs)
           S == SUBSET (1 .. n)
           op == [i \in 1 .. n |-> [v \in V |-> Pay(v, w, t, slot, i)]]
           it == CHOOSE it : it = [T \in SUBSET (DOMAIN [i \in DOMAIN t.outputs |-> i]) |->
                   IF T = {} THEN tr
                   ELSE IF t.outputs[[i \in DOMAIN t.outputs |-> i][Max(T)]].to = w
                        THEN Credit(it[T \ {Max(T)}], <<t, [i \in DOMAIN t.outputs |-> i][Max(T)]>>, slot)
                        ELSE it[T \ {Max(T)}]]
<1>1. CreditAll(tr, w, t, slot) = it[DOMAIN [i \in DOMAIN t.outputs |-> i]]
  BY Zenon DEF CreditAll, FoldLeft, MapThenFoldSet
<1>2. DOMAIN [i \in DOMAIN t.outputs |-> i] = 1 .. n
  BY DEF HasList
<1>3. \A i \in 1 .. n : [j \in DOMAIN t.outputs |-> j][i] = i
  BY DEF HasList
<1>4. ASSUME NEW i \in 1 .. n, NEW v \in V PROVE Pay(v, w, t, slot, i) \in V
  <2>1. <<t, i>> \in refs /\ OutputAt(<<t, i>>).amount \in Nat
    BY DEF HasList, RefsOf, OutputAt
  <2>2. Credit(v, <<t, i>>, slot) \in V
    BY <2>1, CreditType
  <2> QED BY <2>2 DEF Pay
<1> HIDE DEF V
<1>5. PICK h \in [S -> V] : IsLoop(n, tr, op, h)
  <2>1. tr \in V /\ \A i \in 1 .. n : \A v \in V : op[i][v] \in V
    BY <1>4 DEF V
  <2>2. LoopTables(n, V, tr, op) # {}
    <3> HIDE DEF op
    <3> QED BY <2>1, LoopExists
  <2> QED BY <2>2 DEF LoopTables
<1>6. ASSUME NEW T \in S
      PROVE  h[T] = IF T = {} THEN tr ELSE Pay(h[T \ {Max(T)}], w, t, slot, Max(T))
  <2>1. h[T] = IF T = {} THEN tr ELSE op[Max(T)][h[T \ {Max(T)}]]
    BY <1>5 DEF IsLoop
  <2>2. CASE T # {}
    <3>1. Max(T) \in 1 .. n /\ T \ {Max(T)} \in S
      <4>1. Max(T) \in T
        BY <2>2, MaxIs
      <4> QED BY <4>1
    <3>2. h[T \ {Max(T)}] \in V
      BY <3>1
    <3> QED BY <2>1, <2>2, <3>1, <3>2
  <2> QED BY <2>1, <2>2
<1>7. h = [T \in SUBSET (DOMAIN [i \in DOMAIN t.outputs |-> i]) |->
                   IF T = {} THEN tr
                   ELSE IF t.outputs[[i \in DOMAIN t.outputs |-> i][Max(T)]].to = w
                        THEN Credit(h[T \ {Max(T)}], <<t, [i \in DOMAIN t.outputs |-> i][Max(T)]>>, slot)
                        ELSE h[T \ {Max(T)}]]
  <2>1. h = [T \in S |-> h[T]]
    OBVIOUS
  <2>2. ASSUME NEW T \in S, T # {} PROVE [i \in DOMAIN t.outputs |-> i][Max(T)] = Max(T)
    <3>1. Max(T) \in T
      BY <2>2, MaxIs
    <3> QED BY <1>3, <3>1
  <2>3. h = [T \in S |-> IF T = {} THEN tr
                         ELSE IF t.outputs[[i \in DOMAIN t.outputs |-> i][Max(T)]].to = w
                         THEN Credit(h[T \ {Max(T)}], <<t, [i \in DOMAIN t.outputs |-> i][Max(T)]>>, slot)
                         ELSE h[T \ {Max(T)}]]
    <3> DEFINE id == [i \in DOMAIN t.outputs |-> i]
    <3> HIDE DEF id, S
    <3> USE DEF S
    <3>1. ASSUME NEW T \in S
          PROVE h[T] = IF T = {} THEN tr
                         ELSE IF t.outputs[id[Max(T)]].to = w
                         THEN Credit(h[T \ {Max(T)}], <<t, id[Max(T)]>>, slot)
                         ELSE h[T \ {Max(T)}]
      <4>1. T # {} => id[Max(T)] = Max(T)
        BY <2>2, Zenon DEF id
      <4> QED BY <1>6, <4>1, Zenon DEF Pay
    <3> HIDE DEF S
    <3>2. h = [T \in S |-> IF T = {} THEN tr
                         ELSE IF t.outputs[id[Max(T)]].to = w
                         THEN Credit(h[T \ {Max(T)}], <<t, id[Max(T)]>>, slot)
                         ELSE h[T \ {Max(T)}]]
      BY <2>1, <3>1
    <3> QED BY <3>2, Zenon DEF id
  <2> HIDE DEF S
  <2> QED BY <1>2, <2>3, Zenon DEF S
<1>8. it = [T \in SUBSET (DOMAIN [i \in DOMAIN t.outputs |-> i]) |->
                   IF T = {} THEN tr
                   ELSE IF t.outputs[[i \in DOMAIN t.outputs |-> i][Max(T)]].to = w
                        THEN Credit(it[T \ {Max(T)}], <<t, [i \in DOMAIN t.outputs |-> i][Max(T)]>>, slot)
                        ELSE it[T \ {Max(T)}]]
  BY <1>7, Zenon
<1> HIDE DEF it, op
<1>9. \A T \in SUBSET (1 .. n) :
        it[T] = IF T = {} THEN tr ELSE Pay(it[T \ {Max(T)}], w, t, slot, Max(T))
  <2> SUFFICES ASSUME NEW T \in SUBSET (1 .. n)
               PROVE  it[T] = IF T = {} THEN tr ELSE Pay(it[T \ {Max(T)}], w, t, slot, Max(T))
    OBVIOUS
  <2> DEFINE id == [i \in DOMAIN t.outputs |-> i]
  <2>1. it = [X \in SUBSET (1 .. n) |->
                   IF X = {} THEN tr
                   ELSE IF t.outputs[id[Max(X)]].to = w
                        THEN Credit(it[X \ {Max(X)}], <<t, id[Max(X)]>>, slot)
                        ELSE it[X \ {Max(X)}]]
    BY <1>2, <1>8
  <2>2. T # {} => id[Max(T)] = Max(T)
    <3>1. T # {} => Max(T) \in T
      BY MaxIs
    <3> QED BY <1>3, <3>1
  <2> HIDE DEF id
  <2>3. it[T] = IF T = {} THEN tr
                ELSE IF t.outputs[id[Max(T)]].to = w
                     THEN Credit(it[T \ {Max(T)}], <<t, id[Max(T)]>>, slot)
                     ELSE it[T \ {Max(T)}]
    BY <2>1
  <2> QED BY <2>2, <2>3, Zenon DEF Pay
<1> DEFINE f == [i \in 0 .. n |-> it[1 .. i]]
<1>10. f[0] = tr /\ CreditAll(tr, w, t, slot) = f[n]
  <2>1. 1 .. 0 = {} /\ {} \in SUBSET (1 .. n) /\ 0 \in 0 .. n /\ n \in 0 .. n
    OBVIOUS
  <2> QED BY <1>1, <1>2, <1>9, <2>1
<1>11. ASSUME NEW i \in 1 .. n PROVE f[i] = Pay(f[i - 1], w, t, slot, i)
  <2> DEFINE T == 1 .. i
  <2>1. /\ T \in SUBSET (1 .. n) /\ T # {} /\ i \in T /\ T \ {i} = 1 .. i - 1
        /\ i \in 0 .. n /\ i - 1 \in 0 .. n
    <3>1. /\ i \in 0 .. n /\ i - 1 \in 0 .. n /\ i \in T
      OBVIOUS
    <3>2. T \in SUBSET (1 .. n)
      OBVIOUS
    <3>3. T \ {i} = 1 .. i - 1
      OBVIOUS
    <3> QED BY <3>1, <3>2, <3>3
  <2>2. Max(T) = i
    <3>1. Max(T) \in T /\ \A y \in T : Max(T) >= y
      <4> HIDE DEF T
      <4> QED BY <2>1, MaxIs
    <3> QED BY <2>1, <3>1
  <2>3. f[i] = it[T] /\ f[i - 1] = it[1 .. i - 1]
    BY <2>1
  <2> HIDE DEF T, f
  <2> QED BY <1>9, <2>1, <2>2, <2>3
<1> HIDE DEF f
<1>12. Pays(tr, w, t, slot, n, f)
  BY <1>10, <1>11 DEF Pays
<1> QED BY <1>12

\* The outputs of some transactions to an address.
PaidTo(txs, address) == {ref \in Made(txs) : OutputAt(ref).to = address}

\* It leaves a tracker.
LEMMA CreditAllType ==
  ASSUME NEW n \in Nat, NEW t, HasList(t, n), NEW refs, RefsOf(t) \subseteq refs,
         NEW tr \in Trackers(refs), NEW w, NEW slot \in Int
  PROVE  CreditAll(tr, w, t, slot) \in Trackers(refs)
<1>1. PICK g : Pays(tr, w, t, slot, n, g)
  BY PaySteps
<1>2. /\ g[0] = tr /\ CreditAll(tr, w, t, slot) = g[n]
      /\ \A i \in 1 .. n : g[i] = Pay(g[i - 1], w, t, slot, i)
  BY <1>1 DEF Pays
<1> DEFINE P == {m \in Nat : m <= n => g[m] \in Trackers(refs)}
<1>3. 0 \in P
  BY <1>2
<1>4. ASSUME NEW m \in Nat, m \in P PROVE m + 1 \in P
  <2> SUFFICES ASSUME m + 1 <= n PROVE g[m + 1] \in Trackers(refs)
    OBVIOUS
  <2>1. m + 1 \in 1 .. n /\ (m + 1) - 1 = m /\ g[m] \in Trackers(refs)
    BY <1>4
  <2>2. g[m + 1] = Pay(g[m], w, t, slot, m + 1)
    BY <1>2, <2>1
  <2>3. <<t, m + 1>> \in refs /\ OutputAt(<<t, m + 1>>).amount \in Nat
    BY <2>1 DEF HasList, RefsOf, OutputAt
  <2>4. Credit(g[m], <<t, m + 1>>, slot) \in Trackers(refs)
    BY <2>1, <2>3, CreditType
  <2> QED BY <2>1, <2>2, <2>4 DEF Pay
<1>5. Nat \subseteq P
  <2> HIDE DEF P
  <2> QED BY <1>3, <1>4, OverNat
<1> QED BY <1>2, <1>5

\* The tracker of a wallet has a credit for every new output of it.
LEMMA CreditsHold ==
  ASSUME NEW n \in Nat, NEW t, HasList(t, n), NEW refs, NEW spent,
         NEW tr, Tracks(tr, refs, spent), RefsOf(t) \cap (refs \cup spent) = {},
         NEW w, NEW slot \in Int
  PROVE  Tracks(CreditAll(tr, w, t, slot), refs \cup PaidTo({t}, w), spent)
<1>1. PICK g : Pays(tr, w, t, slot, n, g)
  <2>1. tr \in Trackers(refs \cup RefsOf(t))
    BY TrackerGrows DEF Tracks
  <2>2. RefsOf(t) \subseteq refs \cup RefsOf(t)
    OBVIOUS
  <2> QED BY <2>1, <2>2, PaySteps
<1>2. /\ g[0] = tr /\ CreditAll(tr, w, t, slot) = g[n]
      /\ \A i \in 1 .. n : g[i] = Pay(g[i - 1], w, t, slot, i)
  BY <1>1 DEF Pays
<1> DEFINE Upto(m) == {<<t, i>> : i \in {j \in 1 .. m : t.outputs[j].to = w}}
           P == {m \in Nat : m <= n => Tracks(g[m], refs \cup Upto(m), spent)}
<1>3. 0 \in P
  <2>1. Upto(0) = {} /\ refs \cup {} = refs
    OBVIOUS
  <2> HIDE DEF Upto
  <2> QED BY <1>2, <2>1
<1>4. ASSUME NEW m \in Nat, m \in P PROVE m + 1 \in P
  <2> SUFFICES ASSUME m + 1 <= n PROVE Tracks(g[m + 1], refs \cup Upto(m + 1), spent)
    OBVIOUS
  <2> DEFINE ref == <<t, m + 1>>
             old == refs \cup Upto(m)
  <2>1. m + 1 \in 1 .. n /\ (m + 1) - 1 = m /\ Tracks(g[m], old, spent)
    BY <1>4
  <2>2. g[m + 1] = Pay(g[m], w, t, slot, m + 1)
    BY <1>2, <2>1
  <2>3. ref \in RefsOf(t) /\ OutputAt(ref).amount \in Nat
    BY <2>1 DEF HasList, RefsOf, OutputAt
  <2>4. ref \notin refs \cup Upto(m) /\ ref \notin spent
    <3>1. ref \notin Upto(m)
      OBVIOUS
    <3> QED BY <2>3, <3>1
  <2>5. CASE t.outputs[m + 1].to = w
    <3>1. Upto(m + 1) = Upto(m) \cup {ref}
      BY <2>5
    <3>2. g[m + 1] = Credit(g[m], ref, slot)
      BY <2>2, <2>5 DEF Pay
    <3>3. refs \cup Upto(m + 1) = old \cup {ref}
      BY <3>1
    <3>4. ref \notin old
      BY <2>4
    <3> HIDE DEF old, ref, Upto
    <3> QED BY <2>1, <2>3, <2>4, <3>2, <3>3, <3>4, Credited
  <2>6. CASE t.outputs[m + 1].to # w
    <3>1. Upto(m + 1) = Upto(m)
      BY <2>6
    <3> HIDE DEF Upto
    <3> QED BY <2>1, <2>2, <2>6, <3>1 DEF Pay
  <2> QED BY <2>5, <2>6
<1>5. Nat \subseteq P
  <2> HIDE DEF P
  <2> QED BY <1>3, <1>4, OverNat
<1>6. Upto(n) = PaidTo({t}, w)
  <2>1. Made({t}) = {<<t, i>> : i \in 1 .. n}
    BY DEF Made, RefsOf, HasList
  <2>2. \A i \in 1 .. n : OutputAt(<<t, i>>).to = t.outputs[i].to
    BY DEF OutputAt
  <2> QED BY <2>1, <2>2 DEF PaidTo
<1>7. Tracks(g[n], refs \cup Upto(n), spent)
  BY <1>5
<1> QED BY <1>2, <1>6, <1>7

----------------------------------------------------------------------------
(* A payload.                                                              *)

\* One transaction of the payload of a slot.
Entered(tr, w, slot, t) ==
    Debit(CreditAll(tr, w, t, IF t.coinbase THEN slot ELSE NoSlot), Claims(t))

\* The payload in the order of its ids.
List(txs) == Dag!Sorted(txs, Before)

\* g tells what a wallet's tracker is after each transaction of the list.
Follows(trs, w, slot, txs, n, g) ==
    /\ g[0] = trs[w] /\ Followed(trs, slot, txs)[w] = g[n]
    /\ \A i \in 1 .. n : g[i] = Entered(g[i - 1], w, slot, List(txs)[i])

\* So does entering a transaction, credits and debits.
LEMMA EnteredType ==
  ASSUME NEW t, NEW n \in Nat, HasList(t, n), NEW refs, RefsOf(t) \subseteq refs,
         NEW tr \in Trackers(refs), NEW w, NEW slot \in Int
  PROVE  Entered(tr, w, slot, t) \in Trackers(refs)
<1> DEFINE at == IF t.coinbase THEN slot ELSE NoSlot
           c == CreditAll(tr, w, t, at)
<1>1. at \in Int
  BY DEF NoSlot
<1> HIDE DEF at
<1>2. c \in Trackers(refs)
  BY <1>1, CreditAllType
<1> HIDE DEF c
<1>3. Debit(c, Claims(t)) \in Trackers(refs)
  BY <1>2, Debits
<1> QED BY <1>3 DEF Entered, c, at

\* Following a block is entering its transactions one after the other.
LEMMA FollowSteps ==
  ASSUME NEW txs, NEW n \in Nat, DOMAIN List(txs) = 1 .. n,
         \A i \in 1 .. n : List(txs)[i] \in txs,
         \A t \in txs : \E k \in Nat : HasList(t, k),
         NEW refs, Made(txs) \subseteq refs,
         NEW w \in Wallets, NEW trs, trs[w] \in Trackers(refs), NEW slot \in Int
  PROVE  \E g : Follows(trs, w, slot, txs, n, g)
<1> DEFINE V == Trackers(refs)
           S == SUBSET (1 .. n)
           op == [i \in 1 .. n |-> [v \in V |-> Entered(v, w, slot, List(txs)[i])]]
           OneTx(x, acc, t) ==
             Debit(CreditAll(acc, x, t, IF t.coinbase THEN slot ELSE NoSlot), Claims(t))
           at(x) == CHOOSE f : f = [T \in SUBSET (DOMAIN List(txs)) |->
                      IF T = {} THEN trs[x] ELSE OneTx(x, f[T \ {Max(T)}], List(txs)[Max(T)])]
           it == at(w)
<1>1. Followed(trs, slot, txs) = [x \in Wallets |-> at(x)[DOMAIN List(txs)]]
  BY Zenon DEF List, Followed, FoldLeft, MapThenFoldSet
<1>2. Followed(trs, slot, txs)[w] = it[1 .. n]
  <2> HIDE DEF at
  <2> QED BY <1>1
<1>3. it = CHOOSE f : f = [T \in SUBSET (DOMAIN List(txs)) |->
                      IF T = {} THEN trs[w] ELSE Entered(f[T \ {Max(T)}], w, slot, List(txs)[Max(T)])]
  BY Zenon DEF Entered
<1> HIDE DEF OneTx, at, it
<1>4. ASSUME NEW i \in 1 .. n, NEW v \in V PROVE Entered(v, w, slot, List(txs)[i]) \in V
  <2>1. PICK k \in Nat : HasList(List(txs)[i], k)
    OBVIOUS
  <2>2. RefsOf(List(txs)[i]) \subseteq refs
    BY DEF Made
  <2> QED BY <2>1, <2>2, EnteredType
<1> HIDE DEF V
<1>5. PICK h \in [S -> V] : IsLoop(n, trs[w], op, h)
  <2>1. trs[w] \in V /\ \A i \in 1 .. n : \A v \in V : op[i][v] \in V
    BY <1>4 DEF V
  <2>2. LoopTables(n, V, trs[w], op) # {}
    <3> HIDE DEF op
    <3> QED BY <2>1, LoopExists
  <2> QED BY <2>2 DEF LoopTables
<1>6. ASSUME NEW T \in S
      PROVE  h[T] = IF T = {} THEN trs[w] ELSE Entered(h[T \ {Max(T)}], w, slot, List(txs)[Max(T)])
  <2>1. h[T] = IF T = {} THEN trs[w] ELSE op[Max(T)][h[T \ {Max(T)}]]
    BY <1>5 DEF IsLoop
  <2>2. CASE T # {}
    <3>1. Max(T) \in 1 .. n /\ T \ {Max(T)} \in S
      <4>1. Max(T) \in T
        BY <2>2, MaxIs
      <4> QED BY <4>1
    <3>2. h[T \ {Max(T)}] \in V
      BY <3>1
    <3> QED BY <2>1, <2>2, <3>1, <3>2
  <2> QED BY <2>1, <2>2
<1>7. h = [T \in SUBSET (DOMAIN List(txs)) |->
             IF T = {} THEN trs[w] ELSE Entered(h[T \ {Max(T)}], w, slot, List(txs)[Max(T)])]
  <2>1. h = [T \in S |-> h[T]]
    OBVIOUS
  <2> HIDE DEF op
  <2>2. h = [T \in S |->
             IF T = {} THEN trs[w] ELSE Entered(h[T \ {Max(T)}], w, slot, List(txs)[Max(T)])]
    <3> HIDE DEF S
    <3> QED BY <1>6, <2>1
  <2> QED BY <2>2
<1>8. \A T \in SUBSET (1 .. n) :
        it[T] = IF T = {} THEN trs[w] ELSE Entered(it[T \ {Max(T)}], w, slot, List(txs)[Max(T)])
  <2>1. it = [T \in SUBSET (DOMAIN List(txs)) |->
             IF T = {} THEN trs[w] ELSE Entered(it[T \ {Max(T)}], w, slot, List(txs)[Max(T)])]
    BY <1>3, <1>7, Zenon
  <2>2. it = [T \in SUBSET (1 .. n) |->
             IF T = {} THEN trs[w] ELSE Entered(it[T \ {Max(T)}], w, slot, List(txs)[Max(T)])]
    BY <2>1
  <2> QED BY <2>2
<1> DEFINE f == [i \in 0 .. n |-> it[1 .. i]]
<1>10. f[0] = trs[w] /\ Followed(trs, slot, txs)[w] = f[n]
  <2>1. 1 .. 0 = {} /\ {} \in SUBSET (1 .. n) /\ 0 \in 0 .. n /\ n \in 0 .. n
    OBVIOUS
  <2> QED BY <1>2, <1>8, <2>1
<1>11. ASSUME NEW i \in 1 .. n PROVE f[i] = Entered(f[i - 1], w, slot, List(txs)[i])
  <2> DEFINE T == 1 .. i
  <2>1. /\ T \in SUBSET (1 .. n) /\ T # {} /\ i \in T /\ T \ {i} = 1 .. i - 1
        /\ i \in 0 .. n /\ i - 1 \in 0 .. n
    <3>1. /\ i \in 0 .. n /\ i - 1 \in 0 .. n /\ i \in T
      OBVIOUS
    <3>2. T \in SUBSET (1 .. n)
      OBVIOUS
    <3>3. T \ {i} = 1 .. i - 1
      OBVIOUS
    <3> QED BY <3>1, <3>2, <3>3
  <2>2. Max(T) = i
    <3>1. Max(T) \in T /\ \A y \in T : Max(T) >= y
      <4> HIDE DEF T
      <4> QED BY <2>1, MaxIs
    <3> QED BY <2>1, <3>1
  <2>3. f[i] = it[T] /\ f[i - 1] = it[1 .. i - 1]
    BY <2>1
  <2> HIDE DEF T, f
  <2> QED BY <1>8, <2>1, <2>2, <2>3
<1> HIDE DEF f
<1>12. Follows(trs, w, slot, txs, n, f)
  BY <1>10, <1>11 DEF Follows
<1> QED BY <1>12

----------------------------------------------------------------------------
(* A payload in order.                                                     *)

\* Before compares ids, and no two transactions have the same.
Ranked(txs) ==
    /\ \A t \in txs : ~Before(t, t)
    /\ \A t, u \in txs : t # u => Before(t, u) \/ Before(u, t)
    /\ \A t, u, v \in txs : Before(t, u) /\ Before(u, v) => Before(t, v)

\* s lists txs in the order of the ids.
Lists(s, n, txs) ==
    /\ n \in Nat /\ DOMAIN s = 1 .. n
    /\ \A i \in 1 .. n : s[i] \in txs
    /\ \A t \in txs : \E i \in 1 .. n : s[i] = t
    /\ \A i, j \in 1 .. n : i < j => s[i] # s[j] /\ Before(s[i], s[j]) /\ ~Before(s[j], s[i])

\* Ids in order list a payload once each.
LEMMA RankedIsListed ==
  ASSUME NEW txs, IsFiniteSet(txs), Ranked(txs)
  PROVE  \E n \in Nat : Lists(List(txs), n, txs)
<1> DEFINE n == Cardinality(txs)
           R == {p \in txs \X txs : Before(p[1], p[2])}
           s == List(txs)
<1>1. n \in Nat
  BY FS_CardinalityType
<1>2. \A t, u \in txs : <<t, u>> \in R <=> Before(t, u)
  OBVIOUS
<1>3. \A t \in txs : {u \in txs : Before(u, t)} = Below(t, txs, R)
  BY <1>2 DEF Below
<1> HIDE DEF R
<1>4. StrictlyOrders(R, txs) /\ IsFiniteSet(txs)
  <2>1. /\ \A t \in txs : <<t, t>> \notin R
        /\ \A t, u, v \in txs : <<t, u>> \in R /\ <<u, v>> \in R => <<t, v>> \in R
        /\ \A t, u \in txs : t # u => <<t, u>> \in R \/ <<u, t>> \in R
    BY <1>2 DEF Ranked
  <2> QED BY <2>1 DEF StrictlyOrders
<1> DEFINE F(i) == CHOOSE t \in txs : Cardinality({u \in txs : Before(u, t)}) = i - 1
<1>5. s = [i \in 1 .. n |-> F(i)]
  BY Zenon DEF List, Dag!Sorted, Dag!Cardinality, Cardinality
<1>6. ASSUME NEW i \in 1 .. n PROVE F(i) \in txs /\ Cardinality(Below(F(i), txs, R)) = i - 1
  <2>1. PICK t \in txs : Cardinality(Below(t, txs, R)) = i - 1
    BY <1>4, RankExists
  <2>2. Cardinality({u \in txs : Before(u, t)}) = i - 1
    BY <1>3, <2>1
  <2>3. F(i) \in txs /\ Cardinality({u \in txs : Before(u, F(i))}) = i - 1
    BY <2>2, Zenon
  <2> QED BY <1>3, <2>3
<1> HIDE DEF F, s
<1>7. s = [i \in 1 .. n |-> s[i]] /\ \A i \in 1 .. n : s[i] = F(i)
  BY <1>5
<1>8. s = [i \in 1 .. Cardinality(txs) |-> s[i]]
  BY <1>7
<1>9. ASSUME NEW i \in 1 .. Cardinality(txs)
      PROVE  s[i] \in txs /\ Cardinality(Below(s[i], txs, R)) = i - 1
  BY <1>6, <1>7
<1>10. /\ s \in Seq(txs) /\ Len(s) = Cardinality(txs) /\ DOMAIN s = 1 .. Cardinality(txs)
       /\ \A t \in txs : \E i \in DOMAIN s : s[i] = t
       /\ \A i, j \in DOMAIN s : i < j <=> <<s[i], s[j]>> \in R
  BY <1>4, <1>8, <1>9, RankedLists, Zenon
<1>11. ASSUME NEW i \in 1 .. n, NEW j \in 1 .. n, i < j
       PROVE  s[i] # s[j] /\ Before(s[i], s[j]) /\ ~Before(s[j], s[i])
  <2>1. s[i] \in txs /\ s[j] \in txs /\ <<s[i], s[j]>> \in R
    BY <1>9, <1>10, <1>11
  <2>2. <<s[j], s[i]>> \notin R /\ s[i] # s[j]
    BY <1>4, <2>1 DEF StrictlyOrders
  <2> QED BY <1>2, <2>1, <2>2
<1>12. Lists(s, n, txs)
  BY <1>1, <1>9, <1>10, <1>11 DEF Lists
<1> QED BY <1>1, <1>12 DEF s

\* A transaction of the script: it pays wallets, a coinbase the treasury too,
\* and only wallets spend.
IsBill(t) ==
    /\ t.coinbase \in BOOLEAN /\ t.fee \in Nat
    /\ \E n \in Nat : HasList(t, n)
    /\ t.coinbase => t.outputs[1].to \in Wallets
    /\ ~t.coinbase => /\ \A input \in t.inputs : input.key \in Wallets
                      /\ \A i \in DOMAIN t.outputs : t.outputs[i].to \in Wallets

IsBook(txs) == IsFiniteSet(txs) /\ Ranked(txs) /\ \A t \in txs : IsBill(t)

\* A book is a payload as the rules of the ledger read it.
LEMMA BookIsPayload ==
  ASSUME NEW txs, IsBook(txs)
  PROVE  IsPayload(txs)
<1>1. Ranked(txs)
  BY DEF IsBook
<1>2. \A t, u \in Transfers(txs) : t # u => Before(t, u) \/ Before(u, t)
  BY <1>1 DEF Ranked, Transfers
<1>3. ASSUME NEW t \in txs PROVE IsPlausible(t)
  <2>1. IsBill(t)
    BY DEF IsBook
  <2>2. PICK n \in Nat : HasList(t, n)
    BY <2>1 DEF IsBill
  <2>3. IsFiniteSet(DOMAIN t.outputs)
    BY <2>2, FirstNumbers DEF HasList
  <2> QED BY <2>1, <2>2, <2>3 DEF IsBill, HasList, IsPlausible
<1> QED BY <1>2, <1>3 DEF IsPayload, IsBook

\* Coinbases claim nothing.
LEMMA TransfersClaim ==
  ASSUME NEW l, NEW height, NEW txs, BlockHolds(l, height, txs)
  PROVE  /\ \A t \in Coinbases(txs) : Claims(t) = {}
         /\ Consumed(txs) = Consumed(Transfers(txs))
<1>1. ASSUME NEW t \in Coinbases(txs) PROVE t.inputs = {}
  <2>1. height # 0
    BY DEF BlockHolds, Coinbases
  <2> QED BY <2>1 DEF BlockHolds, CoinbaseHolds
<1>2. \A t \in Coinbases(txs) : Claims(t) = {}
  BY <1>1 DEF Claims
<1>3. \A t \in txs : t \in Coinbases(txs) \/ t \in Transfers(txs)
  BY DEF Coinbases, Transfers
<1>4. Transfers(txs) \subseteq txs
  BY DEF Transfers
<1> QED BY <1>2, <1>3, <1>4 DEF Consumed

\* What a wallet follows of a valid block: a credit for each output to it, a
\* debit for each output the block claims, whatever order the ids come in.
LEMMA FollowedTracks ==
  ASSUME NEW txs, IsBook(txs), NEW l, NEW A, OneSide(l, A),
         NEW height, BlockHolds(l, height, txs), A \cap Coinbases(txs) = {},
         NEW w \in Wallets, NEW trs, Tracks(trs[w], PaidTo(A, w), l.spent), NEW slot \in Int
  PROVE  Tracks(Followed(trs, slot, txs)[w], PaidTo(A \cup txs, w),
                l.spent \cup Consumed(Transfers(txs)))
<1> DEFINE s == List(txs)
<1>1. PICK n \in Nat : Lists(s, n, txs)
  BY RankedIsListed DEF IsBook
<1> HIDE DEF s
<1>2. /\ DOMAIN s = 1 .. n /\ \A i \in 1 .. n : s[i] \in txs
      /\ \A t \in txs : \E i \in 1 .. n : s[i] = t
      /\ \A i, j \in 1 .. n : i < j => s[i] # s[j] /\ Before(s[i], s[j]) /\ ~Before(s[j], s[i])
  BY <1>1 DEF Lists
<1>3. \A t \in txs : \E k \in Nat : HasList(t, k)
  BY DEF IsBook, IsBill
<1>4. PICK g : Follows(trs, w, slot, txs, n, g)
  <2> DEFINE refs == Made(A \cup txs)
  <2>1. PaidTo(A, w) \subseteq refs /\ Made(txs) \subseteq refs
    BY DEF PaidTo, Made
  <2>2. trs[w] \in Trackers(PaidTo(A, w))
    BY DEF Tracks
  <2> HIDE DEF refs
  <2>3. trs[w] \in Trackers(refs)
    BY <2>1, <2>2, TrackerGrows
  <2> QED BY <1>2, <1>3, <2>1, <2>3, FollowSteps DEF s
<1>5. /\ g[0] = trs[w] /\ Followed(trs, slot, txs)[w] = g[n]
      /\ \A i \in 1 .. n : g[i] = Entered(g[i - 1], w, slot, s[i])
  BY <1>4 DEF Follows, s
<1>6. Made(txs) \cap Made(A) = {} /\ DOMAIN l.utxos \subseteq Made(A) /\ l.spent \subseteq Made(A)
  BY MadeIsNew DEF OneSide
<1> DEFINE Upto(m) == {s[i] : i \in 1 .. m}
           P == {m \in Nat : m <= n =>
                   Tracks(g[m], PaidTo(A \cup Upto(m), w), l.spent \cup Consumed(Upto(m)))}
<1>7. 0 \in P
  <2>1. Upto(0) = {}
    OBVIOUS
  <2>2. Consumed({}) = {}
    BY DEF Consumed
  <2>3. A \cup Upto(0) = A /\ l.spent \cup Consumed(Upto(0)) = l.spent
    BY <2>1, <2>2
  <2> HIDE DEF Upto
  <2> QED BY <1>5, <2>3
<1>8. ASSUME NEW m \in Nat, m \in P PROVE m + 1 \in P
  <2> SUFFICES ASSUME m + 1 <= n
               PROVE  Tracks(g[m + 1], PaidTo(A \cup Upto(m + 1), w), l.spent \cup Consumed(Upto(m + 1)))
    OBVIOUS
  <2> DEFINE t == s[m + 1]
             refs == PaidTo(A \cup Upto(m), w)
             spent == l.spent \cup Consumed(Upto(m))
  <2>1. m + 1 \in 1 .. n /\ (m + 1) - 1 = m /\ t \in txs
    BY <1>2
  <2>2. Tracks(g[m], refs, spent)
    BY <1>8
  <2>3. g[m + 1] = Entered(g[m], w, slot, t)
    BY <1>5, <2>1
  <2>4. ASSUME NEW u \in Upto(m) PROVE u \in txs /\ u # t /\ ~Before(t, u)
    <3>1. PICK i \in 1 .. m : u = s[i]
      OBVIOUS
    <3>2. i \in 1 .. n /\ i < m + 1
      BY <2>1
    <3> QED BY <1>2, <2>1, <3>1, <3>2
  <2>5. Upto(m + 1) = Upto(m) \cup {t}
    OBVIOUS
  <2> HIDE DEF Upto, t
  <2>6. RefsOf(t) \cap (refs \cup spent) = {}
    <3> SUFFICES ASSUME NEW ref \in RefsOf(t), ref \in refs \cup spent PROVE FALSE
      OBVIOUS
    <3>1. ref \in Made(txs) /\ ref[1] = t /\ ref \notin Made(A)
      BY <1>6, <2>1 DEF Made, RefsOf
    <3>2. CASE ref \in refs
      <4>1. ref \in Made(Upto(m))
        <5>1. ref \in Made(A \cup Upto(m))
          BY <3>2 DEF PaidTo
        <5>2. Made(A \cup Upto(m)) = Made(A) \cup Made(Upto(m))
          BY DEF Made
        <5> QED BY <3>1, <5>1, <5>2
      <4>2. PICK u \in Upto(m) : ref[1] = u
        BY <4>1, RefNames
      <4> QED BY <2>4, <3>1, <4>2
    <3>3. CASE ref \in l.spent
      BY <1>6, <3>1, <3>3
    <3>4. CASE ref \in Consumed(Upto(m))
      <4>1. PICK u \in Upto(m) : ref \in Claims(u)
        BY <3>4 DEF Consumed
      <4>2. u \in Transfers(txs)
        <5>1. u \in txs /\ u \notin Coinbases(txs)
          BY <2>4, <4>1, TransfersClaim
        <5> QED BY <5>1 DEF Coinbases, Transfers
      <4>3. \E x \in Transfers(txs) : Before(x, u) /\ ref \in RefsOf(x)
        BY <1>6, <3>1, <4>1, <4>2, ValidTransfers
      <4>4. PICK x \in Transfers(txs) : Before(x, u) /\ ref \in RefsOf(x)
        BY <4>3
      <4>5. x = t
        BY <3>1, <4>4 DEF RefsOf
      <4> QED BY <2>4, <4>4, <4>5
    <3> QED BY <3>2, <3>3, <3>4
  <2>7. PICK k \in Nat : HasList(t, k)
    BY <1>3, <2>1
  <2> DEFINE at == IF t.coinbase THEN slot ELSE NoSlot
  <2>8. at \in Int
    BY DEF NoSlot
  <2> HIDE DEF at, refs, spent
  <2>9. Tracks(CreditAll(g[m], w, t, at), refs \cup PaidTo({t}, w), spent)
    BY <2>2, <2>6, <2>7, <2>8, CreditsHold
  <2>10. Tracks(g[m + 1], refs \cup PaidTo({t}, w), spent \cup Claims(t))
    <3>1. Tracks(Debit(CreditAll(g[m], w, t, at), Claims(t)), refs \cup PaidTo({t}, w), spent \cup Claims(t))
      BY <2>9, Debited
    <3> QED BY <2>3, <3>1, Zenon DEF Entered, at
  <2>11. refs \cup PaidTo({t}, w) = PaidTo(A \cup Upto(m + 1), w)
    <3>1. Made(A \cup Upto(m + 1)) = Made(A \cup Upto(m)) \cup Made({t})
      BY <2>5 DEF Made
    <3> QED BY <3>1 DEF PaidTo, refs
  <2>12. spent \cup Claims(t) = l.spent \cup Consumed(Upto(m + 1))
    <3>1. Consumed(Upto(m + 1)) = Consumed(Upto(m)) \cup Claims(t)
      BY <2>5 DEF Consumed
    <3> QED BY <3>1 DEF spent
  <2> QED BY <2>10, <2>11, <2>12
<1>9. Nat \subseteq P
  <2> HIDE DEF P
  <2> QED BY <1>7, <1>8, OverNat
<1>10. Tracks(g[n], PaidTo(A \cup Upto(n), w), l.spent \cup Consumed(Upto(n)))
  <2>1. n \in P
    <3> HIDE DEF P
    <3> QED BY <1>9
  <2>2. n <= n
    OBVIOUS
  <2> HIDE DEF Upto
  <2> QED BY <2>1, <2>2
<1>11. Upto(n) = txs
  BY <1>2
<1>12. Consumed(txs) = Consumed(Transfers(txs))
  BY TransfersClaim
<1> HIDE DEF Upto
<1> QED BY <1>5, <1>10, <1>11, <1>12

----------------------------------------------------------------------------
(* The books of an order.                                                  *)

\* The ledger l and the counters c after the transactions A: nothing is lost,
\* and the treasury keeps what it was paid.
Balanced(A, l, c) ==
    /\ Countable(Made(A)) /\ OneSide(l, A)
    /\ \A ref \in DOMAIN l.utxos : l.utxos[ref].to = OutputAt(ref).to
    /\ l.created \in Nat /\ l.spentValue \in Nat /\ l.emitted \in Nat
    /\ l.created = l.spentValue + l.emitted
    /\ c.emitted = l.emitted
    /\ PaidTo(A, Treasury) \cap l.spent = {}
    /\ c.treasury = ValueOf(PaidTo(A, Treasury))

\* Only a coinbase pays the treasury, in its second output.
LEMMA PaysTreasury ==
  ASSUME Treasury \notin Wallets, NEW txs, IsBook(txs), NEW l, NEW height, BlockHolds(l, height, txs)
  PROVE  PaidTo(txs, Treasury) = ToTreasury(Made(txs))
<1>1. ASSUME NEW ref \in Made(txs), OutputAt(ref).to = Treasury
      PROVE  ref[1].coinbase /\ ref[2] = 2
  <2>1. PICK t \in txs : ref \in RefsOf(t)
    BY DEF Made
  <2>2. PICK i \in DOMAIN t.outputs : ref = <<t, i>>
    BY <2>1 DEF RefsOf
  <2>3. IsBill(t) /\ ref[1] = t /\ ref[2] = i /\ t.outputs[i].to = Treasury
    BY <1>1, <2>2 DEF IsBook, OutputAt
  <2>4. t.coinbase
    BY <2>3 DEF IsBill
  <2>5. t.outputs[1].to \in Wallets
    BY <2>3, <2>4 DEF IsBill
  <2>6. i # 1
    BY <2>3, <2>5
  <2>7. t.outputs = CoinbaseOutputs(l.applied, FeesOf(txs), t.outputs[1].to)
    <3>1. t \in Coinbases(txs)
      BY <2>4 DEF Coinbases
    <3>2. height # 0
      BY <2>1 DEF BlockHolds
    <3> QED BY <3>1, <3>2 DEF BlockHolds, CoinbaseHolds
  <2>8. DOMAIN t.outputs \subseteq {1, 2}
    <3> DEFINE a == [to |-> t.outputs[1].to,
                     amount |-> RewardOfSlot(l.applied) + FeesOf(txs) - TreasuryShareOf(RewardOfSlot(l.applied))]
               b == [to |-> Treasury, amount |-> TreasuryShareOf(RewardOfSlot(l.applied))]
               c == [to |-> t.outputs[1].to, amount |-> RewardOfSlot(l.applied) + FeesOf(txs)]
    <3>1. t.outputs = <<a, b>> \/ t.outputs = <<c>>
      BY <2>7 DEF CoinbaseOutputs
    <3> HIDE DEF a, b, c
    <3>2. DOMAIN <<a, b>> = {1, 2} /\ DOMAIN <<c>> = {1}
      <4>1. DOMAIN <<a, b>> = 1 .. 2 /\ DOMAIN <<c>> = 1 .. 1
        OBVIOUS
      <4> QED BY <4>1
    <3> QED BY <3>1, <3>2
  <2> QED BY <2>3, <2>4, <2>6, <2>8
<1> QED BY <1>1 DEF PaidTo, ToTreasury

\* Who spends owns, so a block claims nothing of the treasury.
LEMMA SpendersOwn ==
  ASSUME NEW txs, IsBook(txs), NEW l, NEW height, BlockHolds(l, height, txs),
         \A ref \in DOMAIN l.utxos : l.utxos[ref].to = OutputAt(ref).to
  PROVE  \A ref \in Consumed(Transfers(txs)) : OutputAt(ref).to \in Wallets
<1> SUFFICES ASSUME NEW ref \in Consumed(Transfers(txs)) PROVE OutputAt(ref).to \in Wallets
  OBVIOUS
<1>1. PICK t \in Transfers(txs) : ref \in Claims(t)
  BY DEF Consumed
<1>2. PICK input \in t.inputs : ref = input.ref
  BY <1>1 DEF Claims
<1>3. input.key \in Wallets
  <2>1. IsBill(t) /\ ~t.coinbase
    BY DEF IsBook, Transfers
  <2> QED BY <2>1 DEF IsBill
<1>4. TransferHolds(l, t, l.applied, txs)
  BY DEF BlockHolds, Transfers
<1>5. input.key = OwnerOf(l, ref)
  BY <1>2, <1>4 DEF TransferHolds
<1> QED BY <1>3, <1>5 DEF OwnerOf

\* A valid block keeps the two accounts of the money in step: the ledger's
\* counters and sides, and the sums of the battery.
LEMMA BlockBooked ==
  ASSUME Treasury \notin Wallets, NEW txs, IsBook(txs), NEW l, NEW c, NEW A, Balanced(A, l, c),
         NEW height, BlockHolds(l, height, txs), InTurn(l, height), A \cap Coinbases(txs) = {},
         NEW m, m = Commit(l, txs), NEW d, d = SlotApplied(c, l.applied)
  PROVE  Balanced(A \cup txs, m, d)
<1> DEFINE made == Made(txs)
           consumed == Consumed(Transfers(txs))
           slot == l.applied
           share == IF slot # 0 /\ TreasuryActive(slot) THEN TreasuryShareOf(RewardOfSlot(slot)) ELSE 0
<1>1. /\ Countable(Made(A)) /\ OneSide(l, A)
      /\ \A ref \in DOMAIN l.utxos : l.utxos[ref].to = OutputAt(ref).to
      /\ l.created \in Nat /\ l.spentValue \in Nat /\ l.emitted \in Nat
      /\ l.created = l.spentValue + l.emitted
      /\ c.emitted = l.emitted
      /\ PaidTo(A, Treasury) \cap l.spent = {}
      /\ c.treasury = ValueOf(PaidTo(A, Treasury))
  BY DEF Balanced
<1>2. DOMAIN l.utxos \cup l.spent = Made(A) /\ l.spent \subseteq Made(A)
  BY <1>1 DEF OneSide
<1>3. IsPayload(txs)
  BY BookIsPayload
<1>4. Made(A) \cap made = {}
  BY <1>1, MadeIsNew
<1>5. /\ Earned(l, txs) \in Nat /\ ValueOf(consumed) \in Nat
      /\ Earned(l, txs) = IF slot = 0 THEN 0 ELSE RewardOfSlot(slot)
      /\ ValueOf(made) = Earned(l, txs) + ValueOf(consumed)
      /\ ValueOf(ToTreasury(made)) = share
  BY <1>1, <1>2, <1>3, <1>4, BlockBalances
<1>6. Countable(made)
  BY <1>3, PayloadCounts
<1>7. Made(A \cup txs) = Made(A) \cup made
  BY Distribute
<1>8. Countable(Made(A \cup txs))
  <2> HIDE DEF made
  <2>1. Countable(Made(A) \cup made)
    BY <1>1, <1>4, <1>6, ValueOfUnion
  <2> QED BY <1>7, <2>1
<1>9. OneSide(m, A \cup txs)
  BY <1>1, SidesHold
<1>10. /\ m.created = l.created + ValueOf(made)
       /\ m.spentValue = l.spentValue + ValueOf(consumed)
       /\ m.emitted = l.emitted + Earned(l, txs)
       /\ m.spent = l.spent \cup consumed
  BY DEF Commit, Earned
<1>11. \A ref \in DOMAIN m.utxos : m.utxos[ref].to = OutputAt(ref).to
  <2>1. /\ DOMAIN m.utxos \subseteq DOMAIN l.utxos \cup made
        /\ \A ref \in DOMAIN m.utxos :
             m.utxos[ref] = IF ref \in made THEN EntryOf(l, ref) ELSE l.utxos[ref]
    BY Committed
  <2>2. \A ref : EntryOf(l, ref).to = OutputAt(ref).to
    BY DEF EntryOf
  <2> QED BY <1>1, <2>1, <2>2
<1>12. /\ PaidTo(A \cup txs, Treasury) = PaidTo(A, Treasury) \cup PaidTo(txs, Treasury)
       /\ PaidTo(A, Treasury) \cap PaidTo(txs, Treasury) = {}
       /\ PaidTo(txs, Treasury) = ToTreasury(made)
       /\ PaidTo(A, Treasury) \subseteq Made(A) /\ PaidTo(txs, Treasury) \subseteq made
  BY <1>4, <1>7, PaysTreasury DEF PaidTo
<1>13. ValueOf(PaidTo(A \cup txs, Treasury)) = ValueOf(PaidTo(A, Treasury)) + share
  <2>1. Countable(PaidTo(A, Treasury)) /\ Countable(PaidTo(txs, Treasury))
    BY <1>1, <1>6, <1>12, PartCounts
  <2>2. ValueOf(PaidTo(A, Treasury) \cup PaidTo(txs, Treasury))
          = ValueOf(PaidTo(A, Treasury)) + ValueOf(PaidTo(txs, Treasury))
    BY <1>12, <2>1, ValueOfUnion
  <2> HIDE DEF made, share
  <2> QED BY <1>5, <1>12, <2>2
<1>14. PaidTo(A \cup txs, Treasury) \cap m.spent = {}
  <2>1. \A ref \in PaidTo(A \cup txs, Treasury) : OutputAt(ref).to = Treasury
    BY DEF PaidTo
  <2>2. consumed \cap PaidTo(A \cup txs, Treasury) = {}
    BY <1>1, <2>1, SpendersOwn
  <2>3. PaidTo(txs, Treasury) \cap l.spent = {}
    BY <1>2, <1>4, <1>12
  <2> QED BY <1>1, <1>10, <1>12, <2>2, <2>3
<1>15. d.emitted = c.emitted + Earned(l, txs) /\ d.treasury = c.treasury + share
  <2>0. ValueOf(PaidTo(A, Treasury)) \in Nat
    <3>1. Countable(PaidTo(A, Treasury))
      BY <1>1, <1>12, PartCounts
    <3> QED BY <3>1, ValueType
  <2>1. CASE slot = 0
    <3>1. d = c
      BY <2>1 DEF SlotApplied
    <3> QED BY <1>1, <1>5, <2>0, <2>1, <3>1
  <2>2. CASE slot # 0
    <3>1. /\ d.emitted = c.emitted + RewardOfSlot(slot)
          /\ d.treasury = c.treasury
                + (IF TreasuryActive(slot) THEN TreasuryShareOf(RewardOfSlot(slot)) ELSE 0)
      BY <2>2 DEF SlotApplied
    <3> QED BY <1>5, <2>2, <3>1
  <2> QED BY <2>1, <2>2
<1> HIDE DEF made, consumed, slot, share
<1>16. /\ m.created \in Nat /\ m.spentValue \in Nat /\ m.emitted \in Nat
       /\ m.created = m.spentValue + m.emitted /\ d.emitted = m.emitted
  BY <1>1, <1>5, <1>10, <1>15
<1>17. d.treasury = ValueOf(PaidTo(A \cup txs, Treasury))
  BY <1>1, <1>13, <1>15
<1> QED BY <1>8, <1>9, <1>11, <1>14, <1>16, <1>17 DEF Balanced

----------------------------------------------------------------------------
(* The balance of a tracker.                                               *)

\* g tells what the sum over a tracker is after each credit.
Sums(tr, n, g) ==
    /\ g[0] = 0 /\ UnspentValue(tr) = g[n]
    /\ \A i \in 1 .. n : g[i] = IF tr[i].spent THEN g[i - 1] ELSE g[i - 1] + tr[i].amount

\* The balance of a tracker is a sum of its credits, one after the other.
LEMMA SumSteps ==
  ASSUME NEW refs, NEW tr \in Trackers(refs)
  PROVE  \E g : Sums(tr, Len(tr), g)
<1> DEFINE n == Len(tr)
           S == SUBSET (1 .. n)
           Sum(v, credit) == IF credit.spent THEN v ELSE v + credit.amount
           op == [i \in 1 .. n |-> [v \in Nat |-> Sum(v, tr[i])]]
           it == CHOOSE f : f = [T \in SUBSET (DOMAIN tr) |->
                   IF T = {} THEN 0 ELSE Sum(f[T \ {Max(T)}], tr[Max(T)])]
<1>1. n \in Nat /\ DOMAIN tr = 1 .. n /\ \A i \in 1 .. n : tr[i].amount \in Nat
  <2> DEFINE E == [ref : refs, amount : Nat, slot : Int, spent : BOOLEAN]
  <2>1. tr \in Seq(E) /\ \A c \in E : c.amount \in Nat
    BY DEF Trackers
  <2> HIDE DEF E
  <2> QED BY <2>1
<1>2. UnspentValue(tr) = it[DOMAIN tr]
  BY Zenon DEF UnspentValue, FoldLeft, MapThenFoldSet
<1> HIDE DEF it, n
<1>3. ASSUME NEW i \in 1 .. n, NEW v \in Nat PROVE Sum(v, tr[i]) \in Nat
  BY <1>1
<1> HIDE DEF Sum
<1>4. PICK h \in [S -> Nat] : IsLoop(n, 0, op, h)
  <2>1. 0 \in Nat /\ \A i \in 1 .. n : \A v \in Nat : op[i][v] \in Nat
    BY <1>3
  <2>2. LoopTables(n, Nat, 0, op) # {}
    <3> HIDE DEF op
    <3> QED BY <1>1, <2>1, LoopExists
  <2> QED BY <2>2 DEF LoopTables
<1>5. ASSUME NEW T \in S
      PROVE  h[T] = IF T = {} THEN 0 ELSE Sum(h[T \ {Max(T)}], tr[Max(T)])
  <2>1. h[T] = IF T = {} THEN 0 ELSE op[Max(T)][h[T \ {Max(T)}]]
    BY <1>4 DEF IsLoop
  <2>2. CASE T # {}
    <3>1. Max(T) \in 1 .. n /\ T \ {Max(T)} \in S
      <4>1. Max(T) \in T
        BY <1>1, <2>2, MaxIs
      <4> QED BY <4>1
    <3>2. h[T \ {Max(T)}] \in Nat
      BY <3>1
    <3> QED BY <2>1, <2>2, <3>1, <3>2
  <2> QED BY <2>1, <2>2
<1>6. h = [T \in SUBSET (DOMAIN tr) |-> IF T = {} THEN 0 ELSE Sum(h[T \ {Max(T)}], tr[Max(T)])]
  <2>1. h = [T \in S |-> h[T]]
    OBVIOUS
  <2> HIDE DEF op
  <2>2. h = [T \in S |-> IF T = {} THEN 0 ELSE Sum(h[T \ {Max(T)}], tr[Max(T)])]
    <3> HIDE DEF S
    <3> QED BY <1>5, <2>1
  <2> QED BY <1>1, <2>2
<1>7. \A T \in SUBSET (1 .. n) : it[T] = IF T = {} THEN 0 ELSE Sum(it[T \ {Max(T)}], tr[Max(T)])
  <2>1. it = [T \in SUBSET (DOMAIN tr) |-> IF T = {} THEN 0 ELSE Sum(it[T \ {Max(T)}], tr[Max(T)])]
    BY <1>6, Zenon DEF it
  <2>2. it = [T \in SUBSET (1 .. n) |-> IF T = {} THEN 0 ELSE Sum(it[T \ {Max(T)}], tr[Max(T)])]
    BY <1>1, <2>1
  <2> QED BY <2>2
<1> DEFINE f == [i \in 0 .. n |-> it[1 .. i]]
<1>8. f[0] = 0 /\ UnspentValue(tr) = f[n]
  <2>1. 1 .. 0 = {} /\ {} \in SUBSET (1 .. n) /\ 0 \in 0 .. n /\ n \in 0 .. n
    BY <1>1
  <2> QED BY <1>1, <1>2, <1>7, <2>1
<1>9. ASSUME NEW i \in 1 .. n PROVE f[i] = Sum(f[i - 1], tr[i])
  <2> DEFINE T == 1 .. i
  <2>1. /\ T \in SUBSET (1 .. n) /\ T # {} /\ i \in T /\ T \ {i} = 1 .. i - 1
        /\ i \in 0 .. n /\ i - 1 \in 0 .. n
    <3>1. i \in 0 .. n /\ i - 1 \in 0 .. n /\ i \in T
      BY <1>1
    <3>2. T \in SUBSET (1 .. n)
      BY <1>1
    <3>3. T \ {i} = 1 .. i - 1
      BY <1>1
    <3> QED BY <3>1, <3>2, <3>3
  <2>2. Max(T) = i
    <3>1. Max(T) \in T /\ \A y \in T : Max(T) >= y
      <4> HIDE DEF T
      <4> QED BY <1>1, <2>1, MaxIs
    <3> QED BY <1>1, <2>1, <3>1
  <2>3. f[i] = it[T] /\ f[i - 1] = it[1 .. i - 1]
    BY <2>1
  <2> HIDE DEF T, f
  <2> QED BY <1>7, <2>1, <2>2, <2>3
<1> HIDE DEF f
<1>10. Sums(tr, n, f)
  BY <1>8, <1>9 DEF Sums, Sum
<1> QED BY <1>10 DEF n

\* What a tracker says is unspent is what was paid and not spent, and its
\* balance is the value of that.
LEMMA TrackerAddsUp ==
  ASSUME NEW refs, Countable(refs), NEW spent, NEW tr, Tracks(tr, refs, spent)
  PROVE  /\ Unspent(tr) = refs \ spent
         /\ UnspentValue(tr) = ValueOf(refs \ spent)
<1> DEFINE n == Len(tr)
           Upto(m) == {tr[i].ref : i \in {j \in 1 .. m : ~tr[j].spent}}
<1>1. /\ n \in Nat /\ DOMAIN tr = 1 .. n
      /\ \A i \in 1 .. n : tr[i].ref \in refs /\ tr[i].spent \in BOOLEAN
  <2> DEFINE E == [ref : refs, amount : Nat, slot : Int, spent : BOOLEAN]
  <2>1. tr \in Seq(E) /\ \A c \in E : c.ref \in refs /\ c.spent \in BOOLEAN
    BY DEF Trackers, Tracks
  <2> HIDE DEF E
  <2> QED BY <2>1
<1>2. /\ \A ref \in refs : \E i \in 1 .. n : tr[i].ref = ref
      /\ \A i, j \in 1 .. n : tr[i].ref = tr[j].ref => i = j
  BY <1>1 DEF Tracks
<1>3. \A i \in 1 .. n : /\ tr[i].amount = OutputAt(tr[i].ref).amount
                        /\ tr[i].spent <=> tr[i].ref \in spent
  BY <1>1, Zenon DEF Tracks
<1>4. Unspent(tr) = Upto(n)
  BY <1>1 DEF Unspent
<1> HIDE DEF n
<1>5. Upto(n) = refs \ spent
  BY <1>1, <1>2, <1>3
<1>6. PICK g : Sums(tr, n, g)
  <2>1. tr \in Trackers(refs)
    BY DEF Tracks
  <2> QED BY <2>1, SumSteps DEF n
<1>7. /\ g[0] = 0 /\ UnspentValue(tr) = g[n]
      /\ \A i \in 1 .. n : g[i] = IF tr[i].spent THEN g[i - 1] ELSE g[i - 1] + tr[i].amount
  BY <1>6 DEF Sums
<1> DEFINE P == {m \in Nat : m <= n => g[m] = ValueOf(Upto(m))}
<1>8. 0 \in P
  <2>1. Upto(0) = {}
    OBVIOUS
  <2>2. Countable({})
    BY FS_EmptySet DEF Countable
  <2> HIDE DEF Upto
  <2>3. ValueOf(Upto(0)) = 0
    BY <2>1, <2>2, ValueType
  <2> QED BY <1>7, <2>3
<1>9. ASSUME NEW m \in Nat, m \in P PROVE m + 1 \in P
  <2> SUFFICES ASSUME m + 1 <= n PROVE g[m + 1] = ValueOf(Upto(m + 1))
    OBVIOUS
  <2> DEFINE ref == tr[m + 1].ref
  <2>1. m + 1 \in 1 .. n /\ (m + 1) - 1 = m /\ g[m] = ValueOf(Upto(m)) /\ \A i \in 1 .. m : i \in 1 .. n
    BY <1>1, <1>9
  <2>2. g[m + 1] = IF tr[m + 1].spent THEN g[m] ELSE g[m] + tr[m + 1].amount
    BY <1>7, <2>1
  <2>3. CASE tr[m + 1].spent
    <3>1. Upto(m + 1) = Upto(m)
      BY <2>3
    <3> HIDE DEF Upto
    <3> QED BY <2>1, <2>2, <2>3, <3>1
  <2>4. CASE ~tr[m + 1].spent
    <3>1. Upto(m + 1) = Upto(m) \cup {ref}
      BY <2>4
    <3>2. ref \notin Upto(m)
      <4> SUFFICES ASSUME NEW i \in 1 .. m, tr[i].ref = ref PROVE FALSE
        OBVIOUS
      <4>1. i = m + 1
        BY <1>2, <2>1
      <4> QED BY <4>1
    <3>3. ref \in refs /\ Upto(m) \subseteq refs /\ tr[m + 1].amount = OutputAt(ref).amount
      BY <1>1, <1>3, <2>1
    <3> HIDE DEF Upto, ref
    <3>4. OutputAt(ref).amount \in Nat /\ Countable(Upto(m))
      BY <3>3, PartCounts DEF Countable
    <3>5. Countable({ref}) /\ ValueOf({ref}) = OutputAt(ref).amount
      BY <3>4, ValueOfOne
    <3>6. ValueOf(Upto(m) \cup {ref}) = ValueOf(Upto(m)) + ValueOf({ref})
      <4>1. Upto(m) \cap {ref} = {}
        BY <3>2
      <4> QED BY <3>4, <3>5, <4>1, ValueOfUnion
    <3> QED BY <2>1, <2>2, <2>4, <3>1, <3>3, <3>5, <3>6
  <2> QED BY <2>3, <2>4
<1>10. n \in P
  <2> HIDE DEF P
  <2> QED BY <1>1, <1>8, <1>9, OverNat
<1>11. g[n] = ValueOf(Upto(n))
  <2>1. n <= n
    BY <1>1
  <2> HIDE DEF Upto
  <2> QED BY <1>10, <2>1
<1> HIDE DEF Upto, P
<1> QED BY <1>4, <1>5, <1>7, <1>11

----------------------------------------------------------------------------
(* Views and payloads.                                                     *)

\* The genesis is the one block at height zero and the first of every order,
\* an order names blocks of the view once each, and a view ends at its highest
\* block.
Viewed ==
    /\ Held \subseteq Ids /\ Genesis \in Held
    /\ \A b \in Held :
         /\ Dag!View(b) \subseteq Held
         /\ nodes[b].height \in Nat /\ (nodes[b].height = 0 <=> b = Genesis)
         /\ \A a \in Dag!View(b) : nodes[a].height <= nodes[b].height
         /\ OrderLen(b) \in Nat \ {0} /\ Order(b)[1] = Genesis
         /\ \A i \in 1 .. OrderLen(b) : Order(b)[i] \in Dag!View(b)
         /\ \A i, j \in 1 .. OrderLen(b) : i # j => Order(b)[i] # Order(b)[j]

\* It follows from the invariant of the ordering layer.
LEMMA DagIsViewed == DP!DInv => Viewed
<1> SUFFICES ASSUME DP!DInv PROVE Viewed
  OBVIOUS
<1>0. DP!DagAssumption /\ DP!Held = Held
  BY SameRules
<1>1. Held \subseteq Ids
  BY <1>0 DEF DP!DInv, DP!Inv, DP!TypeOK
<1>2. /\ Genesis \in Held
      /\ \A b \in Held \ {Genesis} :
           /\ nodes[b].sp \in Held /\ nodes[b].sp \in nodes[b].past
           /\ nodes[nodes[b].sp].height < nodes[b].height
      /\ \A b \in Held : DP!View(b) \subseteq Held /\ nodes[b].height \in Nat
  BY <1>0, DP!Ancestry
<1>3. nodes[Genesis].height = 0
  BY DEF DP!DInv, DP!GenesisStands, DP!GenesisNode
<1>4. ASSUME NEW b \in Held PROVE nodes[b].height = 0 <=> b = Genesis
  BY <1>2, <1>3
<1>5. ASSUME NEW b \in Held, NEW a \in Dag!View(b) PROVE nodes[a].height <= nodes[b].height
  <2>1. a \in Held /\ nodes[a].height \in Nat /\ nodes[b].height \in Nat
    BY <1>2, SameRules
  <2>2. a = b \/ a \in nodes[b].past
    BY DEF Dag!View
  <2>3. a \in nodes[b].past => nodes[a].height < nodes[b].height
    BY <1>0 DEF DP!DInv, DP!Inv, DP!AncestryIsOrdered
  <2> QED BY <2>1, <2>2, <2>3
<1>6. ASSUME NEW b \in Held
      PROVE  /\ OrderLen(b) \in Nat \ {0} /\ Order(b)[1] = Genesis
             /\ \A i \in 1 .. OrderLen(b) : Order(b)[i] \in Dag!View(b)
             /\ \A i, j \in 1 .. OrderLen(b) : i # j => Order(b)[i] # Order(b)[j]
  <2> DEFINE s == Order(b)
             n == OrderLen(b)
  <2>1. s = DP!ConsensusOrder(b) /\ Dag!View(b) = DP!View(b)
    BY SameRules DEF Order
  <2>2. n = DP!Cardinality(DP!View(b))
    BY <2>1, SameRules DEF OrderLen
  <2>3. DP!Numbers(s, n, b)
    <3>1. DP!Numbers(DP!ConsensusOrder(b), DP!Cardinality(DP!View(b)), b)
      BY <1>0, DP!OrderNumbers
    <3> QED BY <2>1, <2>2, <3>1
  <2> HIDE DEF s, n
  <2>4. /\ n \in Nat \ {0}
        /\ \A i \in 1 .. n : s[i] \in DP!View(b) /\ s[i] \in Held
        /\ \A x \in DP!View(b) : \E i \in 1 .. n : s[i] = x
        /\ \A i, j \in 1 .. n : s[i] = s[j] => i = j
    BY <1>0, <2>3 DEF DP!Numbers
  <2>5. s[1] = Genesis
    <3> SUFFICES ASSUME s[1] # Genesis PROVE FALSE
      OBVIOUS
    <3>1. 1 \in 1 .. n
      BY <2>4
    <3>2. s[1] \in Held \ {Genesis}
      BY <2>4, <3>1
    <3>3. nodes[s[1]].sp \in nodes[s[1]].past
      BY <1>2, <3>2
    <3>4. nodes[s[1]].past \subseteq DP!View(b)
      <4>1. s[1] \in DP!View(b)
        BY <2>4, <3>1
      <4>2. s[1] = b \/ s[1] \in nodes[b].past
        BY <4>1 DEF DP!View
      <4>3. s[1] \in nodes[b].past => nodes[s[1]].past \subseteq nodes[b].past
        BY <1>0 DEF DP!DInv, DP!Inv, DP!AncestryIsOrdered
      <4> QED BY <4>2, <4>3 DEF DP!View
    <3>5. PICK i \in 1 .. n : s[i] = nodes[s[1]].sp
      BY <2>4, <3>3, <3>4
    <3>6. i < 1
      <4>1. s[i] \in nodes[s[1]].past
        BY <3>3, <3>5
      <4> QED BY <1>0, <2>3, <3>1, <4>1, DP!PastBefore
    <3> QED BY <3>6
  <2> QED BY <2>1, <2>4, <2>5 DEF s, n
<1>7. \A b \in Held : Dag!View(b) \subseteq Held
  BY <1>2, SameRules
<1> QED BY <1>1, <1>2, <1>4, <1>5, <1>6, <1>7 DEF Viewed

\* The script keeps to the wallets and to its forms: what the pool holds, what
\* the bodies hold and what the blocks carry are bills, a coinbase names the
\* height of its block, and no view holds a coinbase twice.
AreBills(S) == IsFiniteSet(S) /\ \A t \in S : IsBill(t) /\ ~t.coinbase

PoolShaped == AreBills(pool) /\ IsFiniteSet(bodies) /\ AreBills(Transfers(bodies))

BlocksShaped ==
    \A b \in Held :
        /\ IsFiniteSet(payload[b])
        /\ \A t \in payload[b] : IsBill(t) /\ (t.coinbase => t.height = nodes[b].height)
        /\ \A x, y \in Dag!View(b) :
             x # y => Coinbases(payload[x]) \cap Coinbases(payload[y]) = {}

Shaped == PoolShaped /\ BlocksShaped

\* No two transactions of a block have the same id, and ids are ordered.
IdsInOrder == \A b \in Held : Ranked(payload[b])

\* The ledger, the counters and the trackers after the transactions A.
BooksOf(A, l, c, trs) ==
    /\ Balanced(A, l, c)
    /\ \A w \in Wallets : Tracks(trs[w], PaidTo(A, w), l.spent)

\* Nothing applied, nothing booked.
LEMMA BlankBooked == BooksOf({}, New, NoChecks, NoTrackers)
<1>1. Made({}) = {} /\ Consumed(Transfers({})) = {} /\ \A a : PaidTo({}, a) = {}
  BY DEF Made, Consumed, Transfers, PaidTo
<1>2. /\ DOMAIN New.utxos = {} /\ New.spent = {} /\ New.created = 0 /\ New.spentValue = 0
      /\ New.emitted = 0 /\ NoChecks.emitted = 0 /\ NoChecks.treasury = 0
  BY DEF New, NoChecks
<1>3. Countable({}) /\ ValueOf({}) = 0
  <2>1. Countable({})
    BY FS_EmptySet DEF Countable
  <2> QED BY <2>1, ValueType
<1>4. Balanced({}, New, NoChecks)
  BY <1>1, <1>2, <1>3 DEF Balanced, OneSide
<1>5. ASSUME NEW w \in Wallets PROVE Tracks(NoTrackers[w], PaidTo({}, w), New.spent)
  <2>1. NoTrackers[w] = <<>>
    BY DEF NoTrackers
  <2>2. <<>> \in Trackers({}) /\ DOMAIN <<>> = {}
    BY DEF Trackers
  <2> QED BY <1>1, <2>1, <2>2 DEF Tracks
<1> QED BY <1>4, <1>5 DEF BooksOf

\* A valid block in its turn is entered in every book.
LEMMA BookEntered ==
  ASSUME Treasury \notin Wallets, NEW txs, IsBook(txs), NEW A, NEW l, NEW c, NEW trs,
         BooksOf(A, l, c, trs), NEW height, BlockHolds(l, height, txs), InTurn(l, height),
         A \cap Coinbases(txs) = {}
  PROVE  BooksOf(A \cup txs, Commit(l, txs), SlotApplied(c, l.applied),
                 Followed(trs, l.applied, txs))
<1>1. Balanced(A, l, c)
  BY DEF BooksOf
<1>2. Balanced(A \cup txs, Commit(l, txs), SlotApplied(c, l.applied))
  BY <1>1, BlockBooked
<1>3. Commit(l, txs).spent = l.spent \cup Consumed(Transfers(txs))
  BY Committed
<1>4. ASSUME NEW w \in Wallets
      PROVE  Tracks(Followed(trs, l.applied, txs)[w], PaidTo(A \cup txs, w), Commit(l, txs).spent)
  <2>1. Tracks(trs[w], PaidTo(A, w), l.spent) /\ OneSide(l, A) /\ l.applied \in Int
    BY <1>1 DEF BooksOf, Balanced, InTurn
  <2>2. Tracks(Followed(trs, l.applied, txs)[w], PaidTo(A \cup txs, w),
               l.spent \cup Consumed(Transfers(txs)))
    BY <2>1, FollowedTracks
  <2> QED BY <1>3, <2>2
<1> QED BY <1>2, <1>4 DEF BooksOf

\* The transactions of the first i blocks of the order of b.
Carried(b, i) == UNION {payload[Order(b)[j]] : j \in 1 .. i}

\* One more block.
LEMMA CarriedGrows ==
  ASSUME NEW b, NEW i \in Nat
  PROVE  Carried(b, i + 1) = Carried(b, i) \cup payload[Order(b)[i + 1]]
<1>1. ASSUME NEW t PROVE t \in Carried(b, i + 1) <=> t \in Carried(b, i) \/ t \in payload[Order(b)[i + 1]]
  <2>1. \A m : t \in Carried(b, m) <=> \E j \in 1 .. m : t \in payload[Order(b)[j]]
    BY DEF Carried
  <2>2. \A j \in 1 .. i + 1 : j \in 1 .. i \/ j = i + 1
    OBVIOUS
  <2>3. i + 1 \in 1 .. i + 1 /\ \A j \in 1 .. i : j \in 1 .. i + 1
    OBVIOUS
  <2> QED BY <2>1, <2>2, <2>3
<1> QED BY <1>1

\* The bounds under which the books are kept: no wallet is the treasury, the
\* calendar has a slot for every block, and no view holds a coinbase twice.
BooksAssumption ==
    /\ ~TwinsAllowed
    /\ Treasury \notin Wallets
    /\ MinFee \in Nat
    /\ IsFiniteSet(Ids)
    /\ 1 .. Cardinality(Ids) - 1 \subseteq Calendar

\* No order is longer than the ids.
LEMMA ViewsFit ==
  ASSUME BooksAssumption, Viewed, NEW b \in Held
  PROVE  OrderLen(b) <= Cardinality(Ids)
<1>1. Dag!View(b) \in SUBSET Ids
  BY DEF Viewed
<1>2. Cardinality(Dag!View(b)) <= Cardinality(Ids)
  BY <1>1, FS_Subset DEF BooksAssumption
<1> QED BY <1>2 DEF OrderLen

\* A running node has the books of its best order.
LEMMA RunningIsBooked ==
  ASSUME BooksAssumption, Ordered, Viewed, EInv, Shaped, IdsInOrder, Runs
  PROVE  \E A : BooksOf(A, ledger, checks, trackers)
<1>1. Best \in Held /\ Stands
  BY DEF Ordered, EInv
<1>2. PICK n \in Nat, b \in Held :
        /\ n = OrderLen(Best) /\ b = Best /\ n = ledger.applied /\ n \in Nat \ {0}
        /\ n <= Cardinality(Ids)
  BY <1>1, ViewsFit DEF Stands, Ordered
<1>3. PICK g : OkRun(PagesOf(b), n, Blank, g) /\ g[n] = Current
  BY <1>1, <1>2 DEF Stands, Reaches
<1>4. \A i \in 1 .. n : PagesOf(b)[i] = Page(Order(b)[i])
  BY <1>2, PagesAre
<1>5. \A i \in 0 .. n : IsState(g[i]) /\ g[i].ledger.applied = i
  <2>1. IsState(Blank) /\ Blank.ledger.applied \in Nat
    BY BlankIsNew
  <2>2. \A i \in 0 .. n : IsState(g[i]) /\ g[i].ledger.applied = Blank.ledger.applied + i
    <3> DEFINE pages == PagesOf(b)
               r == Blank
    <3>1. n \in Nat
      OBVIOUS
    <3>2. OkRun(pages, n, r, g)
      BY <1>3
    <3>3. IsState(r) /\ r.ledger.applied \in Nat
      BY <2>1
    <3> HIDE DEF pages, r
    <3>4. Advances(pages, n, r, g)
      BY <3>1, <3>2, <3>3, RunStates
    <3> QED BY <3>4 DEF r, Advances
  <2> QED BY <2>2, BlankIsNew
<1> DEFINE A(i) == Carried(b, i)
           Kept(i) == BooksOf(A(i), g[i].ledger, g[i].checks, g[i].trackers)
           P == {i \in Nat : i <= n => Kept(i)}
<1>6. 0 \in P
  <2>1. A(0) = {}
    BY DEF Carried
  <2>2. g[0] = Blank
    BY <1>3 DEF OkRun
  <2>3. Blank.ledger = New /\ Blank.checks = NoChecks /\ Blank.trackers = NoTrackers
    BY DEF Blank
  <2>4. Kept(0)
    BY <2>1, <2>2, <2>3, BlankBooked
  <2> HIDE DEF Kept
  <2> QED BY <2>4
<1>7. ASSUME NEW i \in Nat, i \in P, i + 1 <= n PROVE Kept(i + 1)
  <2>1. Kept(i) /\ i + 1 \in 1 .. n /\ i \in 0 .. n /\ (i + 1) - 1 = i
    <3> HIDE DEF Kept
    <3> QED BY <1>7
  <2> DEFINE x == Order(b)[i + 1]
             txs == payload[x]
             l == g[i].ledger
             c == g[i].checks
             trs == g[i].trackers
  <2>2. x \in Dag!View(b) /\ x \in Held
    BY <1>2, <2>1 DEF Viewed
  <2>3. TakesPage(g[i], Page(x)) /\ g[i + 1] = Taken(g[i], Page(x))
    <3>1. TakesPage(g[i], PagesOf(b)[i + 1]) /\ g[i + 1] = Taken(g[i], PagesOf(b)[i + 1])
      BY <1>3, <2>1 DEF OkRun
    <3> QED BY <1>4, <2>1, <3>1
  <2>4. BlockHolds(l, nodes[x].height, txs)
    BY <2>3 DEF TakesPage, Page
  <2>5. /\ g[i + 1].ledger = Commit(l, txs) /\ g[i + 1].checks = SlotApplied(c, l.applied)
        /\ g[i + 1].trackers = Followed(trs, l.applied, txs)
    BY <2>3 DEF Taken, Page
  <2>6. IsBook(txs)
    BY <2>2 DEF IsBook, Shaped, BlocksShaped, IdsInOrder
  <2>7. InTurn(l, nodes[x].height)
    <3>1. l.applied = i
      BY <1>5, <2>1
    <3>2. i = 0 <=> x = Genesis
      <4>1. 1 \in 1 .. n /\ Order(b)[1] = Genesis
        BY <1>2 DEF Viewed
      <4>2. i # 0 => Order(b)[i + 1] # Order(b)[1]
        <5>1. i # 0 => i + 1 # 1 /\ 1 \in 1 .. OrderLen(b) /\ i + 1 \in 1 .. OrderLen(b)
          BY <1>2, <2>1, <4>1
        <5>2. \A j, k \in 1 .. OrderLen(b) : j # k => Order(b)[j] # Order(b)[k]
          BY DEF Viewed
        <5> QED BY <5>1, <5>2
      <4> QED BY <4>1, <4>2
    <3>3. nodes[x].height = 0 <=> x = Genesis
      BY <2>2 DEF Viewed
    <3>4. i # 0 => i \in Calendar
      <4>1. Cardinality(Ids) \in Nat
        BY FS_CardinalityType DEF BooksAssumption
      <4>2. i # 0 => i \in 1 .. Cardinality(Ids) - 1
        BY <1>2, <1>7, <4>1
      <4> QED BY <4>2 DEF BooksAssumption
    <3> HIDE DEF l, x
    <3> QED BY <3>1, <3>2, <3>3, <3>4 DEF InTurn
  <2>8. A(i) \cap Coinbases(txs) = {}
    <3> SUFFICES ASSUME NEW t \in Coinbases(txs), t \in A(i) PROVE FALSE
      OBVIOUS
    <3>1. PICK j \in 1 .. i : t \in payload[Order(b)[j]]
      BY DEF Carried
    <3>2. j \in 1 .. n /\ j # i + 1
      BY <2>1, <3>1
    <3>3. Order(b)[j] \in Dag!View(b) /\ Order(b)[j] # x
      BY <1>2, <2>1, <3>2 DEF Viewed
    <3>4. t \in Coinbases(payload[Order(b)[j]])
      BY <3>1 DEF Coinbases
    <3> HIDE DEF x
    <3> QED BY <2>2, <3>3, <3>4 DEF Shaped, BlocksShaped
  <2> HIDE DEF txs, l, c, trs
  <2>9. BooksOf(A(i), l, c, trs)
    BY <2>1 DEF l, c, trs
  <2>10. Treasury \notin Wallets
    BY DEF BooksAssumption
  <2>11. BooksOf(A(i) \cup txs, Commit(l, txs), SlotApplied(c, l.applied),
                 Followed(trs, l.applied, txs))
    <3> HIDE DEF A
    <3> QED BY <2>4, <2>6, <2>7, <2>8, <2>9, <2>10, BookEntered
  <2>12. A(i + 1) = A(i) \cup txs
    BY CarriedGrows DEF txs
  <2> QED BY <2>5, <2>11, <2>12
<1>8. \A i \in Nat : i \in P => i + 1 \in P
  <2> HIDE DEF Kept
  <2>1. \A i \in Nat : i \in P /\ i + 1 <= n => Kept(i + 1)
    BY <1>7
  <2> QED BY <2>1
<1>9. Kept(n)
  <2>1. Nat \subseteq P
    <3> HIDE DEF P
    <3> QED BY <1>6, <1>8, OverNat
  <2> HIDE DEF Kept
  <2> QED BY <2>1
<1>10. BooksOf(A(n), Current.ledger, Current.checks, Current.trackers)
  BY <1>3, <1>9
<1>11. Current.ledger = ledger /\ Current.checks = checks /\ Current.trackers = trackers
  BY DEF Current
<1> QED BY <1>10, <1>11

\* The battery's verdicts are what the books say.
LEMMA BooksAreTrue ==
  ASSUME NEW A, BooksOf(A, ledger, checks, trackers)
  PROVE  /\ ledger.created = ledger.spentValue + ledger.emitted
         /\ ledger.emitted = checks.emitted
         /\ Periodic
<1>1. /\ Countable(Made(A)) /\ OneSide(ledger, A)
      /\ \A ref \in DOMAIN ledger.utxos : ledger.utxos[ref].to = OutputAt(ref).to
      /\ ledger.created = ledger.spentValue + ledger.emitted
      /\ checks.emitted = ledger.emitted
      /\ PaidTo(A, Treasury) \cap ledger.spent = {}
      /\ checks.treasury = ValueOf(PaidTo(A, Treasury))
  BY DEF BooksOf, Balanced
<1>2. ASSUME NEW a PROVE TruthOf(a) = PaidTo(A, a) \ ledger.spent
  BY <1>1 DEF TruthOf, PaidTo, OneSide
<1>3. ValueOf(TruthOf(Treasury)) = checks.treasury
  <2>1. TruthOf(Treasury) = PaidTo(A, Treasury)
    BY <1>1, <1>2
  <2> QED BY <1>1, <2>1
<1>4. ASSUME NEW w \in Wallets
      PROVE  Unspent(trackers[w]) = TruthOf(w) /\ UnspentValue(trackers[w]) = ValueOf(TruthOf(w))
  <2>1. PaidTo(A, w) \subseteq Made(A)
    BY DEF PaidTo
  <2>2. Countable(PaidTo(A, w))
    BY <1>1, <2>1, PartCounts
  <2>3. Tracks(trackers[w], PaidTo(A, w), ledger.spent)
    BY DEF BooksOf
  <2>4. /\ Unspent(trackers[w]) = PaidTo(A, w) \ ledger.spent
        /\ UnspentValue(trackers[w]) = ValueOf(PaidTo(A, w) \ ledger.spent)
    BY <2>2, <2>3, TrackerAddsUp
  <2> QED BY <1>2, <2>4
<1> QED BY <1>1, <1>3, <1>4 DEF Periodic

\* So the battery reads true on a running node.
LEMMA RunningIsTrue ==
  ASSUME BooksAssumption, Ordered, Viewed, EInv, Shaped, IdsInOrder
  PROVE  Battery
<1> SUFFICES ASSUME Runs
             PROVE  /\ Check.conservation /\ Check.slotAlignment /\ Check.emissionAccounting
                    /\ Periodic
  BY DEF Battery
<1>1. PICK A : BooksOf(A, ledger, checks, trackers)
  BY RunningIsBooked
<1>2. /\ ledger.created = ledger.spentValue + ledger.emitted
      /\ ledger.emitted = checks.emitted
      /\ Periodic
  BY <1>1, BooksAreTrue
<1>3. Stands /\ Best \in Held
  BY DEF EInv, Ordered
<1>4. BestOrder = Order(Best)
  BY DEF BestOrder, Order
<1>5. ledger.applied = OrderLen(Best) /\ frontier = Best /\ Len(BestOrder) = ledger.applied
  BY <1>3, <1>4 DEF Stands, Ordered
<1> QED BY <1>2, <1>5 DEF Check

----------------------------------------------------------------------------
(* The forms of the script.                                                *)

\* Where an insertion puts the block.
LEMMA NewView ==
  ASSUME DP!DInv, Ordered, Ordered', NEW b \in DP!Header, NEW now, Dag!Insert(b, now)
  PROVE  /\ Held' = Held \cup {b.id} /\ b.id \notin Held /\ b.parents \subseteq Held
         /\ Dag!View(b.id)' = Dag!PastOf(b.parents) \cup {b.id}
         /\ nodes'[b.id].height = b.height
         /\ \A p \in b.parents : nodes[p].height < b.height
         /\ \A x \in Held : Dag!View(x)' = Dag!View(x) /\ nodes'[x].height = nodes[x].height
<1>1. DP!DagAssumption /\ DP!Insert(b, now) /\ DP!Held = Held
  BY SameRules
<1>2. DP!Held' = Held'
  BY DEF DP!Held, Held
<1>3. /\ DP!Held' = DP!Held \cup {b.id} /\ b.id \notin DP!Held
      /\ \A x \in DP!Held : DP!View(x)' = DP!View(x) /\ nodes'[x].height = nodes[x].height
  BY <1>1, DP!OrderStays DEF Ordered
<1>4. b.parents \subseteq Held /\ \A p \in b.parents : nodes[p].height < b.height
  BY <1>1, DP!WhatIsEntered DEF DP!DInv
<1>5. /\ nodes'[b.id].past = DP!PastOf(b.parents) /\ nodes'[b.id].height = b.height
  <2>1. PICK sp, blues : nodes' = DP!Linked(b, DP!NewNode(b, sp, blues))
    BY <1>1, Zenon DEF DP!Insert
  <2>2. nodes'[b.id] = DP!NewNode(b, sp, blues)
    <3>1. DP!TypeOK
      BY DEF DP!DInv, DP!Inv
    <3>2. b.parents \subseteq DP!Held => nodes'[b.id] = DP!NewNode(b, sp, blues)
      BY <1>1, <1>3, <2>1, <3>1, DP!Entered
    <3> QED BY <1>1, <1>4, <3>2
  <2> QED BY <2>2 DEF DP!NewNode
<1>6. Dag!View(b.id)' = Dag!PastOf(b.parents) \cup {b.id}
  BY <1>5, SameRules DEF Dag!View
<1>7. ASSUME NEW x \in Held PROVE Dag!View(x)' = Dag!View(x)
  <2>1. x \in Held' /\ x \in DP!Held
    BY <1>1, <1>2, <1>3
  <2>2. Dag!View(x)' = DP!View(x)' /\ Dag!View(x) = DP!View(x)
    BY <2>1 DEF Ordered
  <2> QED BY <1>3, <2>1, <2>2
<1> QED BY <1>1, <1>2, <1>3, <1>4, <1>5, <1>6, <1>7

\* The coinbase a wallet mints.
LEMMA MintIsBill ==
  ASSUME NEW slot \in Calendar, NEW fees \in Nat, NEW w \in Wallets, NEW height,
         NEW t, t = CoinbaseOf(w, height, slot, fees)
  PROVE  IsBill(t) /\ t.coinbase /\ t.height = height
<1> DEFINE reward == RewardOfSlot(slot)
           share == TreasuryShareOf(RewardOfSlot(slot))
           a == [to |-> w, amount |-> reward + fees - share]
           b == [to |-> Treasury, amount |-> share]
           c == [to |-> w, amount |-> reward + fees]
<1>1. reward \in Nat /\ share \in 0 .. reward
  BY RewardType
<1>2. t.outputs = <<a, b>> \/ t.outputs = <<c>>
  BY DEF CoinbaseOf, CoinbaseOutputs
<1>3. t.coinbase = TRUE /\ t.fee = 0 /\ t.height = height
  BY DEF CoinbaseOf
<1>4. a.amount \in Nat /\ b.amount \in Nat /\ c.amount \in Nat /\ a.to = w /\ c.to = w
  <2> HIDE DEF reward, share
  <2> QED BY <1>1
<1> HIDE DEF a, b, c
<1>5. t.outputs[1].to = w /\ \E n \in Nat : HasList(t, n)
  <2>1. CASE t.outputs = <<a, b>>
    <3>1. DOMAIN t.outputs = 1 .. 2 /\ t.outputs[1] = a /\ t.outputs[2] = b
      BY <2>1
    <3>2. HasList(t, 2)
      BY <1>4, <3>1 DEF HasList
    <3> QED BY <1>4, <3>1, <3>2
  <2>2. CASE t.outputs = <<c>>
    <3>1. DOMAIN t.outputs = 1 .. 1 /\ t.outputs[1] = c
      BY <2>2
    <3>2. HasList(t, 1)
      BY <1>4, <3>1 DEF HasList
    <3> QED BY <1>4, <3>1, <3>2
  <2> QED BY <1>2, <2>1, <2>2
<1>6. t.coinbase /\ t.coinbase \in BOOLEAN /\ t.fee \in Nat /\ t.outputs[1].to \in Wallets
  <2>1. t.coinbase
    BY <1>3, Zenon
  <2>2. t.coinbase \in BOOLEAN
    BY <1>3, Zenon
  <2> QED BY <1>3, <1>5, <2>1, <2>2
<1>7. IsBill(t)
  BY <1>5, <1>6, Zenon DEF IsBill
<1> QED BY <1>3, <1>6, <1>7, Zenon

\* The transfer a wallet builds on an output that bears it.
LEMMA SpendIsBill ==
  ASSUME MinFee \in Nat, NEW w \in Wallets, NEW d \in Wallets, NEW ref, NEW value \in Nat,
         NEW amount \in Nat, CanSpend(value, amount),
         NEW t, t = SpendOne(w, ref, value, d, amount)
  PROVE  IsBill(t) /\ ~t.coinbase
<1> DEFINE a == [to |-> d, amount |-> amount]
           b == [to |-> w, amount |-> value - amount - MinFee]
<1>1. /\ t.coinbase = FALSE /\ t.fee = MinFee /\ t.outputs = <<a, b>>
      /\ t.inputs = {[ref |-> ref, key |-> w]}
  BY DEF SpendOne
<1>2. a.amount \in Nat /\ b.amount \in Nat /\ a.to = d /\ b.to = w
  BY DEF CanSpend
<1> HIDE DEF a, b
<1>3. DOMAIN t.outputs = 1 .. 2 /\ t.outputs[1] = a /\ t.outputs[2] = b
  BY <1>1
<1>4. HasList(t, 2)
  BY <1>2, <1>3 DEF HasList
<1>5. \A input \in t.inputs : input.key \in Wallets
  BY <1>1
<1>6. \A i \in DOMAIN t.outputs : t.outputs[i].to \in Wallets
  BY <1>2, <1>3
<1> QED BY <1>1, <1>4, <1>5, <1>6 DEF IsBill

\* The fees of bills add up.
LEMMA FeesAdd ==
  ASSUME NEW S, AreBills(S)
  PROVE  FeesOf(S) \in Nat /\ Transfers(S) = S
<1> DEFINE fees == [t \in Transfers(S) |-> t.fee]
<1>1. Transfers(S) = S
  BY DEF Transfers, AreBills
<1>2. FeesOf(S) = SumFunctionOnSet(fees, S)
  BY <1>1 DEF FeesOf, SumFunction
<1>3. \A t \in S : fees[t] \in Nat
  BY <1>1 DEF AreBills, IsBill
<1> HIDE DEF fees
<1>4. SumFunctionOnSet(fees, S) \in Nat
  <2>1. Nat \in {Nat, Int} /\ IsFiniteSet(S)
    BY DEF AreBills
  <2> QED BY <1>3, <2>1, SumType
<1> QED BY <1>1, <1>2, <1>4

\* A payload the assembler makes of them.
LEMMA PayloadIsShaped ==
  ASSUME NEW S, AreBills(S), NEW len, NEW height, NEW txs, txs = PayloadOn(height, len, S)
  PROVE  /\ IsFiniteSet(txs) /\ Transfers(txs) = S
         /\ \A t \in Coinbases(txs) : t.height = height
         /\ len \in Calendar => \A t \in txs : IsBill(t)
<1> DEFINE c == CoinbaseOf("miner", height, len, FeesOf(S))
<1>1. txs = S \cup {c} /\ c.coinbase = TRUE /\ c.height = height
  BY DEF PayloadOn, CoinbaseOf
<1>2. len \in Calendar => IsBill(c)
  BY FeesAdd, MintIsBill DEF Wallets
<1> HIDE DEF c
<1>3. IsFiniteSet(txs)
  BY <1>1, FS_AddElement DEF AreBills
<1> QED BY <1>1, <1>2, <1>3 DEF AreBills, Transfers, Coinbases

\* A tracker's credits are a finite set of numbers.
LEMMA TrackerCredits ==
  ASSUME NEW refs, NEW tr \in Trackers(refs)
  PROVE  IsFiniteSet(ToSet(tr)) /\ \A c \in ToSet(tr) : c.amount \in Nat
<1> DEFINE E == [ref : refs, amount : Nat, slot : Int, spent : BOOLEAN]
<1>1. tr \in Seq(E) /\ \A c \in E : c.amount \in Nat
  BY DEF Trackers
<1> HIDE DEF E
<1>2. PICK n \in Nat : n = Len(tr) /\ DOMAIN tr = 1 .. n /\ \A i \in 1 .. n : tr[i] \in E
  BY <1>1
<1> DEFINE f == [i \in 1 .. n |-> tr[i]]
           T == ToSet(tr)
<1>3. f \in Surjection(1 .. n, T)
  BY <1>2 DEF Surjection, ToSet, Range
<1>4. IsFiniteSet(1 .. n)
  BY FirstNumbers
<1>5. IsFiniteSet(T)
  <2> HIDE DEF f, T
  <2> QED BY <1>3, <1>4, FS_Surjection
<1> QED BY <1>1, <1>2, <1>5 DEF ToSet

\* What another participant may put in a block.
LEMMA RivalsAreBills ==
  ASSUME MinFee \in Nat, NEW refs, trackers["miner"] \in Trackers(refs)
  PROVE  AreBills(Rivals)
<1> DEFINE C == {x \in ToSet(trackers["miner"]) : CanSpend(x.amount, x.amount \div 2)}
           Spend(c) == SpendOne("miner", c.ref, c.amount, "bob", c.amount \div 2)
           f == [c \in C |-> Spend(c)]
<1>1. IsFiniteSet(C) /\ \A c \in C : c.amount \in Nat /\ CanSpend(c.amount, c.amount \div 2)
  <2>1. IsFiniteSet(ToSet(trackers["miner"])) /\ \A c \in ToSet(trackers["miner"]) : c.amount \in Nat
    BY TrackerCredits
  <2>2. C \in SUBSET ToSet(trackers["miner"])
    OBVIOUS
  <2>3. IsFiniteSet(C)
    <3> HIDE DEF C
    <3> QED BY <2>1, <2>2, FS_Subset
  <2> QED BY <2>1, <2>3
<1>2. Rivals = {Spend(c) : c \in C}
  BY Zenon DEF Rivals
<1> HIDE DEF C
<1>3. ASSUME NEW c \in C PROVE IsBill(Spend(c)) /\ ~Spend(c).coinbase
  <2>1. c.amount \in Nat /\ c.amount \div 2 \in Nat /\ CanSpend(c.amount, c.amount \div 2)
    BY <1>1
  <2>2. "miner" \in Wallets /\ "bob" \in Wallets
    BY DEF Wallets
  <2> QED BY <2>1, <2>2, SpendIsBill
<1> HIDE DEF Spend
<1>4. f \in Surjection(C, Rivals)
  BY <1>2 DEF Surjection, Range
<1>5. IsFiniteSet(Rivals)
  <2> HIDE DEF f
  <2> QED BY <1>1, <1>4, FS_Surjection
<1> QED BY <1>2, <1>3, <1>5 DEF AreBills

\* What a step inserts: a payload of the assembler on a view with no twins.
Inserted(b, txs) ==
    /\ b \in DP!Header /\ Dag!Insert(b, b.time)
    /\ payload' = [x \in Held \cup {b.id} |-> IF x = b.id THEN txs ELSE payload[x]]
    /\ IsFiniteSet(txs) /\ \A t \in txs : IsBill(t)
    /\ \A t \in Coinbases(txs) : t.height = b.height
    /\ \A x \in Dag!PastOf(b.parents) :
         /\ Coinbases(payload[x]) \cap Coinbases(txs) = {}
         /\ \A y \in Dag!PastOf(b.parents) :
              x # y => Coinbases(payload[x]) \cap Coinbases(payload[y]) = {}

\* An insertion keeps the forms of the blocks.
LEMMA InsertShapes ==
  ASSUME DP!DInv, Ordered, Ordered', Viewed, BlocksShaped, NEW b, NEW txs, Inserted(b, txs)
  PROVE  BlocksShaped'
<1>1. /\ Held' = Held \cup {b.id} /\ b.id \notin Held /\ b.parents \subseteq Held
      /\ Dag!View(b.id)' = Dag!PastOf(b.parents) \cup {b.id}
      /\ nodes'[b.id].height = b.height
      /\ \A x \in Held : Dag!View(x)' = Dag!View(x) /\ nodes'[x].height = nodes[x].height
  BY NewView DEF Inserted
<1>2. Dag!PastOf(b.parents) \subseteq Held
  <2>1. \A x \in Dag!PastOf(b.parents) : \E p \in b.parents : x \in Dag!View(p)
    BY DEF Dag!PastOf, Dag!View
  <2> QED BY <1>1, <2>1 DEF Viewed
<1>3. payload'[b.id] = txs /\ \A x \in Held : payload'[x] = payload[x]
  BY <1>1 DEF Inserted
<1>4. ASSUME NEW x \in Held
      PROVE  /\ IsFiniteSet(payload'[x])
             /\ \A t \in payload'[x] : IsBill(t) /\ (t.coinbase => t.height = nodes'[x].height)
             /\ \A y, z \in Dag!View(x)' :
                  y # z => Coinbases(payload'[y]) \cap Coinbases(payload'[z]) = {}
  <2>1. Dag!View(x) \subseteq Held
    BY DEF Viewed
  <2> QED BY <1>1, <1>3, <2>1 DEF BlocksShaped
<1>5. \A t \in txs : IsBill(t) /\ (t.coinbase => t.height = nodes'[b.id].height)
  BY <1>1 DEF Inserted, Coinbases
<1>6. ASSUME NEW y \in Dag!View(b.id)', NEW z \in Dag!View(b.id)', y # z
      PROVE  Coinbases(payload'[y]) \cap Coinbases(payload'[z]) = {}
  <2>1. CASE y = b.id
    <3>1. z \in Dag!PastOf(b.parents)
      BY <1>1, <1>6, <2>1
    <3> QED BY <1>2, <1>3, <2>1, <3>1 DEF Inserted
  <2>2. CASE z = b.id
    <3>1. y \in Dag!PastOf(b.parents)
      BY <1>1, <1>6, <2>2
    <3> QED BY <1>2, <1>3, <2>2, <3>1 DEF Inserted
  <2>3. CASE y # b.id /\ z # b.id
    <3>1. y \in Dag!PastOf(b.parents) /\ z \in Dag!PastOf(b.parents)
      BY <1>1, <2>3
    <3> QED BY <1>2, <1>3, <1>6, <3>1 DEF Inserted
  <2> QED BY <2>1, <2>2, <2>3
<1>7. IsFiniteSet(txs)
  BY DEF Inserted
<1> QED BY <1>1, <1>3, <1>4, <1>5, <1>6, <1>7 DEF BlocksShaped

\* As long as an id is left, a view has its next slot in the calendar.
LEMMA SlotLeft ==
  ASSUME BooksAssumption, Viewed, NEW id \in Ids \ Held, NEW S \in SUBSET Held, S # {}
  PROVE  Cardinality(S) \in Calendar
<1>1. IsFiniteSet(Ids) /\ Held \subseteq Ids /\ 1 .. Cardinality(Ids) - 1 \subseteq Calendar
  BY DEF BooksAssumption, Viewed
<1>2. S \in SUBSET (Ids \ {id})
  BY <1>1
<1>3. IsFiniteSet(Ids \ {id}) /\ Cardinality(Ids \ {id}) = Cardinality(Ids) - 1
  BY <1>1, FS_RemoveElement
<1>4. IsFiniteSet(S) /\ Cardinality(S) <= Cardinality(Ids) - 1
  BY <1>2, <1>3, FS_Subset
<1>5. Cardinality(S) \in Nat /\ Cardinality(S) # 0 /\ Cardinality(Ids) \in Nat
  BY <1>1, <1>4, FS_CardinalityType, FS_EmptySet
<1>6. Cardinality(S) \in 1 .. Cardinality(Ids) - 1
  BY <1>4, <1>5
<1> QED BY <1>1, <1>6

\* What the assembler takes leaves the pool for the bodies.
LEMMA SomeLeave ==
  ASSUME PoolShaped, NEW S \in SUBSET pool, NEW len, NEW height, MP!Take(S),
         RegisterPayload(PayloadOn(height, len, S))
  PROVE  AreBills(S) /\ PoolShaped'
<1> DEFINE txs == PayloadOn(height, len, S)
<1>1. AreBills(S)
  BY FS_Subset DEF PoolShaped, AreBills
<1>2. IsFiniteSet(txs) /\ Transfers(txs) = S
  BY <1>1, PayloadIsShaped
<1>3. pool' = pool \ S /\ bodies' = bodies \cup txs
  BY SamePool DEF RegisterPayload
<1> HIDE DEF txs
<1>4. IsFiniteSet(bodies')
  BY <1>2, <1>3, FS_Union DEF PoolShaped
<1>5. Transfers(bodies') = Transfers(bodies) \cup S
  BY <1>2, <1>3, Distribute
<1>6. AreBills(Transfers(bodies'))
  BY <1>1, <1>5, FS_Union DEF PoolShaped, AreBills
<1>7. pool' \in SUBSET pool
  BY <1>3
<1>8. AreBills(pool')
  BY <1>7, FS_Subset DEF PoolShaped, AreBills
<1> QED BY <1>1, <1>4, <1>6, <1>8 DEF PoolShaped

\* A block of this node is an insertion in form.
LEMMA MineShapes ==
  ASSUME BooksAssumption, DP!DInv, Ordered, Viewed, Shaped,
         NEW id \in Ids \ Held, NEW time \in Times, MineAndApply(id, time)
  PROVE  PoolShaped' /\ \E b, txs : Inserted(b, txs)
<1> DEFINE height == nodes[Best].height + 1
           b == HeaderOn(id, {Best}, height, time)
           len == OrderLen(Best)
<1>1. PICK S \in SUBSET pool :
        /\ MP!Take(S) /\ RegisterPayload(PayloadOn(b.height, len, S))
        /\ InsertBlock(b, PayloadOn(b.height, len, S))
  BY Zenon DEF MineAndApply
<1> DEFINE txs == PayloadOn(height, len, S)
<1>2. /\ b.id = id /\ b.parents = {Best} /\ b.height = height /\ b.time = time
  BY DEF HeaderOn
<1>3. /\ MP!Take(S) /\ RegisterPayload(txs) /\ InsertBlock(b, txs)
  BY <1>1, <1>2
<1>4. AreBills(S) /\ PoolShaped'
  BY <1>3, SomeLeave DEF Shaped
<1>5. Best \in Held /\ Dag!View(Best) \subseteq Held /\ Dag!View(Best) # {}
  BY DEF Ordered, Viewed, Dag!View
<1>6. len \in Calendar
  BY <1>5, SlotLeft DEF OrderLen
<1>7. /\ IsFiniteSet(txs) /\ \A t \in txs : IsBill(t)
      /\ \A t \in Coinbases(txs) : t.height = height
  BY <1>4, <1>6, PayloadIsShaped
<1>8. /\ Dag!Insert(b, b.time) 
      /\ payload' = [x \in Held \cup {b.id} |-> IF x = b.id THEN txs ELSE payload[x]]
  BY <1>3, Zenon DEF InsertBlock
<1>9. b \in DP!Header
  <2>1. {Best} \in SUBSET Held /\ id \in Ids
    BY <1>5
  <2>2. Dag!Insert(HeaderOn(id, {Best}, height, time), time)
    BY <1>2, <1>8
  <2> QED BY <2>1, <2>2, HeaderFits
<1>10. Dag!PastOf(b.parents) = Dag!View(Best)
  BY <1>2 DEF Dag!PastOf, Dag!View
<1> HIDE DEF txs, b, height
<1>11. ASSUME NEW x \in Dag!View(Best), NEW t \in Coinbases(payload[x]), t \in Coinbases(txs)
       PROVE  FALSE
  <2>1. x \in Held /\ nodes[x].height \in Nat /\ nodes[x].height <= nodes[Best].height
        /\ nodes[Best].height \in Nat
    BY <1>5 DEF Viewed
  <2>2. t.height = nodes[x].height
    BY <1>11, <2>1 DEF Shaped, BlocksShaped, Coinbases
  <2>3. t.height = nodes[Best].height + 1
    BY <1>7, <1>11 DEF height
  <2> QED BY <2>1, <2>2, <2>3
<1>12. ASSUME NEW x \in Dag!View(Best), NEW y \in Dag!View(Best), x # y
       PROVE  Coinbases(payload[x]) \cap Coinbases(payload[y]) = {}
  BY <1>5, <1>12 DEF Shaped, BlocksShaped
<1>13. Inserted(b, txs)
  BY <1>2, <1>7, <1>8, <1>9, <1>10, <1>11, <1>12 DEF Inserted
<1> QED BY <1>4, <1>13

\* So is the block of another participant.
LEMMA RemoteShapes ==
  ASSUME BooksAssumption, DP!DInv, Ordered, Viewed, Shaped,
         NEW refs, trackers["miner"] \in Trackers(refs),
         NEW id \in Ids \ Held, NEW parents \in SUBSET Held, parents # {}, NEW time \in Times,
         RemoteBlock(id, parents, time)
  PROVE  PoolShaped' /\ \E b, txs : Inserted(b, txs)
<1> DEFINE past == Dag!PastOf(parents)
           len == Cardinality(past)
<1>1. PICK S, known, height :
        /\ S \in UNION {kSubset(n, RemoteTransfers) : n \in 0 .. MaxForeign}
        /\ TwinsAllowed \/ TwinFree(parents, PayloadOn(height, len, S))
        /\ RegisterPayload(IF known THEN PayloadOn(height, len, S) ELSE {})
        /\ InsertBlock(HeaderOn(id, parents, height, time), PayloadOn(height, len, S))
        /\ UNCHANGED poolVars
  BY Zenon DEF RemoteBlock
<1> DEFINE txs == PayloadOn(height, len, S)
           b == HeaderOn(id, parents, height, time)
<1>2. /\ b.id = id /\ b.parents = parents /\ b.height = height /\ b.time = time
  BY DEF HeaderOn
<1>3. AreBills(S)
  <2>1. AreBills(Rivals) /\ AreBills(Transfers(bodies))
    BY RivalsAreBills DEF BooksAssumption, Shaped, PoolShaped
  <2>2. AreBills(RemoteTransfers)
    BY <2>1, FS_Union DEF RemoteTransfers, AreBills
  <2>3. S \in SUBSET RemoteTransfers
    BY <1>1 DEF kSubset
  <2> QED BY <2>2, <2>3, FS_Subset DEF AreBills
<1>4. /\ past \subseteq Held /\ past # {}
  <2>1. \A x \in past : \E p \in parents : x \in Dag!View(p)
    BY DEF Dag!PastOf, Dag!View
  <2>2. parents \subseteq past
    BY DEF Dag!PastOf
  <2> QED BY <2>1, <2>2 DEF Viewed
<1>5. len \in Calendar
  <2> HIDE DEF past
  <2> QED BY <1>4, SlotLeft
<1>6. /\ IsFiniteSet(txs) /\ \A t \in txs : IsBill(t) /\ Transfers(txs) = S
      /\ \A t \in Coinbases(txs) : t.height = height
  BY <1>3, <1>5, PayloadIsShaped
<1>7. /\ Dag!Insert(b, b.time)
      /\ payload' = [x \in Held \cup {b.id} |-> IF x = b.id THEN txs ELSE payload[x]]
  BY <1>1, Zenon DEF InsertBlock
<1>8. b \in DP!Header
  <2>1. id \in Ids /\ Dag!Insert(HeaderOn(id, parents, height, time), time)
    BY <1>2, <1>7
  <2> QED BY <2>1, HeaderFits
<1>9. TwinFree(parents, txs)
  BY <1>1 DEF BooksAssumption
<1>10. ASSUME NEW x \in past
       PROVE  /\ Coinbases(payload[x]) \cap Coinbases(txs) = {}
              /\ \A y \in past : x # y => Coinbases(payload[x]) \cap Coinbases(payload[y]) = {}
  <2> DEFINE rest == UNION {payload[y] : y \in past \ {x}}
             own == Coinbases(txs)
  <2>1. Coinbases(payload[x]) \cap (own \cup rest) = {}
    BY <1>9, Zenon DEF TwinFree
  <2>2. \A y \in past : x # y => Coinbases(payload[y]) \subseteq rest
    BY DEF Coinbases
  <2> HIDE DEF rest, own
  <2>3. Coinbases(payload[x]) \cap own = {}
    BY <2>1, Zenon
  <2>4. ASSUME NEW y \in past, x # y
        PROVE  Coinbases(payload[x]) \cap Coinbases(payload[y]) = {}
    BY <2>1, <2>2, <2>4, Zenon
  <2> QED BY <2>3, <2>4, Zenon DEF own
<1>11. Transfers(txs) = S /\ IsFiniteSet(txs)
  BY <1>3, PayloadIsShaped
<1> HIDE DEF txs, b
<1>12. Inserted(b, txs)
  BY <1>2, <1>6, <1>7, <1>8, <1>10 DEF Inserted
<1>13. PoolShaped'
  <2> DEFINE added == IF known THEN txs ELSE {}
  <2>1. IsFiniteSet(added) /\ AreBills(Transfers(added))
    <3>1. AreBills(Transfers(txs))
      BY <1>3, <1>11
    <3>2. IsFiniteSet({}) /\ AreBills(Transfers({}))
      BY FS_EmptySet DEF AreBills, Transfers
    <3> QED BY <1>11, <3>1, <3>2
  <2>2. bodies' = bodies \cup added /\ pool' = pool
    BY <1>1 DEF RegisterPayload, poolVars, txs
  <2> HIDE DEF added
  <2>3. IsFiniteSet(bodies')
    BY <2>1, <2>2, FS_Union DEF Shaped, PoolShaped
  <2>4. Transfers(bodies') = Transfers(bodies) \cup Transfers(added)
    BY <2>2, Distribute
  <2>5. AreBills(Transfers(bodies'))
    BY <2>1, <2>4, FS_Union DEF Shaped, PoolShaped, AreBills
  <2> QED BY <2>2, <2>3, <2>5 DEF Shaped, PoolShaped
<1> QED BY <1>12, <1>13

\* The script admits bills.
LEMMA ActivityShapes ==
  ASSUME BooksAssumption, PoolShaped, NEW w \in Wallets, NEW d \in Wallets, NEW n \in Nat \ {0},
         NEW refs, trackers[w] \in Trackers(refs), Activity(w, d, n)
  PROVE  PoolShaped'
<1>1. PICK c \in FirstSpendable(trackers[w], ledger.applied) :
        \/ UNCHANGED poolVars
        \/ /\ CanSpend(c.amount, c.amount \div n)
           /\ MP!Admit(SpendOne(w, c.ref, c.amount, d, c.amount \div n))
  BY Zenon DEF Activity
<1>2. UNCHANGED bodies
  BY Zenon DEF Activity
<1>3. CASE UNCHANGED poolVars
  BY <1>2, <1>3 DEF poolVars, PoolShaped
<1>4. CASE /\ CanSpend(c.amount, c.amount \div n)
           /\ MP!Admit(SpendOne(w, c.ref, c.amount, d, c.amount \div n))
  <2> DEFINE t == SpendOne(w, c.ref, c.amount, d, c.amount \div n)
  <2>1. c \in ToSet(trackers[w])
    BY DEF FirstSpendable, ToSet
  <2>2. c.amount \in Nat /\ c.amount \div n \in Nat
    BY <2>1, TrackerCredits
  <2>3. IsBill(t) /\ ~t.coinbase
    BY <1>4, <2>2, SpendIsBill DEF BooksAssumption
  <2>4. pool' = pool \cup {t}
    BY <1>4, SamePool
  <2> HIDE DEF t
  <2>5. AreBills(pool')
    BY <2>3, <2>4, FS_AddElement DEF PoolShaped, AreBills
  <2> QED BY <1>2, <2>5 DEF PoolShaped
<1> QED BY <1>1, <1>3, <1>4

\* The genesis carries nothing.
LEMMA InitShapes ==
  ASSUME Init
  PROVE  Shaped
<1>1. /\ Held = {Genesis} /\ payload = [b \in {Genesis} |-> {}] /\ nodes[Genesis].past = {}
      /\ pool = {} /\ bodies = {}
  BY DEF Init, Dag!Init, Dag!GenesisNode, Held
<1>2. Transfers({}) = {} /\ IsFiniteSet({})
  BY FS_EmptySet DEF Transfers
<1>3. PoolShaped
  BY <1>1, <1>2 DEF PoolShaped, AreBills
<1>4. Dag!View(Genesis) = {Genesis} /\ payload[Genesis] = {}
  BY <1>1 DEF Dag!View
<1>5. BlocksShaped
  BY <1>1, <1>2, <1>4 DEF BlocksShaped
<1> QED BY <1>3, <1>5 DEF Shaped

\* The views and the payloads of a step that orders nothing.
LEMMA LeavesShapes ==
  ASSUME BlocksShaped, UNCHANGED <<nodes, payload>>
  PROVE  BlocksShaped'
<1>1. Held' = Held
  BY DEF Held
<1>2. \A b : Dag!View(b)' = Dag!View(b)
  BY DEF Dag!View
<1> QED BY <1>1, <1>2 DEF BlocksShaped

\* The forms are kept by every step.
LEMMA ShapedStep ==
  ASSUME BooksAssumption, DP!DInv, Ordered, Ordered', Viewed, EInv, IdsInOrder, Shaped, [Next]_vars
  PROVE  Shaped'
<1>1. CASE UNCHANGED vars
  <2>1. UNCHANGED <<nodes, payload, pool, bodies>>
    BY <1>1 DEF vars, dagVars, poolVars
  <2>2. PoolShaped'
    BY <2>1 DEF Shaped, PoolShaped
  <2> QED BY <2>1, <2>2, LeavesShapes DEF Shaped
<1>2. ASSUME PoolShaped', NEW b, NEW txs, Inserted(b, txs)
      PROVE  Shaped'
  <2>1. BlocksShaped'
    BY <1>2, InsertShapes DEF Shaped
  <2> QED BY <1>2, <2>1 DEF Shaped
<1>3. ASSUME NEW id \in Ids \ Held, NEW time \in Times, MineAndApply(id, time)
      PROVE  Shaped'
  <2>1. PoolShaped' /\ \E b, txs : Inserted(b, txs)
    BY <1>3, MineShapes
  <2> QED BY <1>2, <2>1
<1>4. ASSUME MiningExhausted
      PROVE  Shaped'
  <2>1. PICK S \in SUBSET pool :
          /\ MP!Take(S) /\ RegisterPayload(PayloadOn(nodes[Best].height + 1, OrderLen(Best), S))
          /\ UNCHANGED <<dagVars, payload, stateVars>>
    BY <1>4, Zenon DEF MiningExhausted
  <2>2. PoolShaped'
    BY <2>1, SomeLeave DEF Shaped
  <2>3. UNCHANGED <<nodes, payload>>
    BY <2>1 DEF dagVars
  <2> QED BY <2>2, <2>3, LeavesShapes DEF Shaped
<1>5. ASSUME Next
      PROVE  \A w \in Wallets : \E refs : trackers[w] \in Trackers(refs)
  <2>1. Runs
    BY <1>5, Zenon DEF Next
  <2>2. PICK A : BooksOf(A, ledger, checks, trackers)
    BY <2>1, RunningIsBooked
  <2> QED BY <2>2 DEF BooksOf, Tracks
<1>6. ASSUME Next, NEW id \in Ids \ Held, NEW parents \in SUBSET Held, NEW time \in Times,
             Cardinality(parents) \in 1 .. MaxParents, RemoteBlock(id, parents, time)
      PROVE  Shaped'
  <2>1. PICK refs : trackers["miner"] \in Trackers(refs)
    BY <1>5, <1>6 DEF Wallets
  <2>2. parents # {}
    BY <1>6, FS_EmptySet
  <2>3. PoolShaped' /\ \E b, txs : Inserted(b, txs)
    BY <1>6, <2>1, <2>2, RemoteShapes
  <2> QED BY <1>2, <2>3
<1>7. ASSUME Next, NEW w \in Wallets, NEW d \in Wallets, NEW n \in Nat \ {0}, Activity(w, d, n)
      PROVE  Shaped'
  <2>1. PICK refs : trackers[w] \in Trackers(refs)
    BY <1>5, <1>7
  <2>2. PoolShaped'
    BY <1>7, <2>1, ActivityShapes DEF Shaped
  <2>3. UNCHANGED <<nodes, payload>>
    <3>1. UNCHANGED <<dagVars, payload>>
      BY <1>7, Zenon DEF Activity
    <3> QED BY <3>1 DEF dagVars
  <2> QED BY <2>2, <2>3, LeavesShapes DEF Shaped
<1>8. ASSUME Next, ActivityMiner \/ ActivityAlice
      PROVE  Shaped'
  <2>1. /\ "miner" \in Wallets /\ "alice" \in Wallets /\ "bob" \in Wallets
        /\ 2 \in Nat \ {0} /\ 3 \in Nat \ {0}
    BY DEF Wallets
  <2>2. Activity("miner", "alice", 3) \/ Activity("alice", "bob", 2)
    BY <1>8 DEF ActivityMiner, ActivityAlice
  <2> QED BY <1>7, <1>8, <2>1, <2>2
<1>9. CASE Next
  <2>1. \/ \E id \in Ids \ Held, time \in Times : MineAndApply(id, time)
        \/ MiningExhausted
        \/ \E id \in Ids \ Held, parents \in SUBSET Held, time \in Times :
             Cardinality(parents) \in 1 .. MaxParents /\ RemoteBlock(id, parents, time)
        \/ ActivityMiner \/ ActivityAlice
    BY <1>9, Zenon DEF Next
  <2> QED BY <1>3, <1>4, <1>6, <1>8, <1>9, <2>1
<1> QED BY <1>1, <1>9

\* The battery reads true on a running node: the applied slots end at the best
\* tip, the emission and the treasury are the calendar's, and every tracker is
\* the ledger's truth, under the bounds of BooksAssumption and as long as no
\* two transactions of a block share an id (engine.rs, sync_ledger and follow;
\* invariants.rs, check and periodic).
THEOREM BatteryHolds ==
  ASSUME BooksAssumption
  PROVE  Spec /\ []IdsInOrder => []Battery
<1>1. Init => Shaped
  BY InitShapes
<1>2. /\ DP!DInv /\ Ordered /\ Ordered' /\ EInv /\ IdsInOrder /\ Shaped /\ [Next]_vars
      => Shaped'
  BY DagIsViewed, ShapedStep
<1>3. Spec /\ []IdsInOrder => []Shaped
  BY <1>1, <1>2, DagAlways, EngineAlways, PTL DEF Spec
<1>4. DP!DInv /\ Ordered /\ EInv /\ Shaped /\ IdsInOrder => Battery
  BY DagIsViewed, RunningIsTrue
<1> QED BY <1>3, <1>4, DagAlways, EngineAlways, PTL

=============================================================================
