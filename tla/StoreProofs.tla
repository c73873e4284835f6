----------------------------- MODULE StoreProofs ----------------------------
(***************************************************************************)
(* The production store is the reference Dag, for every set of ids, every  *)
(* K, every window and every bound on the walk: its shortcuts give the     *)
(* same answers, and its materialized order is the reference order.        *)
(***************************************************************************)
EXTENDS Store, Induction, SequenceTheorems, TLAPS

\* The lemmas about one Dag, for the reference and for the mirror.
RP == INSTANCE DagProofs WITH nodes <- refNodes, tips <- refTips
MP == INSTANCE DagProofs WITH nodes <- mirrorNodes, tips <- mirrorTips

----------------------------------------------------------------------------
(* What Store and the lemmas say of a Dag is the same.                     *)

LEMMA SameRules ==
    /\ RP!DagAssumption
    /\ Ref!Init => RP!Init
    /\ Ref!Held = RP!Held
    /\ Rules!Block = RP!Block
    /\ \A b, now : Ref!Insert(b, now) <=> RP!Insert(b, now)
    /\ \A b, now : Mirror!Insert(b, now) <=> MP!Insert(b, now)
    /\ \A t : Ref!IsBestTip(t) <=> RP!IsBestTip(t)
    /\ \A b : Ref!Fresh(b) = RP!Fresh(b)
    /\ \A b : Ref!View(b) = RP!View(b)
    /\ \A b : Ref!ConsensusOrder(b) = RP!ConsensusOrder(b)
    /\ \A b : Mirror!ConsensusOrder(b) = MP!ConsensusOrder(b)
<1>1. RP!DagAssumption
  BY StoreAssumption DEF Rules!DagAssumption, RP!DagAssumption, Rules!Zero, RP!Zero
<1>2. Ref!Init => RP!Init
  BY Zenon DEF Ref!Init, RP!Init, Ref!GenesisNode, RP!GenesisNode, Ref!Zero, RP!Zero
<1>3. Ref!Held = RP!Held
  BY Zenon DEF Ref!Held, RP!Held
<1>4. Rules!Block = RP!Block
  BY Zenon DEF Rules!Block, RP!Block, Rules!ParentLists, RP!ParentLists, Rules!Zero, RP!Zero,
               Rules!Cardinality, RP!Cardinality
<1>5. ASSUME NEW b, NEW now PROVE Ref!Insert(b, now) <=> RP!Insert(b, now)
  BY Zenon
     DEF Ref!Accepts, RP!Accepts, Ref!AnnouncesHeight, RP!AnnouncesHeight,
         Ref!NotBehindParents, RP!NotBehindParents, Ref!NotPastTheFuture, RP!NotPastTheFuture,
         Ref!Insert, RP!Insert, Ref!Held, RP!Held, Ref!IsSelected, RP!IsSelected,
         Ref!Precedes, RP!Precedes, Ref!Candidates, RP!Candidates, Ref!PastOf, RP!PastOf,
         Ref!IsGreedy, RP!IsGreedy, Ref!Inherited, RP!Inherited, Ref!Anticone, RP!Anticone,
         Ref!Linked, RP!Linked, Ref!NewNode, RP!NewNode, Ref!Cardinality, RP!Cardinality
<1>6. ASSUME NEW b, NEW now PROVE Mirror!Insert(b, now) <=> MP!Insert(b, now)
  BY Zenon
     DEF Mirror!Accepts, MP!Accepts, Mirror!AnnouncesHeight, MP!AnnouncesHeight,
         Mirror!NotBehindParents, MP!NotBehindParents, Mirror!NotPastTheFuture, MP!NotPastTheFuture,
         Mirror!Insert, MP!Insert, Mirror!Held, MP!Held, Mirror!IsSelected, MP!IsSelected,
         Mirror!Precedes, MP!Precedes, Mirror!Candidates, MP!Candidates, Mirror!PastOf, MP!PastOf,
         Mirror!IsGreedy, MP!IsGreedy, Mirror!Inherited, MP!Inherited, Mirror!Anticone, MP!Anticone,
         Mirror!Linked, MP!Linked, Mirror!NewNode, MP!NewNode, Mirror!Cardinality, MP!Cardinality
<1>7. ASSUME NEW t PROVE Ref!IsBestTip(t) <=> RP!IsBestTip(t)
  BY Zenon DEF Ref!IsBestTip, RP!IsBestTip, Ref!Precedes, RP!Precedes
<1>8. ASSUME NEW b PROVE Ref!View(b) = RP!View(b)
  BY Zenon DEF Ref!View, RP!View
<1>9. ASSUME NEW b PROVE Ref!Fresh(b) = RP!Fresh(b)
  BY Zenon DEF Ref!Fresh, RP!Fresh, Ref!View, RP!View, Ref!Sorted, RP!Sorted,
               Ref!ByHeightThenId, RP!ByHeightThenId, Ref!Cardinality, RP!Cardinality
<1>10. ASSUME NEW b PROVE Ref!ConsensusOrder(b) = RP!ConsensusOrder(b)
  BY Zenon DEF Ref!Fresh, RP!Fresh, Ref!View, RP!View, Ref!Sorted, RP!Sorted,
               Ref!ByHeightThenId, RP!ByHeightThenId, Ref!Cardinality, RP!Cardinality,
               Ref!ConsensusOrder, RP!ConsensusOrder, Ref!Held, RP!Held, Ref!Zero, RP!Zero
<1>11. ASSUME NEW b PROVE Mirror!ConsensusOrder(b) = MP!ConsensusOrder(b)
  BY Zenon DEF Mirror!Fresh, MP!Fresh, Mirror!View, MP!View, Mirror!Sorted, MP!Sorted,
               Mirror!ByHeightThenId, MP!ByHeightThenId, Mirror!Cardinality, MP!Cardinality,
               Mirror!ConsensusOrder, MP!ConsensusOrder, Mirror!Held, MP!Held, Mirror!Zero, MP!Zero
<1> QED BY <1>1, <1>2, <1>3, <1>4, <1>5, <1>6, <1>7, <1>8, <1>9, <1>10, <1>11, Zenon

----------------------------------------------------------------------------
(* The mirror and the reference take a block alike.                        *)

\* Two equal tables of nodes derive the same.
LEMMA RulesTravel ==
  ASSUME mirrorNodes = refNodes,
         NEW ps, NEW sp, NEW past, NEW blues,
         MP!Derives(ps, sp, past, blues)
  PROVE  RP!Derives(ps, sp, past, blues)
<1>1. ASSUME NEW x, NEW y PROVE MP!Precedes(x, y) <=> RP!Precedes(x, y)
  BY DEF MP!Precedes, RP!Precedes
<1>2. MP!IsSelected(sp, ps) <=> RP!IsSelected(sp, ps)
  BY <1>1 DEF MP!IsSelected, RP!IsSelected
<1>3. MP!PastOf(ps) = RP!PastOf(ps)
  BY DEF MP!PastOf, RP!PastOf
<1>4. MP!Inherited(sp) = RP!Inherited(sp)
  BY DEF MP!Inherited, RP!Inherited
<1>5. MP!Candidates(ps, sp) = RP!Candidates(ps, sp)
  BY <1>3 DEF MP!Candidates, RP!Candidates
<1>6. ASSUME NEW v, NEW S PROVE MP!Anticone(v, S) = RP!Anticone(v, S)
  BY DEF MP!Anticone, RP!Anticone
<1>7. ASSUME NEW joined, MP!IsGreedy(joined, ps, sp) PROVE RP!IsGreedy(joined, ps, sp)
  <2>1. ASSUME NEW v \in MP!Candidates(ps, sp)
        PROVE  v \in joined <=>
                 RP!Cardinality(RP!Anticone(v, RP!Inherited(sp) \cup {w \in joined : RP!Precedes(w, v)})) <= K
    <3> DEFINE WM == MP!Inherited(sp) \cup {w \in joined : MP!Precedes(w, v)}
               WR == RP!Inherited(sp) \cup {w \in joined : RP!Precedes(w, v)}
    <3>1. WM = WR
      BY <1>1, <1>4
    <3>2. v \in joined <=> MP!Cardinality(MP!Anticone(v, WM)) <= K
      BY <1>7, Zenon DEF MP!IsGreedy
    <3>3. MP!Cardinality(MP!Anticone(v, WM)) = RP!Cardinality(RP!Anticone(v, WR))
      <4>1. MP!Anticone(v, WM) = RP!Anticone(v, WR)
        <5> HIDE DEF WM, WR
        <5> QED BY <1>6, <3>1
      <4> QED BY <4>1, Zenon DEF MP!Cardinality, RP!Cardinality
    <3> QED BY <3>2, <3>3, Zenon
  <2> QED BY <1>5, <2>1, Zenon DEF RP!IsGreedy
<1>8. PICK joined \in SUBSET MP!Candidates(ps, sp) :
        MP!IsGreedy(joined, ps, sp) /\ blues = MP!Inherited(sp) \cup joined
  BY DEF MP!Derives
<1>9. past = MP!PastOf(ps) /\ MP!IsSelected(sp, ps)
  BY DEF MP!Derives
<1> QED BY <1>2, <1>3, <1>4, <1>5, <1>7, <1>8, <1>9 DEF RP!Derives

\* What an insertion into the reference writes.
Takes(N, M, b, sp, past, blues) ==
    M = [x \in DOMAIN N \cup {b.id} |->
           IF x = b.id
           THEN [parents |-> b.parents, height |-> b.height, time |-> b.time,
                 past |-> past, blues |-> blues, score |-> Cardinality(blues) + 1,
                 sp |-> sp, children |-> {}]
           ELSE IF x \in b.parents THEN [N[x] EXCEPT !.children = @ \cup {b.id}] ELSE N[x]]

LEMMA ReferenceTakes ==
  ASSUME NEW b, NEW now, RP!Insert(b, now)
  PROVE  /\ b.id \notin DOMAIN refNodes /\ b.parents \subseteq DOMAIN refNodes /\ b.parents # {}
         /\ refTips' = (refTips \ b.parents) \cup {b.id}
         /\ \E sp, past, blues : /\ RP!Derives(b.parents, sp, past, blues)
                                 /\ Takes(refNodes, refNodes', b, sp, past, blues)
<1>1. /\ b.id \notin DOMAIN refNodes /\ b.parents \subseteq DOMAIN refNodes /\ b.parents # {}
      /\ refTips' = (refTips \ b.parents) \cup {b.id}
  BY DEF RP!Insert, RP!Accepts, RP!AnnouncesHeight, RP!Held
<1>2. PICK sp, joined :
        /\ sp \in b.parents /\ joined \in SUBSET RP!Candidates(b.parents, sp)
        /\ RP!IsSelected(sp, b.parents)
        /\ RP!IsGreedy(joined, b.parents, sp)
        /\ refNodes' = RP!Linked(b, RP!NewNode(b, sp, RP!Inherited(sp) \cup joined))
  BY Zenon DEF RP!Insert
<1> DEFINE blues == RP!Inherited(sp) \cup joined
<1>3. RP!Derives(b.parents, sp, RP!PastOf(b.parents), blues)
  BY <1>2, Zenon DEF RP!Derives
<1>4. Takes(refNodes, refNodes', b, sp, RP!PastOf(b.parents), blues)
  <2> HIDE DEF blues
  <2>1. refNodes' = RP!Linked(b, RP!NewNode(b, sp, blues))
    BY <1>2 DEF blues
  <2> QED BY <2>1, Zenon DEF Takes, RP!Linked, RP!NewNode, RP!Held, RP!Cardinality, Cardinality
<1> QED BY <1>1, <1>3, <1>4

LEMMA MirrorTakes ==
  ASSUME NEW b, NEW now, MP!Insert(b, now)
  PROVE  /\ mirrorTips' = (mirrorTips \ b.parents) \cup {b.id}
         /\ \E sp, past, blues : /\ MP!Derives(b.parents, sp, past, blues)
                                 /\ Takes(mirrorNodes, mirrorNodes', b, sp, past, blues)
<1>1. mirrorTips' = (mirrorTips \ b.parents) \cup {b.id}
  BY DEF MP!Insert
<1>2. PICK sp, joined :
        /\ sp \in b.parents /\ joined \in SUBSET MP!Candidates(b.parents, sp)
        /\ MP!IsSelected(sp, b.parents)
        /\ MP!IsGreedy(joined, b.parents, sp)
        /\ mirrorNodes' = MP!Linked(b, MP!NewNode(b, sp, MP!Inherited(sp) \cup joined))
  BY Zenon DEF MP!Insert
<1> DEFINE blues == MP!Inherited(sp) \cup joined
<1>3. MP!Derives(b.parents, sp, MP!PastOf(b.parents), blues)
  BY <1>2, Zenon DEF MP!Derives
<1>4. Takes(mirrorNodes, mirrorNodes', b, sp, MP!PastOf(b.parents), blues)
  <2> HIDE DEF blues
  <2>1. mirrorNodes' = MP!Linked(b, MP!NewNode(b, sp, blues))
    BY <1>2 DEF blues
  <2> QED BY <2>1, Zenon DEF Takes, MP!Linked, MP!NewNode, MP!Held, MP!Cardinality, Cardinality
<1> QED BY <1>1, <1>3, <1>4

\* A mirror that was the reference is the reference when both have taken a
\* block: the rules leave them no choice.
LEMMA MirrorStays ==
  ASSUME RP!DInv, mirrorNodes = refNodes, mirrorTips = refTips,
         NEW b, NEW now, RP!Insert(b, now), MP!Insert(b, now)
  PROVE  mirrorNodes' = refNodes' /\ mirrorTips' = refTips'
<1>1. PICK sp, past, blues : /\ RP!Derives(b.parents, sp, past, blues)
                             /\ Takes(refNodes, refNodes', b, sp, past, blues)
  BY ReferenceTakes
<1>2. PICK sq, paste, bluest : /\ MP!Derives(b.parents, sq, paste, bluest)
                               /\ Takes(mirrorNodes, mirrorNodes', b, sq, paste, bluest)
  BY MirrorTakes
<1>3. RP!Derives(b.parents, sq, paste, bluest)
  BY <1>2, RulesTravel
<1>4. sp = sq /\ past = paste /\ blues = bluest
  <2>1. b.parents \in SUBSET RP!Held /\ RP!TypeOK /\ RP!AncestryIsOrdered /\ RP!DagAssumption
    BY ReferenceTakes, SameRules DEF RP!DInv, RP!Inv, RP!Held
  <2> QED BY <1>1, <1>3, <2>1, RP!OneDerivation
<1>5. mirrorNodes' = refNodes'
  BY <1>1, <1>2, <1>4 DEF Takes
<1>6. mirrorTips' = refTips'
  BY ReferenceTakes, MirrorTakes
<1> QED BY <1>5, <1>6

----------------------------------------------------------------------------
(* The store has the blocks, scores and selected parents of the reference. *)

IsEntry(e) ==
    e = [parents |-> e.parents, height |-> e.height, time |-> e.time, score |-> e.score,
         sp |-> e.sp, children |-> e.children, fresh |-> e.fresh, orderLen |-> e.orderLen]

Alike ==
    /\ DOMAIN nodes = DOMAIN refNodes
    /\ tips = refTips
    /\ \A x \in DOMAIN nodes :
         /\ IsEntry(nodes[x])
         /\ nodes[x].parents = refNodes[x].parents
         /\ nodes[x].height = refNodes[x].height
         /\ nodes[x].time = refNodes[x].time
         /\ nodes[x].score = refNodes[x].score
         /\ nodes[x].sp = refNodes[x].sp
         /\ nodes[x].children = refNodes[x].children

Mirrored == mirrorLive => mirrorNodes = refNodes /\ mirrorTips = refTips

\* The first inductive invariant.
AInv == RP!DInv /\ Alike /\ Mirrored

LEMMA InitAInv == Init => AInv
<1> SUFFICES ASSUME Init PROVE AInv
  OBVIOUS
<1>1. RP!Init /\ RP!DagAssumption
  BY SameRules DEF Init
<1>2. RP!DInv
  BY <1>1, RP!InitDInv
<1>3. refNodes = [x \in {Genesis} |-> RP!GenesisNode] /\ refTips = {Genesis}
  BY <1>1 DEF RP!Init
<1>4. Alike
  BY <1>3 DEF Init, Alike, IsEntry, GenesisNode, RP!GenesisNode, Zero, Rules!Zero, RP!Zero
<1>5. Mirrored
  BY <1>3 DEF Init, Mirrored, Mirror!Init, Mirror!GenesisNode, RP!GenesisNode, Mirror!Zero, RP!Zero
<1> QED BY <1>2, <1>4, <1>5 DEF AInv

\* A single parent leaves no candidate to color: the new block has the blues
\* of its parent and the parent.
LEMMA ChainColors ==
  ASSUME RP!DInv, NEW p \in DOMAIN refNodes, NEW sp, NEW past, NEW blues,
         RP!Derives({p}, sp, past, blues)
  PROVE  /\ sp = p
         /\ past = refNodes[p].past \cup {p}
         /\ Cardinality(blues) + 1 = refNodes[p].score + 1
<1>1. sp = p /\ past = refNodes[p].past \cup {p}
  BY DEF RP!Derives, RP!IsSelected, RP!PastOf
<1>2. RP!Candidates({p}, p) = {}
  BY DEF RP!Candidates, RP!PastOf
<1>3. blues = refNodes[p].blues \cup {p}
  BY <1>1, <1>2 DEF RP!Derives, RP!Inherited
<1>4. /\ refNodes[p].blues \subseteq refNodes[p].past
      /\ refNodes[p].score = Cardinality(refNodes[p].blues) + 1
      /\ p \notin refNodes[p].past
      /\ refNodes[p].past \subseteq DOMAIN refNodes
      /\ IsFiniteSet(DOMAIN refNodes)
  <2>1. RP!BluesSurvive /\ RP!AncestryIsOrdered /\ RP!TypeOK
    BY DEF RP!DInv, RP!Inv
  <2>2. /\ refNodes[p].blues \subseteq refNodes[p].past
        /\ refNodes[p].score = Cardinality(refNodes[p].blues) + 1
    BY <2>1, Zenon DEF RP!BluesSurvive, RP!Held, RP!Cardinality, Cardinality
  <2>3. p \notin refNodes[p].past /\ refNodes[p].past \subseteq DOMAIN refNodes
    BY <2>1 DEF RP!AncestryIsOrdered, RP!Held
  <2>4. IsFiniteSet(DOMAIN refNodes)
    BY <2>1, Zenon DEF RP!TypeOK, RP!Held, RP!IsFiniteSet, IsFiniteSet
  <2> QED BY <2>2, <2>3, <2>4
<1>5. IsFiniteSet(refNodes[p].blues) /\ p \notin refNodes[p].blues
  BY <1>4, FS_Subset
<1>6. Cardinality(blues) = Cardinality(refNodes[p].blues) + 1
  BY <1>3, <1>5, FS_AddElement
<1> QED BY <1>1, <1>4, <1>6

\* An insertion into the store is an insertion into the reference, and what
\* the store enters has the header, the score and the selected parent of what
\* the reference enters.
LEMMA Enters ==
  ASSUME AInv, NEW b \in Rules!Block, NEW now \in Times, Insert(b, now)
  PROVE  /\ RP!Insert(b, now) /\ RP!DInv'
         /\ mirrorLive => mirrorNodes' = refNodes' /\ mirrorTips' = refTips'
         /\ b.id \notin DOMAIN nodes /\ b.parents \subseteq DOMAIN nodes /\ b.parents # {}
         /\ \E entry :
              /\ entry = IF IsMerge(b) THEN MirrorEntry(b)' ELSE ChainEntry(b)
              /\ IsEntry(entry)
              /\ entry.parents = b.parents /\ entry.height = b.height /\ entry.time = b.time
              /\ entry.score = refNodes'[b.id].score /\ entry.sp = refNodes'[b.id].sp
              /\ entry.children = {}
              /\ nodes' = Rules!Linked(b, entry)
              /\ tips' = (tips \ b.parents) \cup {b.id}
              /\ mirrorLive' = (mirrorLive /\ Cardinality(DOMAIN nodes') < Window)
              /\ RefreshOrder(nodes', tips')
<1>1. RP!DInv /\ Alike /\ Mirrored /\ RP!DagAssumption
  BY SameRules DEF AInv
<1>2. /\ b.id \notin DOMAIN nodes /\ b.parents \subseteq DOMAIN nodes /\ b.parents # {}
      /\ Ref!Accepts(b, now)
  BY <1>1 DEF Insert, Rules!Accepts, Ref!Accepts, Rules!Held, Ref!Held,
              Rules!AnnouncesHeight, Ref!AnnouncesHeight,
              Rules!NotBehindParents, Ref!NotBehindParents,
              Rules!NotPastTheFuture, Ref!NotPastTheFuture, Alike
<1>3. RP!Insert(b, now)
  BY <1>2, SameRules DEF Insert, FeedReference
<1>4. RP!DInv'
  <2>1. b \in RP!Header
    BY SameRules, RP!BlocksAreHeaders
  <2> QED BY <1>1, <1>3, <2>1, RP!InsertDInv
<1>5. mirrorLive => mirrorNodes' = refNodes' /\ mirrorTips' = refTips'
  <2> SUFFICES ASSUME mirrorLive PROVE mirrorNodes' = refNodes' /\ mirrorTips' = refTips'
    OBVIOUS
  <2>1. MP!Insert(b, now) /\ mirrorNodes = refNodes /\ mirrorTips = refTips
    BY <1>1, SameRules DEF Insert, FeedMirror, Mirrored
  <2> QED BY <1>1, <1>3, <2>1, MirrorStays
<1>6. PICK sp, past, blues : /\ RP!Derives(b.parents, sp, past, blues)
                             /\ Takes(refNodes, refNodes', b, sp, past, blues)
  BY <1>3, ReferenceTakes
<1>7. refNodes'[b.id].score = Cardinality(blues) + 1 /\ refNodes'[b.id].sp = sp
  BY <1>6 DEF Takes
<1> DEFINE entry == IF IsMerge(b) THEN MirrorEntry(b)' ELSE ChainEntry(b)
<1>8. /\ IsEntry(entry)
      /\ entry.parents = b.parents /\ entry.height = b.height /\ entry.time = b.time
      /\ entry.score = refNodes'[b.id].score /\ entry.sp = refNodes'[b.id].sp
      /\ entry.children = {}
  <2>1. CASE IsMerge(b)
    <3>1. mirrorLive
      BY <2>1 DEF Insert, WithinWindow
    <3>2. entry = MirrorEntry(b)'
      BY <2>1
    <3>3. mirrorNodes' = refNodes'
      BY <1>5, <3>1
    <3>4. \E f, n : entry = Entry(b, mirrorNodes'[b.id].sp, mirrorNodes'[b.id].score, f, n)
      BY <3>2, Zenon DEF MirrorEntry, Entry
    <3>5. PICK f, n : entry = Entry(b, refNodes'[b.id].sp, refNodes'[b.id].score, f, n)
      BY <3>3, <3>4
    <3> HIDE DEF entry
    <3> QED BY <3>5 DEF Entry, IsEntry
  <2>2. CASE ~IsMerge(b)
    <3>1. PICK p \in DOMAIN refNodes : b.parents = {p}
      <4>1. IsFiniteSet(b.parents)
        <5>1. IsFiniteSet(DOMAIN refNodes)
          BY <1>1, Zenon DEF RP!DInv, RP!Inv, RP!TypeOK, RP!Held, RP!IsFiniteSet, IsFiniteSet
        <5> QED BY <1>1, <1>2, <5>1, FS_Subset DEF Alike
      <4>2. Cardinality(b.parents) \in Nat /\ Cardinality(b.parents) # 0
        BY <1>2, <4>1, FS_CardinalityType, FS_EmptySet
      <4>3. Cardinality(b.parents) = 1
        BY <2>2, <4>2 DEF IsMerge
      <4>4. \E p : b.parents = {p}
        BY <4>1, <4>3, FS_Singleton
      <4> QED BY <1>1, <1>2, <4>4 DEF Alike
    <3>2. entry = Entry(b, p, nodes[p].score + 1, <<b.id>>, nodes[p].orderLen + 1)
      BY <2>2, <3>1 DEF ChainEntry
    <3>3. sp = p /\ Cardinality(blues) + 1 = refNodes[p].score + 1
      <4>1. RP!Derives({p}, sp, past, blues)
        BY <1>6, <3>1
      <4> QED BY <1>1, <4>1, ChainColors
    <3>4. nodes[p].score = refNodes[p].score
      BY <1>1 DEF Alike
    <3> HIDE DEF entry
    <3> QED BY <1>7, <3>2, <3>3, <3>4 DEF Entry, IsEntry
  <2> QED BY <2>1, <2>2
<1>9. /\ nodes' = Rules!Linked(b, entry)
      /\ tips' = (tips \ b.parents) \cup {b.id}
      /\ mirrorLive' = (mirrorLive /\ Cardinality(DOMAIN nodes') < Window)
      /\ RefreshOrder(nodes', tips')
  BY Zenon DEF Insert
<1> HIDE DEF entry
<1>10. \E e :
              /\ e = IF IsMerge(b) THEN MirrorEntry(b)' ELSE ChainEntry(b)
              /\ IsEntry(e)
              /\ e.parents = b.parents /\ e.height = b.height /\ e.time = b.time
              /\ e.score = refNodes'[b.id].score /\ e.sp = refNodes'[b.id].sp
              /\ e.children = {}
              /\ nodes' = Rules!Linked(b, e)
              /\ tips' = (tips \ b.parents) \cup {b.id}
              /\ mirrorLive' = (mirrorLive /\ Cardinality(DOMAIN nodes') < Window)
              /\ RefreshOrder(nodes', tips')
  <2>1. entry = IF IsMerge(b) THEN MirrorEntry(b)' ELSE ChainEntry(b)
    BY DEF entry
  <2> QED BY <1>8, <1>9, <2>1, Zenon
<1> QED BY <1>2, <1>3, <1>4, <1>5, <1>10, Zenon

LEMMA InsertAInv ==
  ASSUME AInv, NEW b \in Rules!Block, NEW now \in Times, Insert(b, now)
  PROVE  AInv'
<1>1. /\ RP!Insert(b, now) /\ RP!DInv'
      /\ mirrorLive => mirrorNodes' = refNodes' /\ mirrorTips' = refTips'
      /\ b.id \notin DOMAIN nodes /\ b.parents \subseteq DOMAIN nodes
  BY Enters
<1>2. PICK entry :
        /\ IsEntry(entry)
        /\ entry.parents = b.parents /\ entry.height = b.height /\ entry.time = b.time
        /\ entry.score = refNodes'[b.id].score /\ entry.sp = refNodes'[b.id].sp
        /\ entry.children = {}
        /\ nodes' = Rules!Linked(b, entry)
        /\ tips' = (tips \ b.parents) \cup {b.id}
        /\ mirrorLive' = (mirrorLive /\ Cardinality(DOMAIN nodes') < Window)
  BY Enters, Zenon
<1>3. Mirrored'
  BY <1>1, <1>2 DEF Mirrored
<1>4. PICK sp, past, blues : Takes(refNodes, refNodes', b, sp, past, blues)
  BY <1>1, ReferenceTakes
<1>5. refTips' = (refTips \ b.parents) \cup {b.id}
  BY <1>1, ReferenceTakes
<1>6. Alike /\ RP!TypeOK
  BY DEF AInv, RP!DInv, RP!Inv
<1>7. /\ DOMAIN nodes' = DOMAIN nodes \cup {b.id}
      /\ nodes'[b.id] = entry
      /\ \A x \in DOMAIN nodes :
           nodes'[x] = IF x \in b.parents THEN [nodes[x] EXCEPT !.children = @ \cup {b.id}]
                                          ELSE nodes[x]
  BY <1>1, <1>2 DEF Rules!Linked, Rules!Held
<1>8. /\ DOMAIN refNodes' = DOMAIN refNodes \cup {b.id}
      /\ refNodes'[b.id].parents = b.parents /\ refNodes'[b.id].height = b.height
      /\ refNodes'[b.id].time = b.time /\ refNodes'[b.id].children = {}
      /\ \A x \in DOMAIN refNodes : x # b.id =>
           refNodes'[x] = IF x \in b.parents THEN [refNodes[x] EXCEPT !.children = @ \cup {b.id}]
                                             ELSE refNodes[x]
  BY <1>4 DEF Takes
<1>9. \A x \in DOMAIN refNodes : refNodes[x] \in RP!Node
  BY <1>6 DEF RP!TypeOK, RP!Held
<1>10. Alike'
  <2>1. DOMAIN nodes' = DOMAIN refNodes' /\ tips' = refTips'
    BY <1>2, <1>5, <1>6, <1>7, <1>8 DEF Alike
  <2>2. ASSUME NEW x \in DOMAIN nodes
        PROVE  /\ IsEntry(nodes'[x])
               /\ nodes'[x].parents = refNodes'[x].parents
               /\ nodes'[x].height = refNodes'[x].height
               /\ nodes'[x].time = refNodes'[x].time
               /\ nodes'[x].score = refNodes'[x].score
               /\ nodes'[x].sp = refNodes'[x].sp
               /\ nodes'[x].children = refNodes'[x].children
    <3>1. /\ IsEntry(nodes[x]) /\ refNodes[x] \in RP!Node /\ x # b.id
          /\ nodes[x].parents = refNodes[x].parents
          /\ nodes[x].height = refNodes[x].height
          /\ nodes[x].time = refNodes[x].time
          /\ nodes[x].score = refNodes[x].score
          /\ nodes[x].sp = refNodes[x].sp
          /\ nodes[x].children = refNodes[x].children
          /\ x \in DOMAIN refNodes
      BY <1>1, <1>6, <1>9 DEF Alike
    <3>2. CASE x \in b.parents
      <4>1. /\ nodes'[x] = [nodes[x] EXCEPT !.children = @ \cup {b.id}]
            /\ refNodes'[x] = [refNodes[x] EXCEPT !.children = @ \cup {b.id}]
        BY <1>7, <1>8, <3>1, <3>2
      <4> QED BY <3>1, <4>1, SMTT(30) DEF IsEntry, RP!Node
    <3>3. CASE x \notin b.parents
      BY <1>7, <1>8, <3>1, <3>3
    <3> QED BY <3>2, <3>3
  <2>3. \A x \in DOMAIN nodes' : x = b.id \/ x \in DOMAIN nodes
    BY <1>7
  <2>4. /\ IsEntry(nodes'[b.id])
        /\ nodes'[b.id].parents = refNodes'[b.id].parents
        /\ nodes'[b.id].height = refNodes'[b.id].height
        /\ nodes'[b.id].time = refNodes'[b.id].time
        /\ nodes'[b.id].score = refNodes'[b.id].score
        /\ nodes'[b.id].sp = refNodes'[b.id].sp
        /\ nodes'[b.id].children = refNodes'[b.id].children
    BY <1>2, <1>7, <1>8
  <2> QED BY <2>1, <2>2, <2>3, <2>4, Zenon DEF Alike, IsEntry
<1> QED BY <1>1, <1>3, <1>10 DEF AInv

LEMMA AInvariance == Spec => []AInv
<1>1. AInv /\ [Next]_vars => AInv'
  <2> SUFFICES ASSUME AInv, [Next]_vars PROVE AInv'
    OBVIOUS
  <2>1. ASSUME NEW b \in Rules!Block, NEW now \in Times, Insert(b, now) PROVE AInv'
    BY <2>1, InsertAInv
  <2>2. CASE UNCHANGED vars
    <3>1. /\ nodes' = nodes /\ tips' = tips /\ mirrorNodes' = mirrorNodes
          /\ mirrorTips' = mirrorTips /\ mirrorLive' = mirrorLive
          /\ refNodes' = refNodes /\ refTips' = refTips
      BY <2>2 DEF vars, mirrorVars, refVars
    <3>2. RP!DInv'
      BY <3>1, SameRules, RP!Unchanged DEF RP!vars, AInv
    <3>3. Alike' /\ Mirrored'
      BY <3>1 DEF AInv, Alike, IsEntry, Mirrored
    <3> QED BY <3>2, <3>3 DEF AInv
  <2> QED BY <2>1, <2>2 DEF Next
<1> QED BY <1>1, InitAInv, PTL DEF Spec

----------------------------------------------------------------------------
(* What the reference lists for a block.                                   *)

\* What the lemmas about one Dag say of views, fresh sets and orders.
Reads ==
    /\ Genesis \in DOMAIN refNodes /\ refNodes[Genesis].sp = Zero
    /\ Zero \notin DOMAIN refNodes
    /\ IsFiniteSet(DOMAIN refNodes)
    /\ RP!ConsensusOrder(Genesis) = <<Genesis>>
    /\ \A x \in DOMAIN refNodes \ {Genesis} :
         /\ refNodes[x].sp \in DOMAIN refNodes
         /\ refNodes[refNodes[x].sp].height < refNodes[x].height
         /\ RP!ConsensusOrder(x) = RP!ConsensusOrder(refNodes[x].sp) \o RP!Fresh(x)
         /\ RP!Fresh(x) \in Seq(RP!View(x) \ RP!View(refNodes[x].sp))
         /\ Len(RP!Fresh(x)) = Cardinality(RP!View(x) \ RP!View(refNodes[x].sp))
    /\ \A x \in DOMAIN refNodes :
         /\ refNodes[x].height \in Nat
         /\ RP!View(x) \subseteq DOMAIN refNodes
         /\ RP!ConsensusOrder(x) \in Seq(RP!View(x))
         /\ Len(RP!ConsensusOrder(x)) = Cardinality(RP!View(x))
         /\ \A i, j \in DOMAIN RP!ConsensusOrder(x) :
              RP!ConsensusOrder(x)[i] = RP!ConsensusOrder(x)[j] => i = j

\* As many places as blocks, and every block in one of them: each has its own.
LEMMA OnePlaceEach ==
  ASSUME NEW S, IsFiniteSet(S), NEW s \in Seq(S), Len(s) = Cardinality(S),
         \A x \in S : \E i \in DOMAIN s : s[i] = x
  PROVE  \A i, j \in DOMAIN s : s[i] = s[j] => i = j
<1>1. Len(s) \in Nat /\ DOMAIN s = 1 .. Len(s) /\ s \in [1 .. Len(s) -> S]
  BY LenProperties
<1>2. IsFiniteSet(1 .. Len(s)) /\ Cardinality(1 .. Len(s)) = Len(s)
  <2>1. 1 \in Int /\ Len(s) \in Int
    BY <1>1
  <2> QED BY <1>1, <2>1, FirstNumbers
<1>3. s \in Surjection(1 .. Len(s), S)
  BY <1>1 DEF Surjection
<1>4. s \in Injection(1 .. Len(s), S)
  BY <1>2, <1>3, FS_Surjection
<1>5. \A i, j \in 1 .. Len(s) : s[i] = s[j] => i = j
  BY <1>1, <1>4 DEF Injection, IsInjective
<1> QED BY <1>1, <1>5

LEMMA ReferenceReads == RP!DInv => Reads
<1> SUFFICES ASSUME RP!DInv PROVE Reads
  OBVIOUS
<1>1. RP!DagAssumption /\ RP!TypeOK
  BY SameRules DEF RP!DInv, RP!Inv
<1>2. IsFiniteSet(DOMAIN refNodes)
  BY <1>1, Zenon DEF RP!TypeOK, RP!Held, RP!IsFiniteSet, IsFiniteSet
<1>3. /\ Genesis \in DOMAIN refNodes /\ refNodes[Genesis].sp = Zero
      /\ Zero \notin DOMAIN refNodes
  BY <1>1, RP!Ancestry DEF RP!Held, RP!Zero, Zero, Rules!Zero
<1>4. ASSUME NEW x \in DOMAIN refNodes \ {Genesis}
      PROVE  /\ refNodes[x].sp \in DOMAIN refNodes
             /\ refNodes[refNodes[x].sp].height < refNodes[x].height
  BY <1>1, RP!Ancestry DEF RP!Held
<1>5. ASSUME NEW x \in DOMAIN refNodes
      PROVE  /\ refNodes[x].height \in Nat
             /\ RP!View(x) \subseteq DOMAIN refNodes
             /\ IsFiniteSet(RP!View(x))
  <2>1. refNodes[x].height \in Nat /\ RP!View(x) \subseteq DOMAIN refNodes
    BY <1>1, RP!Ancestry DEF RP!Held
  <2> QED BY <1>2, <2>1, FS_Subset
<1>6. /\ RP!ConsensusOrder(Genesis) = <<Genesis>>
      /\ \A x \in DOMAIN refNodes \ {Genesis} :
           RP!ConsensusOrder(x) = RP!ConsensusOrder(refNodes[x].sp) \o RP!Fresh(x)
  BY <1>1, RP!OrderGrows DEF RP!Held
<1>7. ASSUME NEW x \in DOMAIN refNodes \ {Genesis}
      PROVE  /\ RP!Fresh(x) \in Seq(RP!View(x) \ RP!View(refNodes[x].sp))
             /\ Len(RP!Fresh(x)) = Cardinality(RP!View(x) \ RP!View(refNodes[x].sp))
  <2>1. RP!Added(x) = RP!View(x) \ RP!View(refNodes[x].sp)
    BY Zenon DEF RP!Added
  <2>2. RP!Added(x) \subseteq RP!Held
    BY <1>5, <2>1 DEF RP!Held
  <2>3. RP!Fresh(x) \in Seq(RP!Added(x)) /\ Len(RP!Fresh(x)) = RP!Cardinality(RP!Added(x))
    BY <1>1, <2>2, RP!FreshLists
  <2>4. RP!Cardinality(RP!Added(x)) = Cardinality(RP!Added(x))
    BY Zenon DEF RP!Cardinality, Cardinality
  <2> QED BY <2>1, <2>3, <2>4
<1>8. ASSUME NEW x \in DOMAIN refNodes
      PROVE  /\ RP!ConsensusOrder(x) \in Seq(RP!View(x))
             /\ Len(RP!ConsensusOrder(x)) = Cardinality(RP!View(x))
             /\ \A i, j \in DOMAIN RP!ConsensusOrder(x) :
                  RP!ConsensusOrder(x)[i] = RP!ConsensusOrder(x)[j] => i = j
  <2> DEFINE s == RP!ConsensusOrder(x)
             S == RP!View(x)
  <2>1. RP!Lists(s, x)
    BY <1>1, RP!OrdersList DEF RP!Held
  <2> HIDE DEF s
  <2>2. /\ s \in Seq(S) /\ Len(s) = RP!Cardinality(S)
        /\ \A y \in S : \E i \in DOMAIN s : s[i] = y
    BY <2>1 DEF RP!Lists
  <2>3. RP!Cardinality(S) = Cardinality(S)
    BY Zenon DEF RP!Cardinality, Cardinality
  <2>4. IsFiniteSet(S)
    BY <1>5
  <2> HIDE DEF S
  <2>5. \A i, j \in DOMAIN s : s[i] = s[j] => i = j
    BY <2>2, <2>3, <2>4, OnePlaceEach
  <2> QED BY <2>2, <2>3, <2>5 DEF s, S
<1> QED BY <1>2, <1>3, <1>4, <1>5, <1>6, <1>7, <1>8 DEF Reads

\* What the reference keeps of the blocks it had.
Keeps ==
    \A x \in DOMAIN refNodes :
        /\ x \in DOMAIN refNodes'
        /\ refNodes'[x].sp = refNodes[x].sp
        /\ refNodes'[x].past = refNodes[x].past
        /\ refNodes'[x].height = refNodes[x].height

LEMMA ReferenceKeeps ==
  ASSUME RP!DInv, NEW b, NEW now, RP!Insert(b, now)
  PROVE  Keeps
<1>1. PICK sp, past, blues : Takes(refNodes, refNodes', b, sp, past, blues)
  BY ReferenceTakes
<1>2. b.id \notin DOMAIN refNodes
  BY ReferenceTakes
<1>3. \A x \in DOMAIN refNodes : refNodes[x] \in RP!Node
  BY DEF RP!DInv, RP!Inv, RP!TypeOK, RP!Held
<1>4. ASSUME NEW x \in DOMAIN refNodes
      PROVE  /\ x \in DOMAIN refNodes'
             /\ refNodes'[x] = IF x \in b.parents THEN [refNodes[x] EXCEPT !.children = @ \cup {b.id}]
                                                  ELSE refNodes[x]
  BY <1>1, <1>2 DEF Takes
<1> QED BY <1>3, <1>4 DEF RP!Node, Keeps

\* A fresh set is listed the same after an insertion.
LEMMA FreshStays ==
  ASSUME Reads, Keeps, NEW x \in DOMAIN refNodes \ {Genesis}
  PROVE  RP!View(x)' = RP!View(x) /\ RP!Fresh(x)' = RP!Fresh(x)
<1>1. ASSUME NEW y \in DOMAIN refNodes PROVE RP!View(y)' = RP!View(y)
  BY DEF Keeps, RP!View
<1> DEFINE S == RP!View(x) \ RP!View(refNodes[x].sp)
           T == RP!View(x)' \ RP!View(refNodes[x].sp)'
<1>2. S = T /\ S \subseteq DOMAIN refNodes
  <2>1. refNodes[x].sp \in DOMAIN refNodes /\ refNodes'[x].sp = refNodes[x].sp
    BY DEF Reads, Keeps
  <2>2. RP!View(refNodes[x].sp)' = RP!View(refNodes[x].sp) /\ RP!View(x)' = RP!View(x)
    BY <1>1, <2>1 DEF Keeps, RP!View
  <2> QED BY <2>1, <2>2 DEF Reads
<1>3. ASSUME NEW z \in S
      PROVE  {y \in S : RP!ByHeightThenId(y, z)} = {y \in T : RP!ByHeightThenId(y, z)'}
  BY <1>2 DEF Keeps, RP!ByHeightThenId
<1>4. RP!Fresh(x) = [i \in 1 .. Cardinality(S) |->
                       CHOOSE z \in S : Cardinality({y \in S : RP!ByHeightThenId(y, z)}) = i - 1]
  BY Zenon DEF RP!Fresh, RP!Sorted, RP!Cardinality, Cardinality
<1>5. RP!Fresh(x)' = [i \in 1 .. Cardinality(T) |->
                       CHOOSE z \in T : Cardinality({y \in T : RP!ByHeightThenId(y, z)'}) = i - 1]
  BY Zenon DEF RP!Fresh, RP!Sorted, RP!Cardinality, Cardinality
<1> HIDE DEF S, T
<1>6. ASSUME NEW i
      PROVE  (CHOOSE z \in S : Cardinality({y \in S : RP!ByHeightThenId(y, z)}) = i - 1)
               = (CHOOSE z \in T : Cardinality({y \in T : RP!ByHeightThenId(y, z)'}) = i - 1)
  <2>1. ASSUME NEW z
        PROVE  z \in S /\ Cardinality({y \in S : RP!ByHeightThenId(y, z)}) = i - 1
                 <=> z \in T /\ Cardinality({y \in T : RP!ByHeightThenId(y, z)'}) = i - 1
    BY <1>2, <1>3, Zenon
  <2> QED BY <2>1, Zenon
<1>7. RP!Fresh(x) = RP!Fresh(x)'
  <2>1. Cardinality(S) = Cardinality(T)
    BY <1>2
  <2> DEFINE F(i) == CHOOSE z \in S : Cardinality({y \in S : RP!ByHeightThenId(y, z)}) = i - 1
             G(i) == CHOOSE z \in T : Cardinality({y \in T : RP!ByHeightThenId(y, z)'}) = i - 1
  <2>2. \A i : F(i) = G(i)
    BY <1>6
  <2>3. /\ RP!Fresh(x) = [i \in 1 .. Cardinality(S) |-> F(i)]
        /\ RP!Fresh(x)' = [i \in 1 .. Cardinality(T) |-> G(i)]
    BY <1>4, <1>5
  <2> HIDE DEF F, G
  <2> QED BY <2>1, <2>2, <2>3
<1> QED BY <1>1, <1>7

----------------------------------------------------------------------------
(* What is materialized of a block when it enters.                         *)

\* What module DagOrder lists, as a function of the table of nodes.
ViewIn(N, x) == N[x].past \cup {x}

FreshIn(N, x) ==
    LET S == ViewIn(N, x) \ ViewIn(N, N[x].sp)
        Before(y, z) == \/ N[y].height < N[z].height
                        \/ N[y].height = N[z].height /\ y < z
    IN  [i \in 1 .. Cardinality(S) |->
           CHOOSE z \in S : Cardinality({y \in S : Before(y, z)}) = i - 1]

OrderIn(N, x) ==
    LET listed[y \in DOMAIN N] ==
            IF N[y].sp = Zero THEN <<y>> ELSE listed[N[y].sp] \o FreshIn(N, y)
    IN  listed[x]

\* A mirror that is the reference lists what the reference lists.
LEMMA CopyReads ==
  ASSUME mirrorNodes' = refNodes', NEW x
  PROVE  Mirror!ConsensusOrder(x)' = RP!ConsensusOrder(x)'
<1>1. Mirror!ConsensusOrder(x)' = OrderIn(mirrorNodes', x)
  BY Zenon DEF Mirror!ConsensusOrder, OrderIn, Mirror!Fresh, FreshIn, Mirror!Sorted, Mirror!View,
               ViewIn, Mirror!ByHeightThenId, Mirror!Held, Mirror!Zero, Zero, Rules!Zero,
               Mirror!Cardinality, Cardinality
<1>2. RP!ConsensusOrder(x)' = OrderIn(refNodes', x)
  BY Zenon DEF RP!ConsensusOrder, OrderIn, RP!Fresh, FreshIn, RP!Sorted, RP!View,
               ViewIn, RP!ByHeightThenId, RP!Held, RP!Zero, Zero, Rules!Zero,
               RP!Cardinality, Cardinality
<1> QED BY <1>1, <1>2

\* The second inductive invariant: fresh sets and view sizes.
Materialized ==
    /\ nodes[Genesis].fresh = <<Genesis>>
    /\ \A x \in DOMAIN nodes :
         /\ nodes[x].orderLen = Cardinality(RP!View(x))
         /\ x # Genesis => nodes[x].fresh = RP!Fresh(x)

LEMMA InitMaterialized == Init => Materialized
<1> SUFFICES ASSUME Init PROVE Materialized
  OBVIOUS
<1>1. RP!Init
  BY SameRules DEF Init
<1>2. refNodes = [x \in {Genesis} |-> RP!GenesisNode]
  BY <1>1 DEF RP!Init
<1>3. RP!View(Genesis) = {Genesis}
  BY <1>2 DEF RP!View, RP!GenesisNode
<1>4. Cardinality({Genesis}) = 1
  BY FS_Singleton
<1> QED BY <1>3, <1>4 DEF Init, Materialized, GenesisNode

\* What a sequence adds to another is its part above it.
LEMMA PartAbove ==
  ASSUME NEW S, NEW s \in Seq(S), NEW t \in Seq(S)
  PROVE  SubSeq(s \o t, Len(s) + 1, Len(s \o t)) = t
<1>1. Len(s) \in Nat /\ Len(t) \in Nat /\ s \o t \in Seq(S) /\ Len(s \o t) = Len(s) + Len(t)
  BY LenProperties, ConcatProperties
<1> DEFINE u == SubSeq(s \o t, Len(s) + 1, Len(s \o t))
<1>2. u = [i \in 1 .. Len(t) |-> t[i]]
  <2>1. Len(s \o t) - (Len(s) + 1) + 1 = Len(t)
    BY <1>1
  <2>2. \A i \in 1 .. Len(t) : (s \o t)[Len(s) + 1 + i - 1] = t[i]
    BY <1>1, ConcatProperties
  <2> QED BY <1>1, <2>1, <2>2
<1>3. t = [i \in 1 .. Len(t) |-> t[i]]
  BY LenProperties
<1> QED BY <1>2, <1>3

\* A sequence of one place over one element.
LEMMA OnlyOne ==
  ASSUME NEW x, NEW s \in Seq({x}), Len(s) = Cardinality({x})
  PROVE  s = <<x>>
<1>1. Len(s) = 1
  BY FS_Singleton
<1>2. s \in [1 .. 1 -> {x}]
  BY <1>1, LenProperties
<1>3. s = [i \in 1 .. 1 |-> x]
  BY <1>2
<1>4. <<x>> = [i \in 1 .. 1 |-> x]
  OBVIOUS
<1> QED BY <1>3, <1>4

LEMMA NewEntry ==
  ASSUME AInv, Reads, Reads', Materialized, Keeps,
         NEW b \in Rules!Block, NEW now \in Times, Insert(b, now),
         NEW entry, entry = IF IsMerge(b) THEN MirrorEntry(b)' ELSE ChainEntry(b)
  PROVE  entry.fresh = RP!Fresh(b.id)' /\ entry.orderLen = Cardinality(RP!View(b.id)')
<1>1. /\ RP!Insert(b, now) /\ RP!DInv'
      /\ mirrorLive => mirrorNodes' = refNodes'
      /\ b.id \notin DOMAIN nodes /\ b.parents \subseteq DOMAIN nodes /\ b.parents # {}
  BY Enters
<1>2. PICK sp, past, blues : /\ RP!Derives(b.parents, sp, past, blues)
                             /\ Takes(refNodes, refNodes', b, sp, past, blues)
  BY <1>1, ReferenceTakes
<1>3. b.id \in DOMAIN refNodes' /\ refNodes'[b.id].sp = sp /\ refNodes'[b.id].past = past
  BY <1>2 DEF Takes
<1>4. Alike /\ Genesis \in DOMAIN nodes /\ sp \in b.parents
  BY <1>2 DEF AInv, Reads, Alike, RP!Derives, RP!IsSelected
<1>5. b.id # Genesis /\ b.id \in DOMAIN refNodes' \ {Genesis}
  BY <1>1, <1>3, <1>4
<1>6. CASE IsMerge(b)
  <2>1. mirrorNodes' = refNodes'
    BY <1>1, <1>6 DEF Insert, WithinWindow
  <2> DEFINE whole == RP!ConsensusOrder(b.id)'
             base == RP!ConsensusOrder(sp)'
             fresh == RP!Fresh(b.id)'
  <2>2. entry = Entry(b, mirrorNodes'[b.id].sp, mirrorNodes'[b.id].score,
                  SubSeq(Mirror!ConsensusOrder(b.id)', Len(Mirror!ConsensusOrder(mirrorNodes[b.id].sp)') + 1,
                         Len(Mirror!ConsensusOrder(b.id)')),
                  Len(Mirror!ConsensusOrder(b.id)'))
    BY <1>6 DEF MirrorEntry, Entry
  <2>3. Mirror!ConsensusOrder(b.id)' = whole /\ Mirror!ConsensusOrder(mirrorNodes[b.id].sp)' = base
    BY <1>3, <2>1, CopyReads
  <2>4. whole = base \o fresh /\ Len(whole) = Cardinality(RP!View(b.id)')
    BY <1>3, <1>5 DEF Reads
  <2>5. PICK S : base \in Seq(S) /\ fresh \in Seq(S)
    <3>1. sp \in DOMAIN refNodes'
      BY <1>3, <1>5 DEF Reads
    <3>2. base \in Seq(RP!View(sp)')
      BY <3>1 DEF Reads
    <3>3. fresh \in Seq(RP!View(b.id)' \ RP!View(sp)')
      BY <1>3, <1>5 DEF Reads
    <3> DEFINE S == RP!View(b.id)' \cup RP!View(sp)'
    <3>4. base \in Seq(S) /\ fresh \in Seq(S)
      BY <3>2, <3>3, SeqMonotonic
    <3> QED BY <3>4
  <2> HIDE DEF whole, base, fresh
  <2>6. SubSeq(whole, Len(base) + 1, Len(whole)) = fresh
    BY <2>4, <2>5, PartAbove
  <2>7. entry.fresh = fresh /\ entry.orderLen = Len(whole)
    <3> DEFINE w == Mirror!ConsensusOrder(b.id)'
               u == Mirror!ConsensusOrder(mirrorNodes[b.id].sp)'
    <3>1. /\ w = whole /\ u = base
          /\ \E p, n : entry = Entry(b, p, n, SubSeq(w, Len(u) + 1, Len(w)), Len(w))
      BY <2>2, <2>3, Zenon
    <3> DEFINE f == SubSeq(w, Len(u) + 1, Len(w))
               l == Len(w)
    <3>2. PICK p, n : entry = Entry(b, p, n, f, l)
      BY <3>1, Zenon
    <3>3. f = fresh /\ l = Len(whole)
      BY <2>6, <3>1, Zenon
    <3> HIDE DEF f, l
    <3> QED BY <3>2, <3>3 DEF Entry
  <2> QED BY <2>4, <2>7 DEF fresh
<1>7. CASE ~IsMerge(b)
  <2>1. PICK p \in DOMAIN nodes : b.parents = {p}
    <3>1. IsFiniteSet(b.parents)
      BY <1>1, <1>4, FS_Subset DEF Reads, Alike
    <3>2. Cardinality(b.parents) \in Nat /\ Cardinality(b.parents) # 0
      BY <1>1, <3>1, FS_CardinalityType, FS_EmptySet
    <3>3. Cardinality(b.parents) = 1
      BY <1>7, <3>2 DEF IsMerge
    <3>4. \E p : b.parents = {p}
      BY <3>1, <3>3, FS_Singleton
    <3> QED BY <1>1, <3>4
  <2>2. entry = Entry(b, p, nodes[p].score + 1, <<b.id>>, nodes[p].orderLen + 1)
    BY <1>7, <2>1 DEF ChainEntry
  <2>3. sp = p /\ past = refNodes[p].past \cup {p}
    <3>1. RP!Derives({p}, sp, past, blues) /\ RP!DInv /\ p \in DOMAIN refNodes
      BY <1>2, <2>1, <1>4 DEF AInv, Alike
    <3> QED BY <3>1, ChainColors
  <2>4. p \in DOMAIN refNodes /\ p # b.id /\ refNodes'[p].past = refNodes[p].past
    BY <1>1, <1>4, <2>1 DEF Alike, Keeps
  <2>5. RP!View(p) \subseteq DOMAIN refNodes /\ b.id \notin DOMAIN refNodes
    BY <1>1, <1>4, <2>4 DEF Alike, Reads
  <2>6. /\ RP!View(b.id)' = RP!View(p) \cup {b.id} /\ b.id \notin RP!View(p)
        /\ RP!View(sp)' = RP!View(p)
    BY <1>3, <2>3, <2>4, <2>5 DEF RP!View
  <2>7. RP!Fresh(b.id)' = <<b.id>>
    <3>1. RP!View(b.id)' \ RP!View(sp)' = {b.id}
      BY <2>6
    <3>2. /\ RP!Fresh(b.id)' \in Seq(RP!View(b.id)' \ RP!View(sp)')
          /\ Len(RP!Fresh(b.id)') = Cardinality(RP!View(b.id)' \ RP!View(sp)')
      BY <1>3, <1>5 DEF Reads
    <3> QED BY <3>1, <3>2, OnlyOne
  <2>8. Cardinality(RP!View(b.id)') = nodes[p].orderLen + 1
    <3>1. IsFiniteSet(RP!View(p))
      BY <2>5, FS_Subset DEF Reads
    <3>2. Cardinality(RP!View(p) \cup {b.id}) = Cardinality(RP!View(p)) + 1
      BY <2>6, <3>1, FS_AddElement
    <3> QED BY <2>1, <2>6, <3>2 DEF Materialized
  <2> QED BY <2>2, <2>7, <2>8 DEF Entry
<1> QED BY <1>6, <1>7

LEMMA InsertMaterialized ==
  ASSUME AInv, Reads, Reads', Materialized, Keeps,
         NEW b \in Rules!Block, NEW now \in Times, Insert(b, now)
  PROVE  Materialized'
<1>1. b.id \notin DOMAIN nodes /\ b.parents \subseteq DOMAIN nodes
  BY Enters
<1>2. PICK entry : /\ entry = IF IsMerge(b) THEN MirrorEntry(b)' ELSE ChainEntry(b)
                   /\ IsEntry(entry)
                   /\ nodes' = Rules!Linked(b, entry)
  BY Enters, Zenon
<1>3. entry.fresh = RP!Fresh(b.id)' /\ entry.orderLen = Cardinality(RP!View(b.id)')
  BY <1>2, NewEntry
<1>4. /\ DOMAIN nodes' = DOMAIN nodes \cup {b.id}
      /\ nodes'[b.id] = entry
      /\ \A x \in DOMAIN nodes :
           nodes'[x] = IF x \in b.parents THEN [nodes[x] EXCEPT !.children = @ \cup {b.id}]
                                          ELSE nodes[x]
  BY <1>1, <1>2 DEF Rules!Linked, Rules!Held
<1>5. Alike /\ Genesis \in DOMAIN nodes
  BY DEF AInv, Reads, Alike
<1>6. ASSUME NEW x \in DOMAIN nodes
      PROVE  nodes'[x].fresh = nodes[x].fresh /\ nodes'[x].orderLen = nodes[x].orderLen
  BY <1>4, <1>5 DEF Alike, IsEntry
<1>7. ASSUME NEW x \in DOMAIN nodes PROVE RP!View(x)' = RP!View(x)
  BY <1>5 DEF Alike, Keeps, RP!View
<1>8. ASSUME NEW x \in DOMAIN nodes, x # Genesis PROVE RP!Fresh(x)' = RP!Fresh(x)
  BY <1>5, <1>8, FreshStays DEF Alike
<1>9. ASSUME NEW x \in DOMAIN nodes'
      PROVE  /\ nodes'[x].orderLen = Cardinality(RP!View(x)')
             /\ x # Genesis => nodes'[x].fresh = RP!Fresh(x)'
  <2>1. CASE x = b.id
    BY <1>3, <1>4, <2>1
  <2>2. CASE x # b.id
    BY <1>4, <1>6, <1>7, <1>8, <2>2 DEF Materialized
  <2> QED BY <2>1, <2>2
<1> QED BY <1>5, <1>6, <1>9 DEF Materialized

LEMMA MaterializedAlways == Spec => []Materialized
<1>1. AInv => Reads
  BY ReferenceReads DEF AInv
<1>2. AInv /\ Reads /\ Reads' /\ Materialized /\ [Next]_vars => Materialized'
  <2> SUFFICES ASSUME AInv, Reads, Reads', Materialized, [Next]_vars PROVE Materialized'
    OBVIOUS
  <2>1. ASSUME NEW b \in Rules!Block, NEW now \in Times, Insert(b, now) PROVE Materialized'
    <3>1. Keeps
      BY <2>1, Enters, ReferenceKeeps DEF AInv
    <3> QED BY <2>1, <3>1, InsertMaterialized
  <2>2. CASE UNCHANGED vars
    <3>1. nodes' = nodes /\ refNodes' = refNodes
      BY <2>2 DEF vars, refVars
    <3>2. Keeps
      BY <3>1 DEF Keeps
    <3>3. \A x \in DOMAIN nodes : x # Genesis => RP!Fresh(x)' = RP!Fresh(x)
      BY <3>2, FreshStays DEF AInv, Alike
    <3> QED BY <3>1, <3>3 DEF Materialized, RP!View
  <2> QED BY <2>1, <2>2 DEF Next
<1> QED BY <1>1, <1>2, InitMaterialized, AInvariance, PTL DEF Spec

\* Every block, score, selected parent, child set, fresh set and view size of
\* the store is the reference's (Store.insert, chain path and fork path).
THEOREM AgreesAlways == Spec => []AgreesWithReference
<1>1. AInv /\ Materialized => AgreesWithReference
  <2> SUFFICES ASSUME AInv, Materialized PROVE AgreesWithReference
    OBVIOUS
  <2>1. Held = Ref!Held /\ tips = refTips
    BY SameRules DEF AInv, Alike, Held, RP!Held
  <2>2. ASSUME NEW b \in Held
        PROVE  /\ nodes[b].score = refNodes[b].score
               /\ nodes[b].sp = refNodes[b].sp
               /\ nodes[b].children = refNodes[b].children
    BY DEF AInv, Alike, Held
  <2>3. ASSUME NEW b \in Held
        PROVE  /\ b # Genesis => nodes[b].fresh = Ref!Fresh(b)
               /\ nodes[b].orderLen = Cardinality(Ref!View(b))
    BY SameRules DEF Materialized, Held
  <2> QED BY <2>1, <2>2, <2>3 DEF AgreesWithReference
<1> QED BY <1>1, AInvariance, MaterializedAlways, PTL

----------------------------------------------------------------------------
(* Sequences of sequences, one after the other.                            *)

\* f[i] is the first i sequences of seqs, one after the other.
IsFlat(seqs, f) ==
    f = [i \in 1 .. Len(seqs) |-> IF i = 1 THEN seqs[i] ELSE f[i - 1] \o seqs[i]]

\* Two functions agree at a place when they agree at the one before it.
Follows(n, f, g) == \A i \in 1 .. n : (i # 1 => f[i - 1] = g[i - 1]) => f[i] = g[i]

\* They agree everywhere then.
LEMMA PlaceByPlace ==
  ASSUME NEW n \in Nat, NEW f, NEW g, Follows(n, f, g)
  PROVE  \A i \in 1 .. n : f[i] = g[i]
<1> DEFINE P == {i \in Nat : i \in 1 .. n => f[i] = g[i]}
<1>1. 0 \in P
  OBVIOUS
<1>2. ASSUME NEW i \in Nat, i \in P PROVE i + 1 \in P
  <2> SUFFICES ASSUME i + 1 \in 1 .. n PROVE f[i + 1] = g[i + 1]
    OBVIOUS
  <2>1. i + 1 # 1 => f[i] = g[i]
    BY <1>2
  <2>2. i + 1 - 1 = i
    OBVIOUS
  <2> QED BY <2>1, <2>2 DEF Follows
<1>3. Nat \subseteq P
  <2> HIDE DEF P
  <2> QED BY <1>1, <1>2, OverNat
<1> QED BY <1>3

Flattens(W, seqs, f) ==
    /\ f \in [1 .. Len(seqs) -> Seq(W)]
    /\ IsFlat(seqs, f)
    /\ FlattenSeq(seqs) = f[Len(seqs)]

LEMMA FlatExists ==
  ASSUME NEW W, NEW seqs \in Seq(Seq(W)), Len(seqs) # 0
  PROVE  \E f : Flattens(W, seqs, f)
<1> DEFINE S == 1 .. Len(seqs)
           V == Seq(W)
           rank == [i \in S |-> i]
           next == [i \in S |-> i - 1]
           step == [i \in S |-> [v \in V |-> v \o seqs[i]]]
           flat == CHOOSE f : IsFlat(seqs, f)
<1>1. Len(seqs) \in Nat /\ 1 \in Int /\ Len(seqs) \in Int /\ seqs \in [S -> V]
  BY LenProperties
<1>2. IsFiniteSet(S)
  BY <1>1, FirstNumbers
<1>3. /\ \A i \in S : rank[i] \in Nat /\ seqs[i] \in V
      /\ \A i \in S \ {1} : next[i] \in S /\ rank[next[i]] < rank[i] /\ next[i] = i - 1
  BY <1>1
<1>4. \A i \in S \ {1} : \A v \in V : step[i][v] = v \o seqs[i] /\ step[i][v] \in V
  <2>1. \A v \in V, w \in V : v \o w \in V
    BY ConcatProperties
  <2> QED BY <1>3, <2>1
<1> HIDE DEF S, V, rank, next, step
<1>5. PointerSolutions(S, V, {1}, seqs, next, step) # {}
  BY <1>2, <1>3, <1>4, RecursionExists
<1>6. PICK f \in [S -> V] :
        \A i \in S : f[i] = IF i \in {1} THEN seqs[i] ELSE step[i][f[next[i]]]
  BY <1>5 DEF PointerSolutions
<1>7. ASSUME NEW i \in S PROVE f[i] = IF i = 1 THEN seqs[i] ELSE f[i - 1] \o seqs[i]
  <2>1. CASE i = 1
    BY <1>6, <2>1
  <2>2. CASE i # 1
    <3>1. next[i] = i - 1 /\ f[next[i]] \in V
      BY <1>3, <1>6, <2>2
    <3>2. f[i] = step[i][f[i - 1]]
      BY <1>6, <2>2, <3>1
    <3> QED BY <1>4, <2>2, <3>1, <3>2
  <2> QED BY <2>1, <2>2
<1>8. IsFlat(seqs, f)
  BY <1>6, <1>7 DEF IsFlat, S
<1>9. IsFlat(seqs, flat)
  BY <1>8, Zenon
<1>10. FlattenSeq(seqs) = flat[Len(seqs)]
  BY Zenon DEF FlattenSeq, IsFlat
<1> HIDE DEF flat
<1>11. \A i \in S : flat[i] = IF i = 1 THEN seqs[i] ELSE flat[i - 1] \o seqs[i]
  BY <1>9 DEF IsFlat, S
<1>12. f[Len(seqs)] = flat[Len(seqs)]
  <2>1. ASSUME NEW i \in S, i # 1 => f[i - 1] = flat[i - 1] PROVE f[i] = flat[i]
    BY <1>7, <1>11, <2>1
  <2>2. Follows(Len(seqs), f, flat)
    BY <2>1 DEF S, Follows
  <2>3. Len(seqs) \in 1 .. Len(seqs)
    BY <1>1
  <2> QED BY <1>1, <2>2, <2>3, PlaceByPlace
<1> QED BY <1>6, <1>8, <1>10, <1>12, Zenon DEF S, V, Flattens

\* The same, place by place.
Runs(n, seqs, f) ==
    \A i \in 1 .. n : f[i] = IF i = 1 THEN seqs[i] ELSE f[i - 1] \o seqs[i]

Starts(n, more, seqs) == \A i \in 1 .. n : more[i] = seqs[i]

Joins(n, more, f, g) == f[n] = g[n] /\ g[n + 1] = g[n] \o more[n + 1]

\* A longer sequence of sequences starts as the shorter one.
LEMMA FlatsAgree ==
  ASSUME NEW n \in Nat, n # 0, NEW seqs, NEW more, NEW f, NEW g,
         Runs(n, seqs, f), Runs(n + 1, more, g), Starts(n, more, seqs)
  PROVE  Joins(n, more, f, g)
<1>1. ASSUME NEW i \in 1 .. n, i # 1 => f[i - 1] = g[i - 1] PROVE f[i] = g[i]
  <2>1. i \in 1 .. n + 1 /\ more[i] = seqs[i]
    BY DEF Starts
  <2>2. /\ f[i] = IF i = 1 THEN seqs[i] ELSE f[i - 1] \o seqs[i]
        /\ g[i] = IF i = 1 THEN more[i] ELSE g[i - 1] \o more[i]
    BY <2>1, Zenon DEF Runs
  <2> QED BY <1>1, <2>1, <2>2
<1>2. Follows(n, f, g)
  BY <1>1 DEF Follows
<1>3. f[n] = g[n]
  <2>1. n \in 1 .. n
    OBVIOUS
  <2> QED BY <1>2, <2>1, PlaceByPlace
<1>4. g[n + 1] = g[n] \o more[n + 1]
  <2>1. PICK i \in Nat : i = n + 1
    OBVIOUS
  <2>2. i \in 1 .. n + 1 /\ i # 1 /\ i - 1 = n
    BY <2>1
  <2>3. g[i] = IF i = 1 THEN more[i] ELSE g[i - 1] \o more[i]
    BY <2>2, Zenon DEF Runs
  <2> QED BY <2>1, <2>2, <2>3
<1> QED BY <1>3, <1>4, Zenon DEF Joins

LEMMA FlattenGrows ==
  ASSUME NEW W, NEW seqs \in Seq(Seq(W)), NEW s \in Seq(W)
  PROVE  /\ FlattenSeq(seqs) \in Seq(W)
         /\ FlattenSeq(Append(seqs, s)) = FlattenSeq(seqs) \o s
<1> DEFINE n == Len(seqs)
           more == Append(seqs, s)
<1>1. n \in Nat /\ more \in Seq(Seq(W)) /\ Len(more) = n + 1 /\ more[n + 1] = s
      /\ \A i \in 1 .. n : more[i] = seqs[i]
  BY LenProperties, AppendProperties
<1> HIDE DEF n, more
<1>2. PICK g : Flattens(W, more, g)
  <2>1. Len(more) # 0
    BY <1>1
  <2> QED BY <1>1, <2>1, FlatExists
<1>3. Runs(n + 1, more, g) /\ FlattenSeq(more) = g[n + 1]
  BY <1>1, <1>2 DEF Flattens, IsFlat, Runs
<1>4. CASE n = 0
  <2>1. seqs = <<>> /\ FlattenSeq(seqs) = <<>>
    BY <1>4 DEF FlattenSeq, n
  <2>2. FlattenSeq(more) = s
    BY <1>1, <1>3, <1>4 DEF Runs
  <2>3. <<>> \in Seq(W) /\ <<>> \o s = s
    OBVIOUS
  <2> QED BY <2>1, <2>2, <2>3 DEF more
<1>5. CASE n # 0
  <2>1. PICK f : Flattens(W, seqs, f)
    BY <1>5, FlatExists DEF n
  <2>2. Runs(n, seqs, f)
    BY <2>1 DEF Flattens, IsFlat, Runs, n
  <2>3. Joins(n, more, f, g)
    <3>1. n \in Nat /\ Starts(n, more, seqs)
      BY <1>1 DEF Starts
    <3> QED BY <1>3, <1>5, <2>2, <3>1, FlatsAgree, Zenon
  <2>4. FlattenSeq(seqs) = f[n] /\ f \in [1 .. n -> Seq(W)] /\ n \in 1 .. n
    BY <1>1, <1>5, <2>1 DEF Flattens, n
  <2>5. f[n] \in Seq(W)
    BY <2>4, Zenon
  <2>6. FlattenSeq(more) = g[n] \o s
    BY <1>1, <1>3, <2>3, Zenon DEF Joins
  <2> QED BY <2>3, <2>4, <2>5, <2>6, Zenon DEF Joins, more
<1> QED BY <1>4, <1>5

----------------------------------------------------------------------------
(* The chain of a block and the order read from it.                        *)

\* What the reads of the chain need of the nodes.
Stands ==
    /\ IsFiniteSet(DOMAIN nodes)
    /\ Genesis \in DOMAIN nodes /\ nodes[Genesis].sp = Zero
    /\ \A x \in DOMAIN nodes : nodes[x].height \in Nat
    /\ \A x \in DOMAIN nodes \ {Genesis} :
         /\ nodes[x].sp \in DOMAIN nodes /\ nodes[x].sp # Zero
         /\ nodes[nodes[x].sp].height < nodes[x].height

LEMMA NodesStand == AInv /\ Reads => Stands
<1> SUFFICES ASSUME AInv, Reads PROVE Stands
  OBVIOUS
<1>1. /\ DOMAIN nodes = DOMAIN refNodes
      /\ \A x \in DOMAIN nodes : /\ nodes[x].height = refNodes[x].height
                                 /\ nodes[x].sp = refNodes[x].sp
  BY DEF AInv, Alike
<1>2. /\ IsFiniteSet(DOMAIN refNodes)
      /\ Genesis \in DOMAIN refNodes /\ refNodes[Genesis].sp = Zero
      /\ Zero \notin DOMAIN refNodes
  BY DEF Reads
<1>3. \A x \in DOMAIN refNodes : refNodes[x].height \in Nat
  BY DEF Reads
<1>4. \A x \in DOMAIN refNodes \ {Genesis} :
        refNodes[x].sp \in DOMAIN refNodes /\ refNodes[refNodes[x].sp].height < refNodes[x].height
  BY DEF Reads
<1> QED BY <1>1, <1>2, <1>3, <1>4 DEF Stands

\* What genesis has and every block has from its selected parent, every block
\* has.
LEMMA UpTheChain ==
  ASSUME Stands, NEW P, Genesis \in P,
         \A x \in DOMAIN nodes \ {Genesis} : nodes[x].sp \in P => x \in P
  PROVE  DOMAIN nodes \subseteq P
<1> DEFINE Q == {n \in Nat : \A x \in DOMAIN nodes : nodes[x].height < n => x \in P}
<1>1. 0 \in Q
  BY DEF Stands
<1>2. ASSUME NEW n \in Nat, n \in Q PROVE n + 1 \in Q
  <2>1. ASSUME NEW x \in DOMAIN nodes, x # Genesis, nodes[x].height < n + 1 PROVE x \in P
    <3>1. /\ nodes[x].sp \in DOMAIN nodes
          /\ nodes[nodes[x].sp].height < nodes[x].height
          /\ nodes[nodes[x].sp].height \in Nat /\ nodes[x].height \in Nat
      BY <2>1 DEF Stands
    <3>2. nodes[x].sp \in P
      BY <1>2, <2>1, <3>1
    <3> QED BY <2>1, <3>2
  <2> QED BY <2>1
<1>3. Nat \subseteq Q
  <2> HIDE DEF Q
  <2> QED BY <1>1, <1>2, OverNat
<1>4. ASSUME NEW x \in DOMAIN nodes PROVE x \in P
  <2>1. nodes[x].height \in Nat
    BY DEF Stands
  <2>2. nodes[x].height + 1 \in Q /\ nodes[x].height < nodes[x].height + 1
    BY <1>3, <2>1
  <2> QED BY <2>2
<1> QED BY <1>4

LEMMA ChainGrows ==
  ASSUME Stands
  PROVE  /\ Chain(nodes, Genesis) = <<Genesis>>
         /\ \A x \in DOMAIN nodes \ {Genesis} :
              Chain(nodes, x) = Append(Chain(nodes, nodes[x].sp), x)
         /\ \A x \in DOMAIN nodes : Chain(nodes, x) \in Seq(DOMAIN nodes)
<1> DEFINE S == DOMAIN nodes
           V == Seq(S)
           chain == CHOOSE chain : chain =
                      [b \in DOMAIN nodes |-> IF nodes[b].sp = Zero THEN <<b>>
                                              ELSE Append(chain[nodes[b].sp], b)]
           rank == [x \in S |-> nodes[x].height]
           next == [x \in S |-> nodes[x].sp]
           first == [x \in S |-> <<x>>]
           step == [x \in S |-> [v \in V |-> Append(v, x)]]
<1>1. \A x : Chain(nodes, x) = chain[x]
  BY Zenon DEF Chain
<1>2. /\ IsFiniteSet(S) /\ \A x \in S : rank[x] \in Nat
      /\ \A x \in S : x \in {Genesis} => first[x] \in V
      /\ \A x \in S \ {Genesis} : next[x] \in S /\ rank[next[x]] < rank[x]
      /\ \A x \in S : first[x] = <<x>> /\ next[x] = nodes[x].sp
  BY DEF Stands
<1>3. \A x \in S : \A v \in V : step[x][v] = Append(v, x) /\ step[x][v] \in V
  <2>1. \A x \in S : \A v \in V : step[x][v] = Append(v, x)
    OBVIOUS
  <2>2. \A x \in S : \A v \in V : Append(v, x) \in V
    BY AppendProperties
  <2> QED BY <2>1, <2>2
<1> HIDE DEF S, V, chain, rank, next, first, step
<1>4. PointerSolutions(S, V, {Genesis}, first, next, step) # {}
  <2>1. \A x \in S \ {Genesis} : \A v \in V : step[x][v] \in V
    BY <1>3
  <2>2. /\ IsFiniteSet(S) /\ \A x \in S : rank[x] \in Nat
        /\ \A x \in S : x \in {Genesis} => first[x] \in V
        /\ \A x \in S \ {Genesis} : next[x] \in S /\ rank[next[x]] < rank[x]
    BY <1>2
  <2> QED BY <2>1, <2>2, RecursionExists
<1>5. PICK g \in [S -> V] :
        \A x \in S : g[x] = IF x \in {Genesis} THEN first[x] ELSE step[x][g[next[x]]]
  BY <1>4 DEF PointerSolutions
<1>6. ASSUME NEW x \in S
      PROVE  g[x] = IF nodes[x].sp = Zero THEN <<x>> ELSE Append(g[nodes[x].sp], x)
  <2>1. CASE x = Genesis
    BY <1>2, <1>5, <2>1 DEF Stands
  <2>2. CASE x # Genesis
    <3>1. nodes[x].sp \in S /\ nodes[x].sp # Zero
      BY <2>2 DEF Stands, S
    <3>2. g[nodes[x].sp] \in V
      BY <1>5, <3>1
    <3>3. g[x] = step[x][g[nodes[x].sp]]
      BY <1>2, <1>5, <2>2
    <3> QED BY <1>3, <3>1, <3>2, <3>3
  <2> QED BY <2>1, <2>2
<1>7. g = [x \in DOMAIN nodes |-> IF nodes[x].sp = Zero THEN <<x>> ELSE Append(g[nodes[x].sp], x)]
  BY <1>5, <1>6 DEF S
<1>8. chain = [x \in DOMAIN nodes |-> IF nodes[x].sp = Zero THEN <<x>>
                                      ELSE Append(chain[nodes[x].sp], x)]
  BY <1>7, Zenon DEF chain
<1>9. /\ \A x \in S : chain[x] = IF nodes[x].sp = Zero THEN <<x>> ELSE Append(chain[nodes[x].sp], x)
      /\ DOMAIN chain = S
  BY <1>8 DEF S
<1>10. \A x \in S : chain[x] \in V
  <2> DEFINE P == {x \in S : chain[x] \in V}
  <2>1. Genesis \in P
    BY <1>2, <1>9 DEF Stands, S
  <2>2. ASSUME NEW x \in DOMAIN nodes \ {Genesis}, nodes[x].sp \in P PROVE x \in P
    <3>1. nodes[x].sp # Zero /\ x \in S
      BY DEF Stands, S
    <3>2. chain[x] = Append(chain[nodes[x].sp], x) /\ chain[nodes[x].sp] \in V
      BY <1>9, <2>2, <3>1
    <3> QED BY <1>3, <3>1, <3>2
  <2>3. DOMAIN nodes \subseteq P
    <3> HIDE DEF P
    <3> QED BY <2>1, <2>2, UpTheChain
  <2> QED BY <2>3 DEF S
<1>11. /\ chain[Genesis] = <<Genesis>>
       /\ \A x \in S \ {Genesis} : chain[x] = Append(chain[nodes[x].sp], x)
  BY <1>9 DEF Stands, S
<1> QED BY <1>1, <1>10, <1>11 DEF S, V

\* One more block on a segment appends its fresh set.
LEMMA FreshOfGrows ==
  ASSUME NEW W, \A y \in DOMAIN nodes : nodes[y].fresh \in Seq(W),
         NEW c \in Seq(DOMAIN nodes), NEW x \in DOMAIN nodes
  PROVE  /\ FreshOf(nodes, c) \in Seq(W)
         /\ FreshOf(nodes, Append(c, x)) = FreshOf(nodes, c) \o nodes[x].fresh
<1> DEFINE d == Append(c, x)
           cs == [i \in DOMAIN c |-> nodes[c[i]].fresh]
           ds == [i \in DOMAIN d |-> nodes[d[i]].fresh]
<1>1. /\ Len(c) \in Nat /\ DOMAIN c = 1 .. Len(c)
      /\ d \in Seq(DOMAIN nodes) /\ Len(d) = Len(c) + 1 /\ DOMAIN d = 1 .. Len(c) + 1
      /\ d[Len(c) + 1] = x
      /\ \A i \in 1 .. Len(c) : d[i] = c[i] /\ c[i] \in DOMAIN nodes
  BY LenProperties, AppendProperties
<1> HIDE DEF d
<1>2. cs \in Seq(Seq(W)) /\ Len(cs) = Len(c)
  <2>1. \A i \in 1 .. Len(c) : nodes[c[i]].fresh \in Seq(W)
    BY <1>1
  <2>2. cs = [i \in 1 .. Len(c) |-> nodes[c[i]].fresh]
    BY <1>1
  <2> QED BY <1>1, <2>1, <2>2
<1>3. ds = Append(cs, nodes[x].fresh)
  <2>1. Append(cs, nodes[x].fresh) = [i \in 1 .. Len(c) + 1 |->
          IF i = Len(c) + 1 THEN nodes[x].fresh ELSE cs[i]]
    <3> HIDE DEF cs
    <3> QED BY <1>1, <1>2
  <2>2. \A i \in 1 .. Len(c) + 1 :
          nodes[d[i]].fresh = IF i = Len(c) + 1 THEN nodes[x].fresh ELSE cs[i]
    BY <1>1
  <2> QED BY <1>1, <2>1, <2>2
<1>4. FreshOf(nodes, c) = FlattenSeq(cs) /\ FreshOf(nodes, d) = FlattenSeq(ds)
  BY Zenon DEF FreshOf
<1> HIDE DEF cs, ds
<1>5. nodes[x].fresh \in Seq(W)
  OBVIOUS
<1>6. FlattenSeq(cs) \in Seq(W) /\ FlattenSeq(Append(cs, nodes[x].fresh)) = FlattenSeq(cs) \o nodes[x].fresh
  BY <1>2, <1>5, FlattenGrows
<1> QED BY <1>3, <1>4, <1>6 DEF d

LEMMA FreshOfNone == FreshOf(nodes, <<>>) = <<>>
BY DEF FreshOf, FlattenSeq

\* The chain of t ends at t and goes down by selected parents, and the order
\* of t is the order of any block of it and what the blocks above added.
Climbs(t, c) ==
    /\ Len(c) # 0 /\ c[Len(c)] = t
    /\ \A i \in 1 .. Len(c) : i # Len(c) => c[i] = nodes[c[i + 1]].sp

Resumes(t, c) ==
    \A i \in 1 .. Len(c) :
        /\ FreshOf(nodes, SubSeq(c, i + 1, Len(c))) \in Seq(DOMAIN nodes)
        /\ RP!ConsensusOrder(t) = RP!ConsensusOrder(c[i]) \o FreshOf(nodes, SubSeq(c, i + 1, Len(c)))

ChainReads ==
    \A t \in DOMAIN nodes : \E c \in Seq(DOMAIN nodes) :
        /\ c = Chain(nodes, t)
        /\ Climbs(t, c)
        /\ RebuiltOrder(nodes, t) = RP!ConsensusOrder(t)
        /\ Resumes(t, c)

\* What the chain gives is listed over the blocks of the store.
LEMMA ListedOverHeld ==
  ASSUME AInv, Reads, Materialized
  PROVE  /\ \A x \in DOMAIN nodes : RP!ConsensusOrder(x) \in Seq(DOMAIN nodes)
         /\ \A x \in DOMAIN nodes : nodes[x].fresh \in Seq(DOMAIN nodes)
         /\ RP!ConsensusOrder(Genesis) = <<Genesis>> /\ nodes[Genesis].fresh = <<Genesis>>
         /\ \A x \in DOMAIN nodes \ {Genesis} :
              RP!ConsensusOrder(x) = RP!ConsensusOrder(nodes[x].sp) \o nodes[x].fresh
<1>1. DOMAIN nodes = DOMAIN refNodes /\ \A x \in DOMAIN nodes : nodes[x].sp = refNodes[x].sp
  BY DEF AInv, Alike
<1>2. ASSUME NEW x \in DOMAIN nodes PROVE RP!ConsensusOrder(x) \in Seq(DOMAIN nodes)
  <2>1. RP!View(x) \subseteq DOMAIN nodes /\ RP!ConsensusOrder(x) \in Seq(RP!View(x))
    BY <1>1 DEF Reads
  <2> QED BY <2>1, SeqMonotonic
<1>3. ASSUME NEW x \in DOMAIN nodes \ {Genesis}
      PROVE  /\ nodes[x].fresh \in Seq(DOMAIN nodes)
             /\ RP!ConsensusOrder(x) = RP!ConsensusOrder(nodes[x].sp) \o nodes[x].fresh
  <2>1. nodes[x].fresh = RP!Fresh(x)
    BY DEF Materialized
  <2>2. /\ RP!View(x) \subseteq DOMAIN nodes
        /\ RP!Fresh(x) \in Seq(RP!View(x) \ RP!View(refNodes[x].sp))
        /\ RP!ConsensusOrder(x) = RP!ConsensusOrder(refNodes[x].sp) \o RP!Fresh(x)
    BY <1>1 DEF Reads
  <2>3. RP!Fresh(x) \in Seq(DOMAIN nodes)
    <3>1. RP!View(x) \ RP!View(refNodes[x].sp) \subseteq DOMAIN nodes
      BY <2>2
    <3> QED BY <2>2, <3>1, SeqMonotonic
  <2> QED BY <1>1, <2>1, <2>2, <2>3
<1>4. /\ Genesis \in DOMAIN nodes /\ nodes[Genesis].fresh = <<Genesis>>
      /\ RP!ConsensusOrder(Genesis) = <<Genesis>>
  BY <1>1 DEF Reads, Materialized
<1> QED BY <1>2, <1>3, <1>4

\* The part of a sequence above a place, one element longer with the sequence.
PartGrows(S, c, x, i) ==
    /\ SubSeq(Append(c, x), i + 1, Len(c) + 1) = Append(SubSeq(c, i + 1, Len(c)), x)
    /\ SubSeq(c, i + 1, Len(c)) \in Seq(S)

LEMMA PartOfAppend ==
  ASSUME NEW S, NEW c \in Seq(S), NEW x \in S, NEW i \in 1 .. Len(c)
  PROVE  PartGrows(S, c, x, i)
<1> DEFINE n == Len(c)
           d == Append(c, x)
           e == SubSeq(c, i + 1, n)
           f == SubSeq(d, i + 1, n + 1)
<1>1. /\ n \in Nat /\ i \in Int /\ i + 1 \in Int /\ n + 1 \in Int /\ i <= n
      /\ d \in Seq(S) /\ Len(d) = n + 1 /\ d[n + 1] = x
      /\ \A j \in 1 .. n : d[j] = c[j] /\ c[j] \in S
  BY LenProperties, AppendProperties
<1> HIDE DEF n, d
<1>2. e \in Seq(S) /\ Len(e) = n - i /\ \A j \in 1 .. n - i : e[j] = c[i + j]
  <2>1. \A j \in i + 1 .. n : c[j] \in S
    BY <1>1
  <2>2. /\ e \in Seq(S) /\ Len(e) = (IF i + 1 <= n THEN n - (i + 1) + 1 ELSE 0)
        /\ \A j \in 1 .. n - (i + 1) + 1 : e[j] = c[i + 1 + j - 1]
    BY <1>1, <2>1, SubSeqProperties
  <2>3. n - (i + 1) + 1 = n - i /\ \A j \in 1 .. n - i : i + 1 + j - 1 = i + j
    BY <1>1
  <2> HIDE DEF e
  <2> QED BY <1>1, <2>2, <2>3
<1>3. f \in Seq(S) /\ Len(f) = n - i + 1 /\ \A j \in 1 .. n - i + 1 : f[j] = d[i + j]
  <2>1. \A j \in i + 1 .. n + 1 : d[j] \in S
    BY <1>1
  <2>2. /\ f \in Seq(S) /\ Len(f) = (IF i + 1 <= n + 1 THEN n + 1 - (i + 1) + 1 ELSE 0)
        /\ \A j \in 1 .. n + 1 - (i + 1) + 1 : f[j] = d[i + 1 + j - 1]
    BY <1>1, <2>1, SubSeqProperties, SMTT(30)
  <2>3. n + 1 - (i + 1) + 1 = n - i + 1 /\ \A j \in 1 .. n - i + 1 : i + 1 + j - 1 = i + j
    BY <1>1
  <2> HIDE DEF f
  <2> QED BY <1>1, <2>2, <2>3
<1> HIDE DEF e, f
<1>4. /\ Append(e, x) \in Seq(S) /\ Len(Append(e, x)) = n - i + 1
      /\ Append(e, x)[n - i + 1] = x
      /\ \A j \in 1 .. n - i : Append(e, x)[j] = e[j]
  BY <1>2, AppendProperties
<1>5. ASSUME NEW j \in 1 .. n - i + 1 PROVE f[j] = Append(e, x)[j]
  <2>1. CASE j = n - i + 1
    <3>1. i + j = n + 1
      BY <1>1, <2>1
    <3> QED BY <1>1, <1>3, <1>4, <2>1, <3>1
  <2>2. CASE j # n - i + 1
    <3>1. j \in 1 .. n - i /\ i + j \in 1 .. n
      BY <1>1, <2>2
    <3> QED BY <1>1, <1>2, <1>3, <1>4, <3>1
  <2> QED BY <2>1, <2>2
<1>6. f = Append(e, x)
  BY <1>3, <1>4, <1>5, SeqEqual
<1> QED BY <1>2, <1>6, Zenon DEF d, e, f, n, PartGrows

LEMMA ChainIsRead == AInv /\ Reads /\ Materialized => ChainReads
<1> SUFFICES ASSUME AInv, Reads, Materialized PROVE ChainReads
  OBVIOUS
<1>1. Stands
  BY NodesStand
<1> DEFINE S == DOMAIN nodes
           C(x) == Chain(nodes, x)
           O(x) == RP!ConsensusOrder(x)
<1>2. /\ \A x \in S : O(x) \in Seq(S)
      /\ \A x \in S : nodes[x].fresh \in Seq(S)
      /\ O(Genesis) = <<Genesis>> /\ nodes[Genesis].fresh = <<Genesis>>
      /\ \A x \in S \ {Genesis} : O(x) = O(nodes[x].sp) \o nodes[x].fresh
  BY ListedOverHeld
<1>3. /\ C(Genesis) = <<Genesis>> /\ Genesis \in S
      /\ \A x \in S \ {Genesis} : C(x) = Append(C(nodes[x].sp), x) /\ nodes[x].sp \in S
      /\ \A x \in S : C(x) \in Seq(S)
  BY <1>1, ChainGrows DEF Stands
<1> DEFINE Read(x) == Climbs(x, C(x)) /\ FreshOf(nodes, C(x)) = O(x) /\ Resumes(x, C(x))
           P == {x \in S : Read(x)}
<1> HIDE DEF C, O
<1>4. Genesis \in P
  <2>1. Climbs(Genesis, <<Genesis>>)
    BY DEF Climbs
  <2>2. FreshOf(nodes, <<Genesis>>) = <<Genesis>>
    <3>1. <<>> \in Seq(S) /\ Append(<<>>, Genesis) = <<Genesis>> /\ <<>> \o <<Genesis>> = <<Genesis>>
      OBVIOUS
    <3>2. FreshOf(nodes, Append(<<>>, Genesis)) = FreshOf(nodes, <<>>) \o nodes[Genesis].fresh
      BY <1>2, <1>3, <3>1, FreshOfGrows
    <3> QED BY <1>2, <3>1, <3>2, FreshOfNone
  <2>3. Resumes(Genesis, <<Genesis>>)
    <3>1. SubSeq(<<Genesis>>, 2, 1) = <<>> /\ <<Genesis>> \o <<>> = <<Genesis>>
      BY SubSeqEmpty
    <3>2. ASSUME NEW i \in 1 .. Len(<<Genesis>>)
          PROVE  i = 1 /\ <<Genesis>>[i] = Genesis /\ i + 1 = 2 /\ Len(<<Genesis>>) = 1
      OBVIOUS
    <3>3. /\ O(Genesis) = O(Genesis) \o FreshOf(nodes, SubSeq(<<Genesis>>, 2, 1))
          /\ FreshOf(nodes, SubSeq(<<Genesis>>, 2, 1)) \in Seq(DOMAIN nodes)
      <4>1. <<>> \in Seq(DOMAIN nodes)
        OBVIOUS
      <4> QED BY <1>2, <3>1, <4>1, FreshOfNone, Zenon
    <3> QED BY <3>2, <3>3, Zenon DEF Resumes, O
  <2> QED BY <1>2, <1>3, <2>1, <2>2, <2>3
<1>5. ASSUME NEW x \in S \ {Genesis}, nodes[x].sp \in P PROVE x \in P
  <2> DEFINE p == nodes[x].sp
             c == C(p)
             d == C(x)
             n == Len(c)
  <2>1. p \in S /\ c \in Seq(S) /\ d \in Seq(S) /\ d = Append(c, x)
    BY <1>3
  <2>2. Climbs(p, c) /\ FreshOf(nodes, c) = O(p) /\ Resumes(p, c)
    BY <1>5
  <2>3. /\ n \in Nat /\ n # 0 /\ Len(d) = n + 1 /\ d[n + 1] = x /\ c[n] = p
        /\ \A i \in 1 .. n : d[i] = c[i]
    BY <2>1, <2>2, LenProperties, AppendProperties DEF Climbs
  <2>4. Climbs(x, d)
    <3>1. ASSUME NEW i \in 1 .. n + 1, i # n + 1 PROVE d[i] = nodes[d[i + 1]].sp
      <4>1. i \in 1 .. n
        BY <2>3, <3>1
      <4>2. CASE i = n
        BY <2>3, <4>1, <4>2
      <4>3. CASE i # n
        <5>1. i + 1 \in 1 .. n /\ c[i] = nodes[c[i + 1]].sp
          BY <2>2, <2>3, <4>1, <4>3 DEF Climbs
        <5> QED BY <2>3, <4>1, <5>1
      <4> QED BY <4>2, <4>3
    <3> QED BY <2>3, <3>1 DEF Climbs
  <2>5. FreshOf(nodes, d) = O(x)
    BY <1>2, <2>1, <2>2, FreshOfGrows
  <2>6. Resumes(x, d)
    <3>1. ASSUME NEW i \in 1 .. n + 1
          PROVE  /\ FreshOf(nodes, SubSeq(d, i + 1, n + 1)) \in Seq(S)
                 /\ O(x) = O(d[i]) \o FreshOf(nodes, SubSeq(d, i + 1, n + 1))
      <4>1. CASE i = n + 1
        <5>1. SubSeq(d, i + 1, n + 1) = <<>>
          BY <2>3, <4>1, SubSeqEmpty
        <5>2. O(x) \o <<>> = O(x) /\ <<>> \in Seq(S)
          BY <1>2, ConcatEmptySeq
        <5> QED BY <2>3, <4>1, <5>1, <5>2, FreshOfNone
      <4>2. CASE i # n + 1
        <5>1. i \in 1 .. n /\ d[i] = c[i] /\ c[i] \in S
          BY <2>1, <2>3, <4>2
        <5> DEFINE e == SubSeq(c, i + 1, n)
        <5>2. SubSeq(d, i + 1, n + 1) = Append(e, x) /\ e \in Seq(S)
          <6>1. c \in Seq(S) /\ x \in S /\ i \in 1 .. Len(c) /\ d = Append(c, x)
            BY <2>1, <5>1
          <6>2. PartGrows(S, c, x, i)
            BY <6>1, PartOfAppend
          <6> QED BY <6>1, <6>2, Zenon DEF PartGrows
        <5>3. O(p) = O(c[i]) \o FreshOf(nodes, e)
          BY <2>2, <5>1 DEF Resumes, O
        <5>4. FreshOf(nodes, e) \in Seq(S) /\ FreshOf(nodes, Append(e, x)) = FreshOf(nodes, e) \o nodes[x].fresh
          BY <1>2, <5>2, FreshOfGrows
        <5>5. (O(c[i]) \o FreshOf(nodes, e)) \o nodes[x].fresh = O(c[i]) \o (FreshOf(nodes, e) \o nodes[x].fresh)
          <6> DEFINE a == O(c[i])
                     f == FreshOf(nodes, e)
                     q == nodes[x].fresh
          <6>1. a \in Seq(S) /\ f \in Seq(S) /\ q \in Seq(S)
            BY <1>2, <5>1, <5>4
          <6> HIDE DEF a, f, q
          <6>2. (a \o f) \o q = a \o (f \o q)
            BY <6>1, ConcatAssociative, SMTT(30)
          <6> QED BY <6>2 DEF a, f, q
        <5>6. O(x) = O(p) \o nodes[x].fresh
          BY <1>2
        <5>7. FreshOf(nodes, Append(e, x)) \in Seq(S)
          <6>1. nodes[x].fresh \in Seq(S) /\ FreshOf(nodes, e) \in Seq(S)
            BY <1>2, <5>4
          <6> QED BY <5>4, <6>1, ConcatProperties
        <5> HIDE DEF e
        <5> QED BY <5>1, <5>2, <5>3, <5>4, <5>5, <5>6, <5>7, Zenon
      <4> QED BY <4>1, <4>2
    <3> QED BY <2>3, <3>1 DEF Resumes, O
  <2> QED BY <2>4, <2>5, <2>6
<1>6. S \subseteq P
  <2>1. \A x \in DOMAIN nodes \ {Genesis} : nodes[x].sp \in P => x \in P
    BY <1>5
  <2> HIDE DEF P
  <2> QED BY <1>1, <1>4, <2>1, UpTheChain
<1> QED BY <1>3, <1>6 DEF ChainReads, RebuiltOrder, C, O

----------------------------------------------------------------------------
(* The materialized order.                                                 *)

BestStands == \E t : t = BestOf(nodes, tips) /\ RP!IsBestTip(t)

LEMMA OneIsBest == AInv => BestStands
<1> SUFFICES ASSUME AInv PROVE BestStands
  OBVIOUS
<1>1. /\ RP!DagAssumption /\ RP!TypeOK /\ RP!TipsCoverTheDag
      /\ Genesis \in DOMAIN refNodes /\ refTips \subseteq DOMAIN refNodes
      /\ tips = refTips
  BY SameRules DEF AInv, Alike, RP!DInv, RP!Inv, RP!TypeOK, RP!Held
<1>2. IsFiniteSet(refTips) /\ refTips # {}
  <2>1. IsFiniteSet(DOMAIN refNodes)
    BY <1>1, Zenon DEF RP!TypeOK, RP!Held, RP!IsFiniteSet, IsFiniteSet
  <2> QED BY <1>1, <2>1, FS_Subset DEF RP!TipsCoverTheDag, RP!Held
<1> DEFINE R == {pair \in refTips \X refTips : RP!Precedes(pair[1], pair[2])}
<1>3. \A x, y \in refTips : <<x, y>> \in R <=> RP!Precedes(x, y)
  OBVIOUS
<1>4. /\ \A x \in refTips : ~RP!Precedes(x, x)
      /\ \A x, y \in refTips : x # y => RP!Precedes(x, y) \/ RP!Precedes(y, x)
      /\ \A x, y, z \in refTips : RP!Precedes(x, y) /\ RP!Precedes(y, z) => RP!Precedes(x, z)
  BY <1>1, RP!PrecedesIsTotal DEF RP!Held
<1> HIDE DEF R
<1>5. /\ \A x \in refTips : <<x, x>> \notin R
      /\ \A x, y, z \in refTips : <<x, y>> \in R /\ <<y, z>> \in R => <<x, z>> \in R
  BY <1>3, <1>4, Zenon
<1>6. PICK t \in refTips : \A u \in refTips : <<u, t>> \notin R
  BY <1>2, <1>5, FirstOne
<1>7. \A u \in refTips \ {t} : RP!Precedes(t, u)
  BY <1>3, <1>4, <1>6
<1>8. \A x, y \in refTips : RP!Precedes(x, y) <=>
        (nodes[x].score > nodes[y].score \/ (nodes[x].score = nodes[y].score /\ x < y))
  <2>1. \A x \in refTips : nodes[x].score = refNodes[x].score
    BY <1>1 DEF AInv, Alike
  <2> QED BY <2>1 DEF RP!Precedes
<1>9. \E best \in tips : \A u \in tips \ {best} :
         nodes[best].score > nodes[u].score \/ (nodes[best].score = nodes[u].score /\ best < u)
  BY <1>1, <1>6, <1>7, <1>8, Zenon
<1>10. /\ BestOf(nodes, tips) \in tips
       /\ \A u \in tips \ {BestOf(nodes, tips)} :
            \/ nodes[BestOf(nodes, tips)].score > nodes[u].score
            \/ nodes[BestOf(nodes, tips)].score = nodes[u].score /\ BestOf(nodes, tips) < u
  BY <1>9, Zenon DEF BestOf
<1> HIDE DEF BestOf
<1>11. \A u \in refTips \ {BestOf(nodes, tips)} : RP!Precedes(BestOf(nodes, tips), u)
  BY <1>1, <1>8, <1>10, Zenon
<1> QED BY <1>1, <1>10, <1>11, Zenon DEF BestStands, RP!IsBestTip

\* The order of a block the reference had is the same after an insertion.
LEMMA OrdersStay ==
  ASSUME AInv, Reads, Reads', Keeps, NEW x \in DOMAIN nodes
  PROVE  x \in DOMAIN refNodes' /\ RP!ConsensusOrder(x)' = RP!ConsensusOrder(x)
<1> DEFINE P == {y \in DOMAIN nodes : RP!ConsensusOrder(y)' = RP!ConsensusOrder(y)}
<1>1. /\ DOMAIN nodes = DOMAIN refNodes /\ \A y \in DOMAIN nodes : nodes[y].sp = refNodes[y].sp
      /\ Stands
  BY NodesStand DEF AInv, Alike
<1>2. Genesis \in P
  BY <1>1 DEF Reads
<1>3. ASSUME NEW y \in DOMAIN nodes \ {Genesis}, nodes[y].sp \in P PROVE y \in P
  <2>1. PICK p \in DOMAIN nodes : p = nodes[y].sp /\ p = refNodes[y].sp
    BY <1>1 DEF Stands
  <2>2. y \in DOMAIN refNodes' \ {Genesis} /\ refNodes'[y].sp = p
    BY <1>1, <2>1 DEF Keeps
  <2>3. RP!Fresh(y)' = RP!Fresh(y)
    BY <1>1, FreshStays
  <2>4. RP!ConsensusOrder(y)' = RP!ConsensusOrder(p)' \o RP!Fresh(y)'
    BY <2>2 DEF Reads
  <2>5. RP!ConsensusOrder(y) = RP!ConsensusOrder(p) \o RP!Fresh(y)
    BY <1>1, <2>1 DEF Reads
  <2>6. RP!ConsensusOrder(p)' = RP!ConsensusOrder(p)
    BY <1>3, <2>1
  <2> QED BY <2>3, <2>4, <2>5, <2>6
<1>4. DOMAIN nodes \subseteq P
  <2>1. \A y \in DOMAIN nodes \ {Genesis} : nodes[y].sp \in P => y \in P
    BY <1>3
  <2> HIDE DEF P
  <2> QED BY <1>1, <1>2, <2>1, UpTheChain
<1> QED BY <1>1, <1>4 DEF Keeps

\* positions is the inverse of order.
Inverts(pos, seq) ==
    /\ DOMAIN pos = ToSet(seq)
    /\ \A i \in DOMAIN seq : pos[seq[i]] = i - 1

EachOnce(seq) == \A i, j \in DOMAIN seq : seq[i] = seq[j] => i = j

LEMMA PositionsInvert ==
  ASSUME NEW S, NEW s \in Seq(S), EachOnce(s)
  PROVE  Inverts(PositionsOf(s), s)
<1>1. ASSUME NEW i \in DOMAIN s PROVE PositionsOf(s)[s[i]] = i - 1
  <2>1. s[i] \in ToSet(s)
    BY DEF ToSet
  <2>2. PositionsOf(s)[s[i]] = (CHOOSE j \in DOMAIN s : s[j] = s[i]) - 1
    BY <2>1 DEF PositionsOf
  <2>3. (CHOOSE j \in DOMAIN s : s[j] = s[i]) = i
    BY Zenon DEF EachOnce
  <2> QED BY <2>2, <2>3
<1>2. DOMAIN PositionsOf(s) = ToSet(s)
  BY DEF PositionsOf
<1> QED BY <1>1, <1>2 DEF Inverts

\* The table that refresh_order extends.
Extended(pos, s, a) ==
    [b \in DOMAIN pos \cup ToSet(a) |->
       IF b \in ToSet(a) THEN Len(s) + PositionsOf(a)[b] ELSE pos[b]]

LEMMA ExtendedInverts ==
  ASSUME NEW S, NEW s \in Seq(S), NEW a \in Seq(S), EachOnce(s \o a),
         NEW pos, Inverts(pos, s)
  PROVE  Inverts(Extended(pos, s, a), s \o a)
<1> DEFINE w == s \o a
           m == Len(s)
           n == Len(a)
<1>1. /\ m \in Nat /\ n \in Nat /\ DOMAIN s = 1 .. m /\ DOMAIN a = 1 .. n
      /\ DOMAIN w = 1 .. m + n
      /\ \A i \in 1 .. m : w[i] = s[i]
      /\ \A i \in 1 .. n : w[m + i] = a[i]
  BY LenProperties, ConcatProperties
<1>2. \A i, j \in 1 .. m + n : w[i] = w[j] => i = j
  BY <1>1 DEF EachOnce
<1> HIDE DEF w, m, n
<1>3. ASSUME NEW i \in 1 .. m + n, i > m
      PROVE  i - m \in 1 .. n /\ w[i] = a[i - m]
  <2>1. PICK k \in 1 .. n : k = i - m
    BY <1>1, <1>3
  <2>2. w[m + k] = a[k] /\ m + k = i
    BY <1>1, <1>3, <2>1
  <2> QED BY <2>1, <2>2
<1>4. Inverts(PositionsOf(a), a)
  <2>1. ASSUME NEW i \in 1 .. n, NEW j \in 1 .. n, a[i] = a[j] PROVE i = j
    <3>1. m + i \in 1 .. m + n /\ m + j \in 1 .. m + n /\ w[m + i] = w[m + j]
      BY <1>1, <2>1
    <3>2. m + i = m + j
      BY <1>2, <3>1, Zenon
    <3> QED BY <1>1, <3>2
  <2>2. EachOnce(a)
    BY <1>1, <2>1 DEF EachOnce
  <2> QED BY <2>2, PositionsInvert
<1>5. ASSUME NEW i \in 1 .. m + n PROVE w[i] \in ToSet(a) <=> i > m
  <2>1. ASSUME i > m PROVE w[i] \in ToSet(a)
    BY <1>1, <1>3, <2>1 DEF ToSet
  <2>2. ASSUME w[i] \in ToSet(a), ~(i > m) PROVE FALSE
    <3>1. PICK k \in 1 .. n : a[k] = w[i]
      BY <1>1, <2>2 DEF ToSet
    <3>2. m + k \in 1 .. m + n /\ w[m + k] = w[i] /\ m + k # i
      BY <1>1, <2>2, <3>1
    <3> QED BY <1>2, <3>2
  <2> QED BY <2>1, <2>2
<1>6. ASSUME NEW i \in 1 .. m + n PROVE i > m \/ i \in 1 .. m
  BY <1>1
<1>7. ToSet(w) = ToSet(s) \cup ToSet(a)
  <2>1. ASSUME NEW x \in ToSet(w) PROVE x \in ToSet(s) \cup ToSet(a)
    <3>1. PICK i \in 1 .. m + n : x = w[i]
      BY <1>1 DEF ToSet
    <3>2. CASE i > m
      BY <1>5, <3>1, <3>2
    <3>3. CASE i \in 1 .. m
      BY <1>1, <3>1, <3>3 DEF ToSet
    <3> QED BY <1>6, <3>2, <3>3
  <2>2. ASSUME NEW x \in ToSet(s) PROVE x \in ToSet(w)
    <3>1. PICK i \in 1 .. m : x = s[i]
      BY <1>1 DEF ToSet
    <3>2. i \in 1 .. m + n /\ w[i] = x
      BY <1>1, <3>1
    <3> QED BY <1>1, <3>2 DEF ToSet
  <2>3. ASSUME NEW x \in ToSet(a) PROVE x \in ToSet(w)
    <3>1. PICK i \in 1 .. n : x = a[i]
      BY <1>1 DEF ToSet
    <3>2. m + i \in 1 .. m + n /\ w[m + i] = x
      BY <1>1, <3>1
    <3> QED BY <1>1, <3>2 DEF ToSet
  <2> QED BY <2>1, <2>2, <2>3
<1>8. DOMAIN Extended(pos, s, a) = ToSet(w)
  BY <1>7 DEF Extended, Inverts
<1>9. ASSUME NEW i \in 1 .. m + n PROVE Extended(pos, s, a)[w[i]] = i - 1
  <2>1. w[i] \in ToSet(w)
    BY <1>1 DEF ToSet
  <2>2. Extended(pos, s, a)[w[i]] = IF w[i] \in ToSet(a) THEN m + PositionsOf(a)[w[i]] ELSE pos[w[i]]
    BY <1>7, <2>1 DEF Extended, Inverts, m
  <2>3. CASE i > m
    <3>1. PositionsOf(a)[a[i - m]] = i - m - 1
      BY <1>1, <1>3, <1>4, <2>3 DEF Inverts
    <3> QED BY <1>1, <1>3, <1>5, <2>2, <2>3, <3>1
  <2>4. CASE ~(i > m)
    <3>1. i \in 1 .. m /\ w[i] = s[i]
      BY <1>1, <1>6, <2>4
    <3> QED BY <1>1, <1>5, <2>2, <2>4, <3>1 DEF Inverts
  <2> QED BY <2>3, <2>4
<1> QED BY <1>1, <1>8, <1>9 DEF Inverts, w

\* The third inductive invariant.
Ordered ==
    /\ RP!IsBestTip(orderTip)
    /\ order = RP!ConsensusOrder(orderTip)
    /\ Inverts(positions, order)

\* What the refresh reads: the best tip and its chain.
Readable == BestStands /\ ChainReads

LEMMA InitOrdered == Init => Ordered
<1> SUFFICES ASSUME Init PROVE Ordered
  OBVIOUS
<1>1. RP!Init /\ AInv
  BY SameRules, InitAInv DEF Init
<1>2. RP!IsBestTip(Genesis)
  BY <1>1 DEF RP!Init, RP!IsBestTip
<1>3. RP!ConsensusOrder(Genesis) = <<Genesis>>
  BY <1>1, ReferenceReads DEF AInv, Reads
<1>4. Inverts([x \in {Genesis} |-> 0], <<Genesis>>)
  BY DEF Inverts, ToSet
<1> QED BY <1>2, <1>3, <1>4 DEF Init, Ordered

\* An order lists each block once.
LEMMA OrdersOnce == Reads => \A x \in DOMAIN refNodes : EachOnce(RP!ConsensusOrder(x))
BY DEF Reads, EachOnce

LEMMA RefreshOrdered ==
  ASSUME AInv, AInv', Reads, Reads', Keeps, Materialized', Readable', Ordered,
         RefreshOrder(nodes', tips')
  PROVE  Ordered'
<1>1. PICK t : t = BestOf(nodes', tips') /\ RP!IsBestTip(t)'
  BY Zenon DEF Readable, BestStands
<1>2. PICK o : o = orderTip
  OBVIOUS
<1>3. o \in DOMAIN nodes /\ RP!ConsensusOrder(o)' = RP!ConsensusOrder(o)
  <2>1. o \in refTips
    BY <1>2 DEF Ordered, RP!IsBestTip
  <2>2. refTips \subseteq DOMAIN refNodes /\ DOMAIN nodes = DOMAIN refNodes
    BY DEF AInv, Alike, RP!DInv, RP!Inv, RP!TypeOK, RP!Held
  <2> QED BY <2>1, <2>2, OrdersStay
<1>4. t \in DOMAIN nodes' /\ t \in DOMAIN refNodes'
  <2>1. t \in refTips'
    BY <1>1 DEF RP!IsBestTip
  <2>2. refTips' \subseteq DOMAIN refNodes' /\ DOMAIN nodes' = DOMAIN refNodes'
    BY DEF AInv, Alike, RP!DInv, RP!Inv, RP!TypeOK, RP!Held
  <2> QED BY <2>1, <2>2
<1>5. order = RP!ConsensusOrder(o) /\ Inverts(positions, order)
  BY <1>2 DEF Ordered
<1>6. SUFFICES orderTip' = t /\ order' = RP!ConsensusOrder(t)' /\ Inverts(positions', order')
  BY <1>1, <1>6 DEF Ordered, RP!IsBestTip, Inverts
<1>7. CASE t = orderTip
  <2>1. orderTip' = t /\ order' = order /\ positions' = positions
    BY <1>1, <1>7 DEF RefreshOrder, orderVars
  <2> QED BY <1>2, <1>3, <1>5, <1>7, <2>1
<1>8. CASE t # orderTip
  <2>1. PICK c \in Seq(DOMAIN nodes') :
          /\ c = Chain(nodes', t)
          /\ RebuiltOrder(nodes', t) = RP!ConsensusOrder(t)'
          /\ Resumes(t, c)'
    BY <1>4, Zenon DEF Readable, ChainReads
  <2>2. EachOnce(RP!ConsensusOrder(t)')
    BY <1>4 DEF EachOnce, Reads
  <2>3. RP!ConsensusOrder(t)' \in Seq(RP!View(t)')
    BY <1>4 DEF Reads
  <2>4. orderTip' = t
    BY <1>1, <1>8, Zenon DEF RefreshOrder
  <2>5. ASSUME NEW segment \in Walked(nodes', t),
               order' = order \o FreshOf(nodes', segment),
               positions' = Extended(positions, order, FreshOf(nodes', segment))
        PROVE  order' = RP!ConsensusOrder(t)' /\ Inverts(positions', order')
    <3>1. PICK i \in DOMAIN c : segment = SubSeq(c, i + 1, Len(c)) /\ c[i] = o
      BY <1>2, <2>1 DEF Walked
    <3> DEFINE added == FreshOf(nodes', segment)
    <3>2. RP!ConsensusOrder(t)' = RP!ConsensusOrder(o)' \o added /\ added \in Seq(DOMAIN nodes')
      <4>1. i \in 1 .. Len(c) /\ c[i] = o
        BY <3>1, LenProperties
      <4>2. /\ FreshOf(nodes', SubSeq(c, i + 1, Len(c))) \in Seq(DOMAIN nodes')
            /\ RP!ConsensusOrder(t)' = RP!ConsensusOrder(c[i])' \o FreshOf(nodes', SubSeq(c, i + 1, Len(c)))
        BY <2>1, <4>1, Zenon DEF Resumes
      <4> QED BY <3>1, <4>1, <4>2
    <3> HIDE DEF added
    <3>3. order' = RP!ConsensusOrder(t)' /\ order' = order \o added
      BY <1>3, <1>5, <2>5, <3>2 DEF added
    <3>4. order \in Seq(DOMAIN nodes \cup DOMAIN nodes') /\ added \in Seq(DOMAIN nodes \cup DOMAIN nodes')
      <4>1. order \in Seq(RP!View(o)) /\ RP!View(o) \subseteq DOMAIN nodes
        BY <1>3, <1>5 DEF Reads, AInv, Alike
      <4>2. RP!View(o) \subseteq DOMAIN nodes \cup DOMAIN nodes'
        BY <4>1
      <4> QED BY <3>2, <4>1, <4>2, SeqMonotonic
    <3>5. EachOnce(order \o added)
      BY <2>2, <3>3
    <3>6. Inverts(Extended(positions, order, added), order \o added)
      BY <1>5, <3>4, <3>5, ExtendedInverts
    <3> QED BY <2>5, <3>3, <3>6 DEF added
  <2>6. ASSUME order' = RebuiltOrder(nodes', t),
               positions' = PositionsOf(RebuiltOrder(nodes', t))
        PROVE  order' = RP!ConsensusOrder(t)' /\ Inverts(positions', order')
    BY <2>1, <2>2, <2>3, <2>6, PositionsInvert
  <2>7. \/ \E segment \in Walked(nodes', t) :
             /\ order' = order \o FreshOf(nodes', segment)
             /\ positions' = Extended(positions, order, FreshOf(nodes', segment))
        \/ /\ order' = RebuiltOrder(nodes', t)
           /\ positions' = PositionsOf(RebuiltOrder(nodes', t))
    BY <1>1, <1>8, Zenon DEF RefreshOrder, Extended
  <2> QED BY <2>4, <2>5, <2>6, <2>7
<1> QED BY <1>7, <1>8

LEMMA OrderedAlways == Spec => [](Ordered /\ Readable)
<1>1. AInv => Reads /\ BestStands
  BY ReferenceReads, OneIsBest DEF AInv
<1>2. AInv /\ Reads /\ Materialized => ChainReads
  BY ChainIsRead
<1>3. /\ AInv /\ AInv' /\ Reads /\ Reads' /\ Materialized' /\ Readable' /\ Ordered /\ [Next]_vars
      => Ordered'
  <2> SUFFICES ASSUME AInv, AInv', Reads, Reads', Materialized', Readable', Ordered, [Next]_vars
               PROVE  Ordered'
    OBVIOUS
  <2>1. ASSUME NEW b \in Rules!Block, NEW now \in Times, Insert(b, now) PROVE Ordered'
    <3>1. Keeps /\ RefreshOrder(nodes', tips')
      BY <2>1, Enters, ReferenceKeeps DEF AInv
    <3> QED BY <3>1, RefreshOrdered
  <2>2. CASE UNCHANGED vars
    <3>1. /\ nodes' = nodes /\ refNodes' = refNodes /\ refTips' = refTips
          /\ order' = order /\ orderTip' = orderTip /\ positions' = positions
      BY <2>2 DEF vars, orderVars, refVars
    <3>2. Keeps
      BY <3>1 DEF Keeps
    <3>3. PICK o : o = orderTip
      OBVIOUS
    <3>4. o \in DOMAIN nodes
      BY <3>3 DEF Ordered, RP!IsBestTip, AInv, Alike, RP!DInv, RP!Inv, RP!TypeOK, RP!Held
    <3>5. RP!ConsensusOrder(o)' = RP!ConsensusOrder(o)
      BY <3>2, <3>4, OrdersStay
    <3>6. order' = RP!ConsensusOrder(orderTip)'
      BY <3>1, <3>3, <3>5 DEF Ordered
    <3>7. RP!IsBestTip(orderTip)'
      BY <3>1 DEF Ordered, RP!IsBestTip, RP!Precedes
    <3>8. Inverts(positions, order)'
      BY <3>1 DEF Ordered, Inverts
    <3> QED BY <3>6, <3>7, <3>8 DEF Ordered
  <2> QED BY <2>1, <2>2 DEF Next
<1> QED BY <1>1, <1>2, <1>3, InitOrdered, AInvariance, MaterializedAlways, PTL DEF Spec, Readable

\* Whichever mix of extensions and rebuilds led there, the materialized order
\* is the reference order of the best tip, and positions its inverse
\* (Store.refresh_order).
THEOREM OrderAlways == Spec => []OrderIsTheReferenceOrder
<1>1. Ordered => OrderIsTheReferenceOrder
  BY SameRules DEF Ordered, OrderIsTheReferenceOrder, Inverts
<1> QED BY <1>1, OrderedAlways, PTL

\* No block the store holds stands on the best tip: a tip has no children.
LEMMA NoneAbove ==
  ASSUME AInv, NEW o, RP!IsBestTip(o), NEW y \in DOMAIN nodes
  PROVE  nodes[y].sp # o
<1>1. /\ DOMAIN nodes = DOMAIN refNodes /\ nodes[y].sp = refNodes[y].sp
      /\ RP!DerivationsStand /\ RP!ChildrenAreExact /\ RP!TipsCoverTheDag
      /\ o \in DOMAIN refNodes /\ o \in refTips
  BY DEF AInv, Alike, RP!DInv, RP!Inv, RP!TypeOK, RP!Held, RP!IsBestTip
<1>2. refNodes[o].children = {} /\ refNodes[o].children = {x \in DOMAIN refNodes : o \in refNodes[x].parents}
  BY <1>1 DEF RP!TipsCoverTheDag, RP!ChildrenAreExact, RP!Held
<1>3. CASE y = Genesis
  BY <1>1, <1>3, ReferenceReads DEF AInv, Reads
<1>4. CASE y # Genesis
  <2>1. refNodes[y].sp \in refNodes[y].parents
    BY <1>1, <1>4 DEF RP!DerivationsStand, RP!Derives, RP!IsSelected, RP!Held
  <2> QED BY <1>1, <1>2, <2>1
<1> QED BY <1>3, <1>4

\* More than nothing after a sequence makes a strictly longer one.
LEMMA LongerIsStrict ==
  ASSUME NEW S, NEW s \in Seq(S), NEW a \in Seq(S), Len(a) # 0
  PROVE  IsStrictPrefix(s, s \o a)
<1>1. /\ Len(s) \in Nat /\ Len(a) \in Nat /\ Len(s \o a) = Len(s) + Len(a)
      /\ s \o a \in Seq(S) /\ \A i \in 1 .. Len(s) : (s \o a)[i] = s[i] /\ s[i] \in S
  BY LenProperties, ConcatProperties
<1>2. SubSeq(s, 1, Len(s)) = SubSeq(s \o a, 1, Len(s))
  BY <1>1
<1>3. s # s \o a
  BY <1>1
<1> QED BY <1>1, <1>2, <1>3 DEF IsStrictPrefix, IsPrefix

LEMMA NewTip ==
  ASSUME AInv, Reads, Reads', Keeps, Ordered, Ordered', Readable', AInv',
         NEW b \in Rules!Block, NEW now \in Times, Insert(b, now),
         orderTip' # orderTip, orderTip \in ToSet(Chain(nodes', orderTip'))
  PROVE  nodes'[orderTip'].sp = orderTip /\ IsStrictPrefix(order, order')
<1>1. PICK o, t : o = orderTip /\ t = orderTip'
  OBVIOUS
<1>2. /\ RP!IsBestTip(o) /\ order = RP!ConsensusOrder(o)
      /\ order' = RP!ConsensusOrder(t)' /\ t \in refTips'
  BY <1>1 DEF Ordered, RP!IsBestTip
<1>3. /\ DOMAIN nodes' = DOMAIN nodes \cup {b.id} /\ b.id \notin DOMAIN nodes
      /\ \A x \in DOMAIN nodes : nodes'[x].sp = nodes[x].sp
  <2>1. /\ b.id \notin DOMAIN nodes
        /\ \E entry : nodes' = Rules!Linked(b, entry)
    BY Enters, Zenon
  <2>2. DOMAIN nodes' = DOMAIN nodes \cup {b.id}
    BY <2>1 DEF Rules!Linked, Rules!Held
  <2>3. \A x \in DOMAIN nodes : nodes'[x].sp = refNodes'[x].sp /\ refNodes'[x].sp = refNodes[x].sp
    BY <2>2 DEF AInv, Alike, Keeps
  <2> QED BY <2>1, <2>2, <2>3 DEF AInv, Alike
<1>4. o \in DOMAIN nodes /\ o \in DOMAIN refNodes /\ t \in DOMAIN nodes' /\ t \in DOMAIN refNodes'
  BY <1>2 DEF AInv, Alike, RP!DInv, RP!Inv, RP!TypeOK, RP!Held, RP!IsBestTip
<1>5. PICK c \in Seq(DOMAIN nodes') : c = Chain(nodes', t) /\ Climbs(t, c)'
  BY <1>4, Zenon DEF Readable, ChainReads
<1>6. /\ Len(c) \in Nat /\ c[Len(c)] = t
      /\ \A i \in 1 .. Len(c) : c[i] \in DOMAIN nodes'
      /\ \A i \in 1 .. Len(c) : i # Len(c) => c[i] = nodes'[c[i + 1]].sp
  BY <1>5 DEF Climbs
<1>7. PICK i \in 1 .. Len(c) : c[i] = o
  BY <1>1, <1>5 DEF ToSet
<1>8. i # Len(c) /\ i + 1 \in 1 .. Len(c)
  BY <1>1, <1>6, <1>7
<1>9. ASSUME NEW y \in DOMAIN nodes PROVE nodes'[y].sp # o /\ nodes'[y].sp # b.id
  <2>1. nodes[y].sp # o
    BY <1>2, NoneAbove
  <2>2. nodes[y].sp # b.id
    <3>1. Stands
      BY NodesStand
    <3>2. CASE y = Genesis
      <4>1. nodes[y].sp = Zero /\ b.id # Zero
        <5>1. b.id \in DOMAIN refNodes' /\ Zero \notin DOMAIN refNodes'
          BY <1>3 DEF Reads, AInv, Alike
        <5> QED BY <3>1, <3>2, <5>1 DEF Stands
      <4> QED BY <4>1
    <3>3. CASE y # Genesis
      BY <1>3, <3>1, <3>3 DEF Stands
    <3> QED BY <3>2, <3>3
  <2> QED BY <1>3, <2>1, <2>2
<1>10. c[i + 1] = b.id
  BY <1>3, <1>6, <1>7, <1>8, <1>9
<1>11. nodes'[b.id].sp = o
  BY <1>6, <1>7, <1>8, <1>10
<1>12. i + 1 = Len(c)
  <2> SUFFICES ASSUME i + 1 # Len(c) PROVE FALSE
    OBVIOUS
  <2>1. i + 1 + 1 \in 1 .. Len(c) /\ c[i + 1] = nodes'[c[i + 1 + 1]].sp
    BY <1>6, <1>8
  <2>2. c[i + 1 + 1] \in DOMAIN nodes'
    BY <1>6, <2>1
  <2>3. o # b.id
    BY <1>3, <1>4
  <2> QED BY <1>3, <1>9, <1>10, <1>11, <2>1, <2>2, <2>3
<1>13. t = b.id
  BY <1>6, <1>10, <1>12
<1>14. IsStrictPrefix(order, order')
  <2> DEFINE fresh == RP!Fresh(t)'
  <2>1. refNodes'[t].sp = o /\ t \in DOMAIN refNodes' \ {Genesis}
    <3>1. refNodes'[t].sp = nodes'[t].sp
      BY <1>4 DEF AInv, Alike
    <3>2. t # Genesis
      BY <1>3, <1>13 DEF AInv, Alike, Reads
    <3> QED BY <1>4, <1>11, <1>13, <3>1, <3>2
  <2>2. /\ RP!ConsensusOrder(t)' = RP!ConsensusOrder(o)' \o fresh
        /\ fresh \in Seq(RP!View(t)' \ RP!View(o)')
        /\ Len(fresh) = Cardinality(RP!View(t)' \ RP!View(o)')
        /\ RP!View(t)' \subseteq DOMAIN refNodes' /\ IsFiniteSet(DOMAIN refNodes')
    BY <2>1 DEF Reads
  <2>3. RP!ConsensusOrder(o)' = order
    BY <1>2, <1>4, OrdersStay
  <2>4. t \in RP!View(t)' \ RP!View(o)'
    <3>1. RP!View(o)' = RP!View(o)
      BY <1>4 DEF Keeps, RP!View
    <3>2. RP!View(o) \subseteq DOMAIN nodes
      BY <1>4 DEF Reads, AInv, Alike
    <3>3. t \in RP!View(t)'
      BY DEF RP!View
    <3> QED BY <1>3, <1>13, <3>1, <3>2, <3>3
  <2>5. Len(fresh) # 0
    <3>1. IsFiniteSet(RP!View(t)' \ RP!View(o)')
      BY <2>2, FS_Subset
    <3> QED BY <2>2, <2>4, <3>1, FS_EmptySet
  <2>6. order \in Seq(DOMAIN refNodes \cup DOMAIN refNodes') /\ fresh \in Seq(DOMAIN refNodes \cup DOMAIN refNodes')
    <3>1. order \in Seq(RP!View(o)) /\ RP!View(o) \subseteq DOMAIN refNodes
      BY <1>2, <1>4 DEF Reads
    <3>2. /\ RP!View(o) \subseteq DOMAIN refNodes \cup DOMAIN refNodes'
          /\ RP!View(t)' \ RP!View(o)' \subseteq DOMAIN refNodes \cup DOMAIN refNodes'
      BY <2>2, <3>1
    <3> QED BY <2>2, <3>1, <3>2, SeqMonotonic
  <2> HIDE DEF fresh
  <2> QED BY <1>2, <2>2, <2>3, <2>5, <2>6, LongerIsStrict
<1> QED BY <1>1, <1>11, <1>13, <1>14

\* A new best tip stands directly on the old one and appends to its order, or
\* does not have the old one on its chain: the bounded walk of refresh_order
\* never extends by more than one chain block.
THEOREM ExtendsByOne == Spec => ExtendsByOneOrRebuilds
<1> DEFINE Step == orderTip' # orderTip =>
                     \/ nodes'[orderTip'].sp = orderTip /\ IsStrictPrefix(order, order')
                     \/ orderTip \notin ToSet(Chain(nodes', orderTip'))
<1>1. AInv => Reads
  BY ReferenceReads DEF AInv
<1>2. /\ AInv /\ AInv' /\ Reads /\ Reads' /\ Ordered /\ Ordered' /\ Readable' /\ [Next]_vars
      => [Step]_vars
  <2> SUFFICES ASSUME AInv, AInv', Reads, Reads', Ordered, Ordered', Readable', [Next]_vars
               PROVE  [Step]_vars
    OBVIOUS
  <2>1. ASSUME NEW b \in Rules!Block, NEW now \in Times, Insert(b, now) PROVE Step
    <3>1. Keeps
      BY <2>1, Enters, ReferenceKeeps DEF AInv
    <3> QED BY <2>1, <3>1, NewTip
  <2> QED BY <2>1 DEF Next
<1> QED BY <1>1, <1>2, AInvariance, OrderedAlways, PTL DEF Spec, ExtendsByOneOrRebuilds

=============================================================================
