------------------------- MODULE DagReplicasProofs -------------------------
(***************************************************************************)
(* Proofs about two nodes that hold a Dag each: whatever order the blocks  *)
(* reach them in, what both hold is the same in both.                      *)
(***************************************************************************)
EXTENDS DagReplicas, Induction, TLAPS

\* The lemmas about one Dag, for the Dag of each node.
AP == INSTANCE DagProofs WITH nodes <- nodesA, tips <- tipsA
BP == INSTANCE DagProofs WITH nodes <- nodesB, tips <- tipsB

----------------------------------------------------------------------------
(* What DagReplicas and the lemmas say of a Dag is the same.               *)

LEMMA SameRulesA ==
    /\ AP!DagAssumption
    /\ A!Init => AP!Init
    /\ A!Held = AP!Held
    /\ A!Block = AP!Block
    /\ \A b, now : A!Accepts(b, now) <=> AP!Accepts(b, now)
    /\ \A b, now : A!Insert(b, now) <=> AP!Insert(b, now)
    /\ \A t : A!IsBestTip(t) <=> AP!IsBestTip(t)
<1>1. AP!DagAssumption
  BY ReplicasAssumption DEF A!DagAssumption, AP!DagAssumption, A!Zero, AP!Zero
<1>2. A!Init => AP!Init
  BY Zenon DEF A!Init, AP!Init, A!GenesisNode, AP!GenesisNode, A!Zero, AP!Zero
<1>3. A!Held = AP!Held
  BY Zenon DEF A!Held, AP!Held
<1>4. A!Block = AP!Block
  BY Zenon DEF A!Block, AP!Block, A!ParentLists, AP!ParentLists, A!Zero, AP!Zero,
               A!Cardinality, AP!Cardinality
<1>5. ASSUME NEW b, NEW now PROVE A!Accepts(b, now) <=> AP!Accepts(b, now)
  BY Zenon DEF A!Accepts, AP!Accepts, A!Held, AP!Held, A!AnnouncesHeight, AP!AnnouncesHeight,
               A!NotBehindParents, AP!NotBehindParents, A!NotPastTheFuture, AP!NotPastTheFuture
<1>6. ASSUME NEW b, NEW now PROVE A!Insert(b, now) <=> AP!Insert(b, now)
  BY <1>5, Zenon
     DEF A!Insert, AP!Insert, A!Held, AP!Held, A!IsSelected, AP!IsSelected,
         A!Precedes, AP!Precedes, A!Candidates, AP!Candidates, A!PastOf, AP!PastOf,
         A!IsGreedy, AP!IsGreedy, A!Inherited, AP!Inherited, A!Anticone, AP!Anticone,
         A!Linked, AP!Linked, A!NewNode, AP!NewNode, A!Cardinality, AP!Cardinality
<1>7. ASSUME NEW t PROVE A!IsBestTip(t) <=> AP!IsBestTip(t)
  BY Zenon DEF A!IsBestTip, AP!IsBestTip, A!Precedes, AP!Precedes
<1> QED BY <1>1, <1>2, <1>3, <1>4, <1>5, <1>6, <1>7

LEMMA SameRulesB ==
    /\ BP!DagAssumption
    /\ B!Init => BP!Init
    /\ B!Held = BP!Held
    /\ A!Block = BP!Block
    /\ \A b, now : B!Accepts(b, now) <=> BP!Accepts(b, now)
    /\ \A b, now : B!Insert(b, now) <=> BP!Insert(b, now)
    /\ \A t : B!IsBestTip(t) <=> BP!IsBestTip(t)
<1>1. BP!DagAssumption
  BY ReplicasAssumption DEF A!DagAssumption, BP!DagAssumption, A!Zero, BP!Zero
<1>2. B!Init => BP!Init
  BY Zenon DEF B!Init, BP!Init, B!GenesisNode, BP!GenesisNode, B!Zero, BP!Zero
<1>3. B!Held = BP!Held
  BY Zenon DEF B!Held, BP!Held
<1>4. A!Block = BP!Block
  BY Zenon DEF A!Block, BP!Block, A!ParentLists, BP!ParentLists, A!Zero, BP!Zero,
               A!Cardinality, BP!Cardinality
<1>5. ASSUME NEW b, NEW now PROVE B!Accepts(b, now) <=> BP!Accepts(b, now)
  BY Zenon DEF B!Accepts, BP!Accepts, B!Held, BP!Held, B!AnnouncesHeight, BP!AnnouncesHeight,
               B!NotBehindParents, BP!NotBehindParents, B!NotPastTheFuture, BP!NotPastTheFuture
<1>6. ASSUME NEW b, NEW now PROVE B!Insert(b, now) <=> BP!Insert(b, now)
  BY <1>5, Zenon
     DEF B!Insert, BP!Insert, B!Held, BP!Held, B!IsSelected, BP!IsSelected,
         B!Precedes, BP!Precedes, B!Candidates, BP!Candidates, B!PastOf, BP!PastOf,
         B!IsGreedy, BP!IsGreedy, B!Inherited, BP!Inherited, B!Anticone, BP!Anticone,
         B!Linked, BP!Linked, B!NewNode, BP!NewNode, B!Cardinality, BP!Cardinality
<1>7. ASSUME NEW t PROVE B!IsBestTip(t) <=> BP!IsBestTip(t)
  BY Zenon DEF B!IsBestTip, BP!IsBestTip, B!Precedes, BP!Precedes
<1> QED BY <1>1, <1>2, <1>3, <1>4, <1>5, <1>6, <1>7

----------------------------------------------------------------------------
(* What circulates.                                                        *)

HeightOf(id) == IF id = Genesis THEN 0 ELSE mined[id].height
TimeOf(id) == IF id = Genesis THEN 0 ELSE mined[id].time

\* A circulating block was accepted once: its parents are the genesis or
\* circulate too, and it announces a height and a time that fit theirs.
MinedStands ==
    \A id \in DOMAIN mined :
        /\ id # Genesis /\ id \in Worked
        /\ mined[id] \in A!Block /\ mined[id].id = id /\ mined[id].rooted
        /\ mined[id].parents \subseteq {Genesis} \cup DOMAIN mined
        /\ \A p \in mined[id].parents :
             HeightOf(p) < mined[id].height /\ TimeOf(p) <= mined[id].time
        /\ \E p \in mined[id].parents : mined[id].height = HeightOf(p) + 1

\* A table of nodes carries circulating blocks, as they were announced.
Carries(N) ==
    /\ N[Genesis].height = 0 /\ N[Genesis].time = 0
    /\ \A x \in DOMAIN N \ {Genesis} :
         /\ x \in DOMAIN mined
         /\ N[x].parents = mined[x].parents
         /\ N[x].height = mined[x].height
         /\ N[x].time = mined[x].time

\* The inductive invariant.
RInv == AP!DInv /\ BP!DInv /\ MinedStands /\ Carries(nodesA) /\ Carries(nodesB)

\* A table of nodes enters a block.
Enters(N, M, b) ==
    /\ b.rooted /\ b.id \in Worked /\ b.id \notin DOMAIN N /\ b.parents \subseteq DOMAIN N
    /\ \A p \in b.parents : N[p].height < b.height /\ N[p].time <= b.time
    /\ \E p \in b.parents : b.height = N[p].height + 1
    /\ DOMAIN M = DOMAIN N \cup {b.id}
    /\ M[b.id].parents = b.parents /\ M[b.id].height = b.height /\ M[b.id].time = b.time
    /\ \A x \in DOMAIN N : /\ M[x].parents = N[x].parents
                           /\ M[x].height = N[x].height
                           /\ M[x].time = N[x].time

LEMMA EntersA ==
  ASSUME AP!DInv, NEW b \in A!Block, NEW now \in Times, A!Insert(b, now)
  PROVE  AP!DInv' /\ Enters(nodesA, nodesA', b) /\ Genesis \in DOMAIN nodesA
<1>1. b \in AP!Header /\ AP!Insert(b, now) /\ AP!DagAssumption /\ AP!Inv
  <2>1. b \in AP!Block /\ AP!Insert(b, now) /\ AP!DagAssumption /\ AP!Inv
    BY SameRulesA, Zenon DEF AP!DInv
  <2> QED BY <2>1, AP!BlocksAreHeaders
<1>2. AP!DInv'
  BY <1>1, AP!InsertDInv
<1>3. Enters(nodesA, nodesA', b)
  BY <1>1, AP!WhatIsEntered DEF Enters, AP!Held
<1>4. Genesis \in DOMAIN nodesA
  BY <1>1 DEF AP!Inv, AP!TypeOK, AP!Held
<1> QED BY <1>2, <1>3, <1>4

LEMMA EntersB ==
  ASSUME BP!DInv, NEW b \in A!Block, NEW now \in Times, B!Insert(b, now)
  PROVE  BP!DInv' /\ Enters(nodesB, nodesB', b) /\ Genesis \in DOMAIN nodesB
<1>1. b \in BP!Header /\ BP!Insert(b, now) /\ BP!DagAssumption /\ BP!Inv
  <2>1. b \in BP!Block /\ BP!Insert(b, now) /\ BP!DagAssumption /\ BP!Inv
    BY SameRulesB, Zenon DEF BP!DInv
  <2> QED BY <2>1, BP!BlocksAreHeaders
<1>2. BP!DInv'
  BY <1>1, BP!InsertDInv
<1>3. Enters(nodesB, nodesB', b)
  BY <1>1, BP!WhatIsEntered DEF Enters, BP!Held
<1>4. Genesis \in DOMAIN nodesB
  BY <1>1 DEF BP!Inv, BP!TypeOK, BP!Held
<1> QED BY <1>2, <1>3, <1>4

\* A mined block joins what circulates, and a table that carried what
\* circulated carries it still.
LEMMA MiningStands ==
  ASSUME MinedStands, NEW N, NEW M, Carries(N), Genesis \in DOMAIN N,
         NEW b \in A!Block, b.id \notin DOMAIN mined, Enters(N, M, b),
         mined' = [x \in DOMAIN mined \cup {b.id} |-> IF x = b.id THEN b ELSE mined[x]]
  PROVE  /\ MinedStands'
         /\ Genesis \notin DOMAIN mined'
         /\ DOMAIN mined \subseteq DOMAIN mined'
         /\ \A x \in DOMAIN mined : mined'[x] = mined[x]
         /\ mined'[b.id] = b /\ b.id \in DOMAIN mined'
<1>1. /\ DOMAIN mined' = DOMAIN mined \cup {b.id}
      /\ mined'[b.id] = b
      /\ \A x \in DOMAIN mined : mined'[x] = mined[x]
  OBVIOUS
<1>2. b.id # Genesis
  BY DEF Enters
<1>3. \A x \in DOMAIN N : x \in {Genesis} \cup DOMAIN mined
  BY DEF Carries
<1>4. \A x \in {Genesis} \cup DOMAIN mined : HeightOf(x)' = HeightOf(x) /\ TimeOf(x)' = TimeOf(x)
  BY <1>1 DEF HeightOf, TimeOf
<1>5. \A x \in DOMAIN N : N[x].height = HeightOf(x) /\ N[x].time = TimeOf(x)
  BY DEF Carries, HeightOf, TimeOf
<1>6. MinedStands'
  <2> SUFFICES ASSUME NEW id \in DOMAIN mined'
               PROVE  /\ id # Genesis /\ id \in Worked
                      /\ mined'[id] \in A!Block /\ mined'[id].id = id /\ mined'[id].rooted
                      /\ mined'[id].parents \subseteq {Genesis} \cup DOMAIN mined'
                      /\ \A p \in mined'[id].parents :
                           HeightOf(p)' < mined'[id].height /\ TimeOf(p)' <= mined'[id].time
                      /\ \E p \in mined'[id].parents : mined'[id].height = HeightOf(p)' + 1
    BY Zenon DEF MinedStands, HeightOf, TimeOf, A!Block, A!ParentLists, A!Zero, A!Cardinality
  <2>1. CASE id = b.id
    <3>1. mined'[id] = b
      BY <1>1, <2>1
    <3>2. /\ b.rooted /\ b.id \in Worked /\ b.parents \subseteq DOMAIN N
          /\ \A p \in b.parents : N[p].height < b.height /\ N[p].time <= b.time
          /\ \E p \in b.parents : b.height = N[p].height + 1
      BY DEF Enters
    <3>3. \A p \in b.parents : /\ p \in {Genesis} \cup DOMAIN mined
                               /\ HeightOf(p)' = N[p].height /\ TimeOf(p)' = N[p].time
      BY <1>3, <1>4, <1>5, <3>2
    <3>4. /\ b.parents \subseteq {Genesis} \cup DOMAIN mined'
          /\ \A p \in b.parents : HeightOf(p)' < b.height /\ TimeOf(p)' <= b.time
          /\ \E p \in b.parents : b.height = HeightOf(p)' + 1
      BY <1>1, <3>2, <3>3
    <3> QED BY <1>2, <2>1, <3>1, <3>2, <3>4
  <2>2. CASE id \in DOMAIN mined
    <3>1. mined'[id] = mined[id]
      BY <1>1, <2>2
    <3>2. /\ id # Genesis /\ id \in Worked
          /\ mined[id] \in A!Block /\ mined[id].id = id /\ mined[id].rooted
          /\ mined[id].parents \subseteq {Genesis} \cup DOMAIN mined
          /\ \A p \in mined[id].parents :
               HeightOf(p) < mined[id].height /\ TimeOf(p) <= mined[id].time
          /\ \E p \in mined[id].parents : mined[id].height = HeightOf(p) + 1
      BY <2>2 DEF MinedStands
    <3>3. /\ mined[id].parents \subseteq {Genesis} \cup DOMAIN mined'
          /\ \A p \in mined[id].parents :
               HeightOf(p)' < mined[id].height /\ TimeOf(p)' <= mined[id].time
          /\ \E p \in mined[id].parents : mined[id].height = HeightOf(p)' + 1
      BY <1>1, <1>4, <3>2
    <3> QED BY <3>1, <3>2, <3>3
  <2> QED BY <1>1, <2>1, <2>2
<1>7. Genesis \notin DOMAIN mined'
  BY <1>1, <1>2 DEF MinedStands
<1> QED BY <1>1, <1>6, <1>7

\* What circulates stands as long as nothing is mined.
LEMMA Circulating == MinedStands /\ UNCHANGED mined => MinedStands'
<1> SUFFICES ASSUME MinedStands, UNCHANGED mined PROVE MinedStands'
  OBVIOUS
<1>1. A!Block' = A!Block
  BY Zenon DEF A!Block, A!ParentLists, A!Zero, A!Cardinality
<1>2. ASSUME NEW x PROVE HeightOf(x)' = HeightOf(x) /\ TimeOf(x)' = TimeOf(x)
  BY DEF HeightOf, TimeOf
<1> QED BY <1>1, <1>2 DEF MinedStands

\* Every reachable state satisfies the invariant.
LEMMA RInvariance == Spec => []RInv
<1>1. Init => RInv
  <2> SUFFICES ASSUME Init PROVE RInv
    OBVIOUS
  <2>1. AP!Init /\ BP!Init /\ AP!DagAssumption /\ BP!DagAssumption
    BY SameRulesA, SameRulesB DEF Init
  <2>2. AP!DInv /\ BP!DInv
    BY <2>1, AP!InitDInv, BP!InitDInv
  <2>3. DOMAIN mined = {}
    BY DEF Init
  <2>4. MinedStands
    BY <2>3 DEF MinedStands
  <2>5. Carries(nodesA)
    BY <2>1 DEF Carries, AP!Init, AP!GenesisNode
  <2>6. Carries(nodesB)
    BY <2>1 DEF Carries, BP!Init, BP!GenesisNode
  <2> QED BY <2>2, <2>4, <2>5, <2>6 DEF RInv
<1>2. RInv /\ [Next]_vars => RInv'
  <2> SUFFICES ASSUME RInv, [Next]_vars PROVE RInv'
    OBVIOUS
  <2> USE DEF RInv
  <2>1. ASSUME NEW b \in A!Block, NEW now \in Times, MineAtA(b, now)
        PROVE  RInv'
    <3>1. AP!DInv' /\ Enters(nodesA, nodesA', b) /\ Genesis \in DOMAIN nodesA
      BY <2>1, EntersA DEF MineAtA
    <3>2. nodesB' = nodesB /\ tipsB' = tipsB
      BY <2>1 DEF MineAtA
    <3>3. /\ MinedStands'
          /\ Genesis \notin DOMAIN mined'
          /\ DOMAIN mined \subseteq DOMAIN mined'
          /\ \A x \in DOMAIN mined : mined'[x] = mined[x]
          /\ mined'[b.id] = b /\ b.id \in DOMAIN mined'
      BY <2>1, <3>1, MiningStands DEF MineAtA
    <3>4. Carries(nodesA)'
      BY <3>1, <3>3 DEF Carries, Enters
    <3>5. Carries(nodesB)'
      BY <3>2, <3>3 DEF Carries
    <3>6. BP!DInv'
      BY <3>2, SameRulesB, BP!Unchanged DEF BP!vars
    <3> QED BY <3>1, <3>3, <3>4, <3>5, <3>6
  <2>2. ASSUME NEW b \in A!Block, NEW now \in Times, MineAtB(b, now)
        PROVE  RInv'
    <3>1. BP!DInv' /\ Enters(nodesB, nodesB', b) /\ Genesis \in DOMAIN nodesB
      BY <2>2, EntersB DEF MineAtB
    <3>2. nodesA' = nodesA /\ tipsA' = tipsA
      BY <2>2 DEF MineAtB
    <3>3. /\ MinedStands'
          /\ Genesis \notin DOMAIN mined'
          /\ DOMAIN mined \subseteq DOMAIN mined'
          /\ \A x \in DOMAIN mined : mined'[x] = mined[x]
          /\ mined'[b.id] = b /\ b.id \in DOMAIN mined'
      BY <2>2, <3>1, MiningStands DEF MineAtB
    <3>4. Carries(nodesB)'
      BY <3>1, <3>3 DEF Carries, Enters
    <3>5. Carries(nodesA)'
      BY <3>2, <3>3 DEF Carries
    <3>6. AP!DInv'
      BY <3>2, SameRulesA, AP!Unchanged DEF AP!vars
    <3> QED BY <3>1, <3>3, <3>4, <3>5, <3>6
  <2>3. ASSUME NEW id \in DOMAIN mined, NEW now \in Times, DeliverToA(id, now)
        PROVE  RInv'
    <3>1. mined[id] \in A!Block /\ mined[id].id = id /\ id # Genesis
      BY DEF MinedStands
    <3>2. AP!DInv' /\ Enters(nodesA, nodesA', mined[id]) /\ Genesis \in DOMAIN nodesA
      BY <2>3, <3>1, EntersA DEF DeliverToA
    <3>3. nodesB' = nodesB /\ tipsB' = tipsB /\ mined' = mined
      BY <2>3 DEF DeliverToA
    <3>4. Carries(nodesA)'
      BY <3>1, <3>2, <3>3 DEF Carries, Enters
    <3>5. Carries(nodesB)'
      BY <3>3 DEF Carries
    <3>6. BP!DInv'
      BY <3>3, SameRulesB, BP!Unchanged DEF BP!vars
    <3>7. MinedStands'
      BY <3>3, Circulating DEF MinedStands
    <3> QED BY <3>2, <3>4, <3>5, <3>6, <3>7
  <2>4. ASSUME NEW id \in DOMAIN mined, NEW now \in Times, DeliverToB(id, now)
        PROVE  RInv'
    <3>1. mined[id] \in A!Block /\ mined[id].id = id /\ id # Genesis
      BY DEF MinedStands
    <3>2. BP!DInv' /\ Enters(nodesB, nodesB', mined[id]) /\ Genesis \in DOMAIN nodesB
      BY <2>4, <3>1, EntersB DEF DeliverToB
    <3>3. nodesA' = nodesA /\ tipsA' = tipsA /\ mined' = mined
      BY <2>4 DEF DeliverToB
    <3>4. Carries(nodesB)'
      BY <3>1, <3>2, <3>3 DEF Carries, Enters
    <3>5. Carries(nodesA)'
      BY <3>3 DEF Carries
    <3>6. AP!DInv'
      BY <3>3, SameRulesA, AP!Unchanged DEF AP!vars
    <3>7. MinedStands'
      BY <3>3, Circulating DEF MinedStands
    <3> QED BY <3>2, <3>4, <3>5, <3>6, <3>7
  <2>5. CASE UNCHANGED vars
    <3>1. /\ nodesA' = nodesA /\ tipsA' = tipsA /\ nodesB' = nodesB /\ tipsB' = tipsB
          /\ mined' = mined
      BY <2>5 DEF vars
    <3>2. AP!DInv' /\ BP!DInv'
      BY <3>1, SameRulesA, SameRulesB, AP!Unchanged, BP!Unchanged DEF AP!vars, BP!vars
    <3>3. MinedStands'
      BY <3>1, Circulating DEF MinedStands
    <3>4. Carries(nodesA)' /\ Carries(nodesB)'
      BY <3>1 DEF Carries
    <3> QED BY <3>2, <3>3, <3>4
  <2> QED BY <2>1, <2>2, <2>3, <2>4, <2>5 DEF Next
<1> QED BY <1>1, <1>2, PTL DEF Spec

----------------------------------------------------------------------------
(* The two Dags agree.                                                     *)

\* Where the nodes of a set that holds their past agree, the rules derive at
\* B what they derive at A.
LEMMA RulesTravel ==
  ASSUME AP!BluesSurvive,
         NEW C \in SUBSET (DOMAIN nodesA \cap DOMAIN nodesB),
         \A x \in C : /\ nodesA[x].past = nodesB[x].past
                      /\ nodesA[x].blues = nodesB[x].blues
                      /\ nodesA[x].score = nodesB[x].score
                      /\ nodesA[x].past \subseteq C,
         NEW ps \in SUBSET C, NEW sp, NEW past, NEW blues,
         AP!Derives(ps, sp, past, blues)
  PROVE  BP!Derives(ps, sp, past, blues)
<1>0. sp \in ps
  BY DEF AP!Derives, AP!IsSelected
<1>1. \A x \in C : nodesA[x].blues \subseteq C
  BY DEF AP!BluesSurvive, AP!Held
<1>2. ASSUME NEW x \in C, NEW y \in C
      PROVE  AP!Precedes(x, y) <=> BP!Precedes(x, y)
  BY DEF AP!Precedes, BP!Precedes
<1>3. AP!IsSelected(sp, ps) <=> BP!IsSelected(sp, ps)
  BY <1>2 DEF AP!IsSelected, BP!IsSelected
<1>4. AP!PastOf(ps) = BP!PastOf(ps) /\ AP!PastOf(ps) \subseteq C
  BY DEF AP!PastOf, BP!PastOf
<1>5. AP!Inherited(sp) = BP!Inherited(sp) /\ AP!Inherited(sp) \subseteq C
  BY <1>0, <1>1 DEF AP!Inherited, BP!Inherited
<1>6. /\ AP!Candidates(ps, sp) = BP!Candidates(ps, sp)
      /\ AP!Candidates(ps, sp) \subseteq C
  BY <1>0, <1>4 DEF AP!Candidates, BP!Candidates
<1>7. ASSUME NEW v \in C, NEW S \in SUBSET C
      PROVE  AP!Anticone(v, S) = BP!Anticone(v, S)
  BY DEF AP!Anticone, BP!Anticone
<1>8. ASSUME NEW joined \in SUBSET AP!Candidates(ps, sp), AP!IsGreedy(joined, ps, sp)
      PROVE  BP!IsGreedy(joined, ps, sp)
  <2>1. ASSUME NEW v \in AP!Candidates(ps, sp)
        PROVE  v \in joined <=>
                 BP!Cardinality(BP!Anticone(v, BP!Inherited(sp) \cup {w \in joined : BP!Precedes(w, v)})) <= K
    <3> DEFINE WA == AP!Inherited(sp) \cup {w \in joined : AP!Precedes(w, v)}
               WB == BP!Inherited(sp) \cup {w \in joined : BP!Precedes(w, v)}
    <3>1. {w \in joined : AP!Precedes(w, v)} = {w \in joined : BP!Precedes(w, v)}
      BY <1>2, <1>6
    <3>2. WA = WB /\ WA \in SUBSET C
      BY <1>5, <1>6, <3>1
    <3>3. AP!Anticone(v, WA) = BP!Anticone(v, WB)
      <4>1. v \in C
        BY <1>6
      <4> HIDE DEF WA, WB
      <4> QED BY <1>7, <3>2, <4>1
    <3>4. v \in joined <=> AP!Cardinality(AP!Anticone(v, WA)) <= K
      BY <1>8, Zenon DEF AP!IsGreedy
    <3>5. AP!Cardinality(AP!Anticone(v, WA)) = BP!Cardinality(BP!Anticone(v, WB))
      BY <3>3, Zenon DEF AP!Cardinality, BP!Cardinality
    <3> QED BY <3>4, <3>5, Zenon
  <2> QED BY <1>6, <2>1, Zenon DEF BP!IsGreedy
<1>9. PICK joined \in SUBSET AP!Candidates(ps, sp) :
        AP!IsGreedy(joined, ps, sp) /\ blues = AP!Inherited(sp) \cup joined
  BY DEF AP!Derives
<1>10. past = AP!PastOf(ps) /\ AP!IsSelected(sp, ps)
  BY DEF AP!Derives
<1>11. \E j \in SUBSET BP!Candidates(ps, sp) :
         BP!IsGreedy(j, ps, sp) /\ blues = BP!Inherited(sp) \cup j
  BY <1>5, <1>6, <1>8, <1>9
<1> QED BY <1>3, <1>4, <1>10, <1>11 DEF BP!Derives

\* The facts about the Dag of A, and of B, that the argument uses.
LEMMA FactsA ==
  ASSUME RInv
  PROVE  /\ AP!TypeOK /\ AP!AncestryIsOrdered /\ AP!BluesSurvive /\ AP!TipsCoverTheDag /\ AP!Inv
         /\ IsFiniteSet(DOMAIN nodesA) /\ Genesis \in DOMAIN nodesA
         /\ \A b \in DOMAIN nodesA :
              /\ nodesA[b] \in AP!Node /\ b \in Nat
              /\ nodesA[b].score = Cardinality(nodesA[b].blues) + 1
              /\ nodesA[b].past \subseteq DOMAIN nodesA
              /\ b # Genesis => /\ nodesA[b].parents \subseteq DOMAIN nodesA
                                /\ AP!Derives(nodesA[b].parents, nodesA[b].sp,
                                              nodesA[b].past, nodesA[b].blues)
                                /\ nodesA[b].past = AP!PastOf(nodesA[b].parents)
<1>1. AP!DInv /\ AP!Inv
  BY DEF RInv, AP!DInv
<1>2. AP!TypeOK /\ AP!AncestryIsOrdered /\ AP!BluesSurvive /\ AP!TipsCoverTheDag
  BY <1>1 DEF AP!Inv
<1>3. IsFiniteSet(DOMAIN nodesA) /\ Genesis \in DOMAIN nodesA /\ DOMAIN nodesA \subseteq Ids
  BY <1>2, Zenon DEF AP!TypeOK, AP!Held, AP!IsFiniteSet, IsFiniteSet
<1>4. Ids \subseteq Nat
  BY SameRulesA DEF AP!DagAssumption
<1>5. ASSUME NEW b \in DOMAIN nodesA
      PROVE  /\ nodesA[b] \in AP!Node
             /\ nodesA[b].past \subseteq DOMAIN nodesA
  BY <1>2 DEF AP!TypeOK, AP!Held, AP!AncestryIsOrdered
<1>6. ASSUME NEW b \in DOMAIN nodesA
      PROVE  nodesA[b].score = Cardinality(nodesA[b].blues) + 1
  BY <1>2, Zenon DEF AP!BluesSurvive, AP!Held, AP!Cardinality, Cardinality
<1>7. ASSUME NEW b \in DOMAIN nodesA, b # Genesis
      PROVE  /\ nodesA[b].parents \subseteq DOMAIN nodesA
             /\ AP!Derives(nodesA[b].parents, nodesA[b].sp, nodesA[b].past, nodesA[b].blues)
             /\ nodesA[b].past = AP!PastOf(nodesA[b].parents)
  <2>1. b \in AP!Held \ {Genesis}
    BY <1>7 DEF AP!Held
  <2>2. /\ nodesA[b].parents \subseteq DOMAIN nodesA
        /\ AP!Derives(nodesA[b].parents, nodesA[b].sp, nodesA[b].past, nodesA[b].blues)
    BY <1>1, <2>1, Zenon DEF AP!DInv, AP!DerivationsStand, AP!Held
  <2>3. nodesA[b].past = AP!PastOf(nodesA[b].parents)
    BY <2>2, Zenon DEF AP!Derives
  <2> QED BY <2>2, <2>3
<1> QED BY <1>1, <1>2, <1>3, <1>4, <1>5, <1>6, <1>7

LEMMA FactsB ==
  ASSUME RInv
  PROVE  /\ BP!TypeOK /\ BP!AncestryIsOrdered /\ BP!BluesSurvive /\ BP!TipsCoverTheDag /\ BP!Inv
         /\ IsFiniteSet(DOMAIN nodesB) /\ Genesis \in DOMAIN nodesB
         /\ \A b \in DOMAIN nodesB :
              /\ nodesB[b] \in BP!Node /\ b \in Nat
              /\ nodesB[b].score = Cardinality(nodesB[b].blues) + 1
              /\ nodesB[b].past \subseteq DOMAIN nodesB
              /\ b # Genesis => /\ nodesB[b].parents \subseteq DOMAIN nodesB
                                /\ BP!Derives(nodesB[b].parents, nodesB[b].sp,
                                              nodesB[b].past, nodesB[b].blues)
                                /\ nodesB[b].past = BP!PastOf(nodesB[b].parents)
<1>1. BP!DInv /\ BP!Inv
  BY DEF RInv, BP!DInv
<1>2. BP!TypeOK /\ BP!AncestryIsOrdered /\ BP!BluesSurvive /\ BP!TipsCoverTheDag
  BY <1>1 DEF BP!Inv
<1>3. IsFiniteSet(DOMAIN nodesB) /\ Genesis \in DOMAIN nodesB /\ DOMAIN nodesB \subseteq Ids
  BY <1>2, Zenon DEF BP!TypeOK, BP!Held, BP!IsFiniteSet, IsFiniteSet
<1>4. Ids \subseteq Nat
  BY SameRulesB DEF BP!DagAssumption
<1>5. ASSUME NEW b \in DOMAIN nodesB
      PROVE  /\ nodesB[b] \in BP!Node
             /\ nodesB[b].past \subseteq DOMAIN nodesB
  BY <1>2 DEF BP!TypeOK, BP!Held, BP!AncestryIsOrdered
<1>6. ASSUME NEW b \in DOMAIN nodesB
      PROVE  nodesB[b].score = Cardinality(nodesB[b].blues) + 1
  BY <1>2, Zenon DEF BP!BluesSurvive, BP!Held, BP!Cardinality, Cardinality
<1>7. ASSUME NEW b \in DOMAIN nodesB, b # Genesis
      PROVE  /\ nodesB[b].parents \subseteq DOMAIN nodesB
             /\ BP!Derives(nodesB[b].parents, nodesB[b].sp, nodesB[b].past, nodesB[b].blues)
             /\ nodesB[b].past = BP!PastOf(nodesB[b].parents)
  <2>1. b \in BP!Held \ {Genesis}
    BY <1>7 DEF BP!Held
  <2>2. /\ nodesB[b].parents \subseteq DOMAIN nodesB
        /\ BP!Derives(nodesB[b].parents, nodesB[b].sp, nodesB[b].past, nodesB[b].blues)
    BY <1>1, <2>1, Zenon DEF BP!DInv, BP!DerivationsStand, BP!Held
  <2>3. nodesB[b].past = BP!PastOf(nodesB[b].parents)
    BY <2>2, Zenon DEF BP!Derives
  <2> QED BY <2>2, <2>3
<1> QED BY <1>1, <1>2, <1>3, <1>4, <1>5, <1>6, <1>7

SameAt(b) == nodesA[b] = [nodesB[b] EXCEPT !.children = nodesA[b].children]

\* A block both hold was derived the same in both: the lowest that was not
\* has parents that were, with all of their past.
LEMMA Agreement ==
  ASSUME RInv
  PROVE  \A b \in DOMAIN nodesA \cap DOMAIN nodesB : SameAt(b)
<1> DEFINE Both == DOMAIN nodesA \cap DOMAIN nodesB
           U == {b \in Both : ~SameAt(b)}
           R == {pair \in Both \X Both : nodesA[pair[1]].height < nodesA[pair[2]].height}
<1> SUFFICES ASSUME U # {} PROVE FALSE
  OBVIOUS
<1>1. \A x \in DOMAIN nodesA : nodesA[x].height \in Nat
  BY FactsA DEF AP!Node
<1>2. IsFiniteSet(U) /\ U \subseteq Both
  BY FactsA, FS_Subset
<1>3. PICK b \in U : \A y \in U : <<y, b>> \notin R
  <2>1. \A x \in Both, y \in Both : <<x, y>> \in R <=> nodesA[x].height < nodesA[y].height
    OBVIOUS
  <2>2. \A x \in Both : nodesA[x].height \in Nat
    BY <1>1
  <2> HIDE DEF Both, U, R
  <2>3. /\ \A x \in U : <<x, x>> \notin R
        /\ \A x, y, z \in U : <<x, y>> \in R /\ <<y, z>> \in R => <<x, z>> \in R
    BY <1>2, <2>1, <2>2
  <2> QED BY <1>2, <2>3, FirstOne
<1>4. b \in Both /\ ~SameAt(b) /\ b \in DOMAIN nodesA /\ b \in DOMAIN nodesB
  OBVIOUS
<1>5. \A y \in Both : nodesA[y].height < nodesA[b].height => SameAt(y)
  BY <1>3
<1> HIDE DEF U, R
<1>6. b # Genesis
  <2>1. /\ nodesA[Genesis] = [AP!GenesisNode EXCEPT !.children = nodesA[Genesis].children]
        /\ nodesB[Genesis] = [BP!GenesisNode EXCEPT !.children = nodesB[Genesis].children]
    BY Zenon DEF RInv, AP!DInv, BP!DInv, AP!GenesisStands, BP!GenesisStands
  <2>2. SameAt(Genesis)
    BY <2>1 DEF SameAt, AP!GenesisNode, BP!GenesisNode, AP!Zero, BP!Zero
  <2> QED BY <1>4, <2>2
<1>7. /\ nodesA[b].parents = nodesB[b].parents
      /\ nodesA[b].height = nodesB[b].height
      /\ nodesA[b].time = nodesB[b].time
  BY <1>4, <1>6 DEF RInv, Carries
<1> DEFINE ps == nodesA[b].parents
           C == nodesA[b].past
<1>8. /\ ps \subseteq DOMAIN nodesA /\ C = AP!PastOf(ps) /\ ps \subseteq C
      /\ AP!Derives(ps, nodesA[b].sp, C, nodesA[b].blues)
  <2>1. /\ ps \subseteq DOMAIN nodesA /\ C = AP!PastOf(ps)
        /\ AP!Derives(ps, nodesA[b].sp, C, nodesA[b].blues)
    BY <1>4, <1>6, FactsA
  <2> QED BY <2>1 DEF AP!PastOf
<1>9. /\ ps \subseteq DOMAIN nodesB /\ nodesB[b].past = BP!PastOf(ps)
      /\ BP!Derives(ps, nodesB[b].sp, nodesB[b].past, nodesB[b].blues)
  BY <1>4, <1>6, <1>7, FactsB
<1>10. \A x \in C : x \in DOMAIN nodesA /\ nodesA[x].height < nodesA[b].height /\ nodesA[x].past \subseteq C
  BY <1>4, FactsA DEF AP!AncestryIsOrdered, AP!Held
<1>11. \A p \in ps : p \in Both /\ SameAt(p)
  BY <1>5, <1>8, <1>9, <1>10
<1>12. C \subseteq DOMAIN nodesB
  <2>1. ASSUME NEW x \in C PROVE x \in DOMAIN nodesB
    <3>1. x \in ps \/ \E p \in ps : x \in nodesA[p].past
      BY <1>8 DEF AP!PastOf
    <3>2. \A p \in ps : nodesA[p].past = nodesB[p].past
      <4>1. \A p \in ps : nodesB[p] \in BP!Node
        BY <1>11, FactsB
      <4> QED BY <1>11, <4>1 DEF SameAt, BP!Node
    <3>3. \A p \in ps : nodesB[p].past \subseteq DOMAIN nodesB
      BY <1>11, FactsB
    <3> QED BY <1>9, <3>1, <3>2, <3>3
  <2> QED BY <2>1
<1>13. \A x \in C : SameAt(x)
  BY <1>5, <1>10, <1>12
<1>14. \A x \in C : /\ nodesA[x].past = nodesB[x].past
                    /\ nodesA[x].blues = nodesB[x].blues
                    /\ nodesA[x].score = nodesB[x].score
                    /\ nodesA[x].past \subseteq C
  <2>1. \A x \in C : nodesB[x] \in BP!Node
    BY <1>12, FactsB
  <2> QED BY <1>10, <1>13, <2>1 DEF SameAt, BP!Node
<1>15. BP!Derives(ps, nodesA[b].sp, C, nodesA[b].blues)
  <2>1. C \in SUBSET (DOMAIN nodesA \cap DOMAIN nodesB)
    BY <1>10, <1>12
  <2>2. AP!BluesSurvive
    BY FactsA
  <2>3. ps \in SUBSET C
    BY <1>8
  <2>4. AP!Derives(ps, nodesA[b].sp, C, nodesA[b].blues)
    BY <1>8
  <2> HIDE DEF ps, C
  <2> QED BY <1>14, <2>1, <2>2, <2>3, <2>4, RulesTravel
<1>16. nodesA[b].sp = nodesB[b].sp /\ C = nodesB[b].past /\ nodesA[b].blues = nodesB[b].blues
  <2>1. ps \in SUBSET BP!Held /\ BP!TypeOK /\ BP!AncestryIsOrdered /\ BP!DagAssumption
    BY <1>9, FactsB, SameRulesB DEF BP!Held
  <2>2. BP!Derives(ps, nodesB[b].sp, nodesB[b].past, nodesB[b].blues)
    BY <1>9
  <2> HIDE DEF ps, C
  <2> QED BY <1>15, <2>1, <2>2, BP!OneDerivation
<1>17. nodesA[b].score = nodesB[b].score
  <2>1. /\ nodesA[b].score = Cardinality(nodesA[b].blues) + 1
        /\ nodesB[b].score = Cardinality(nodesB[b].blues) + 1
    BY <1>4, FactsA, FactsB
  <2> QED BY <1>16, <2>1
<1>18. nodesA[b] \in AP!Node /\ nodesB[b] \in BP!Node
  BY <1>4, FactsA, FactsB
<1>19. SameAt(b)
  BY <1>7, <1>16, <1>17, <1>18 DEF SameAt, AP!Node, BP!Node
<1> QED BY <1>4, <1>19

----------------------------------------------------------------------------

\* Both Dags are well formed in every reachable state.
THEOREM ReplicasTypeCorrect == Spec => []TypeOK
<1>1. RInv => TypeOK
  <2> SUFFICES ASSUME RInv PROVE TypeOK
    OBVIOUS
  <2>1. AP!TypeOK /\ BP!TypeOK
    BY FactsA, FactsB
  <2>2. A!TypeOK
    BY <2>1, Zenon DEF A!TypeOK, AP!TypeOK, A!Held, AP!Held, A!Node, AP!Node, A!Zero, AP!Zero,
                       A!IsFiniteSet, AP!IsFiniteSet
  <2>3. B!TypeOK
    BY <2>1, Zenon DEF B!TypeOK, BP!TypeOK, B!Held, BP!Held, B!Node, BP!Node, B!Zero, BP!Zero,
                       B!IsFiniteSet, BP!IsFiniteSet
  <2> QED BY <2>2, <2>3 DEF TypeOK
<1> QED BY <1>1, RInvariance, PTL

\* Whatever order the blocks came in, every answer of a Dag is a function of
\* the set of blocks it holds (dag.rs, the comment on determinism and insert).
THEOREM AnswersAgree == Spec => []SameBlocksSameAnswers
<1>1. RInv => SameBlocksSameAnswers
  <2> SUFFICES ASSUME RInv PROVE SameBlocksSameAnswers
    OBVIOUS
  <2>1. A!Held = DOMAIN nodesA /\ B!Held = DOMAIN nodesB
    BY DEF A!Held, B!Held
  <2>2. \A b \in DOMAIN nodesA \cap DOMAIN nodesB :
          nodesA[b] = [nodesB[b] EXCEPT !.children = nodesA[b].children]
    BY Agreement DEF SameAt
  <2>3. ASSUME DOMAIN nodesA = DOMAIN nodesB
        PROVE  nodesA = nodesB /\ tipsA = tipsB
    <3>1. ASSUME NEW b \in DOMAIN nodesA PROVE nodesA[b] = nodesB[b]
      <4>1. \A x \in DOMAIN nodesA : nodesA[x].parents = nodesB[x].parents
        <5>1. \A x \in DOMAIN nodesA : nodesB[x] \in BP!Node
          BY <2>3, FactsB
        <5> QED BY <2>2, <2>3, <5>1 DEF BP!Node
      <4>2. /\ nodesA[b].children = {x \in DOMAIN nodesA : b \in nodesA[x].parents}
            /\ nodesB[b].children = {x \in DOMAIN nodesB : b \in nodesB[x].parents}
        BY <2>3, Zenon DEF RInv, AP!DInv, BP!DInv, AP!ChildrenAreExact, BP!ChildrenAreExact,
                           AP!Held, BP!Held
      <4>3. nodesA[b].children = nodesB[b].children
        BY <2>3, <4>1, <4>2
      <4>4. nodesB[b] \in BP!Node
        BY <2>3, FactsB
      <4> QED BY <2>2, <2>3, <4>3, <4>4 DEF BP!Node
    <3>2. nodesA = [x \in DOMAIN nodesA |-> nodesA[x]] /\ nodesB = [x \in DOMAIN nodesB |-> nodesB[x]]
      BY FactsA, FactsB DEF AP!TypeOK, BP!TypeOK
    <3>3. nodesA = nodesB
      BY <2>3, <3>1, <3>2
    <3>4. /\ tipsA \subseteq DOMAIN nodesA /\ tipsB \subseteq DOMAIN nodesB
          /\ \A b \in DOMAIN nodesA : b \in tipsA <=> nodesA[b].children = {}
          /\ \A b \in DOMAIN nodesB : b \in tipsB <=> nodesB[b].children = {}
      BY FactsA, FactsB DEF AP!TypeOK, BP!TypeOK, AP!TipsCoverTheDag, BP!TipsCoverTheDag, AP!Held, BP!Held
    <3> QED BY <3>3, <3>4
  <2> QED BY <2>1, <2>2, <2>3 DEF SameBlocksSameAnswers
<1> QED BY <1>1, RInvariance, PTL

\* Two nodes whose best tips differ do not hold the same blocks (dag.rs,
\* best_tip): each best tip precedes, in its own Dag, all that is held there,
\* and the two Dags give the blocks both hold the same weights.
THEOREM ForksAreDelays == Spec => []ForkIsOnlyDelay
<1>1. RInv => ForkIsOnlyDelay
  <2> SUFFICES ASSUME RInv, NEW s \in tipsA, NEW t \in tipsB,
                      A!IsBestTip(s), B!IsBestTip(t), s # t,
                      s \in DOMAIN nodesB, t \in DOMAIN nodesA
               PROVE  FALSE
    BY DEF ForkIsOnlyDelay, A!Held, B!Held
  <2>1. AP!IsBestTip(s) /\ BP!IsBestTip(t) /\ AP!DagAssumption /\ BP!DagAssumption
    BY SameRulesA, SameRulesB
  <2>2. s \in DOMAIN nodesA /\ t \in DOMAIN nodesB
    BY FactsA, FactsB DEF AP!TypeOK, BP!TypeOK, AP!Held, BP!Held
  <2>3. AP!Precedes(s, t)
    BY <2>1, FactsA, AP!BestTipPrecedes DEF AP!Held
  <2>4. BP!Precedes(t, s)
    BY <2>1, FactsB, BP!BestTipPrecedes DEF BP!Held
  <2>5. /\ nodesA[s].score = nodesB[s].score /\ nodesA[t].score = nodesB[t].score
        /\ nodesA[s].score \in Nat /\ nodesA[t].score \in Nat /\ s \in Nat /\ t \in Nat
    <3>1. nodesB[s] \in BP!Node /\ nodesB[t] \in BP!Node /\ s \in Nat /\ t \in Nat
      BY <2>2, FactsB
    <3>2. SameAt(s) /\ SameAt(t)
      BY <2>2, Agreement
    <3> QED BY <3>1, <3>2 DEF SameAt, BP!Node
  <2> QED BY <2>3, <2>4, <2>5 DEF AP!Precedes, BP!Precedes
<1> QED BY <1>1, RInvariance, PTL

\* A node that holds the parents of a circulating block can enter it once its
\* clock is late enough (dag.rs, insert: the future drift is the one rule
\* that depends on the receiver).
THEOREM RefusalsPass == Spec => []RefusalIsNotFinal
<1>1. RInv => RefusalIsNotFinal
  <2> SUFFICES ASSUME RInv, NEW id \in DOMAIN mined
               PROVE  /\ mined[id].parents \subseteq DOMAIN nodesB /\ id \notin DOMAIN nodesB
                            => \E now \in Times : BP!Accepts(mined[id], now)
                      /\ mined[id].parents \subseteq DOMAIN nodesA /\ id \notin DOMAIN nodesA
                            => \E now \in Times : AP!Accepts(mined[id], now)
    BY SameRulesA, SameRulesB, Zenon DEF RefusalIsNotFinal, A!Held, B!Held
  <2>1. /\ id \in Worked
        /\ mined[id] \in A!Block /\ mined[id].id = id /\ mined[id].rooted
        /\ mined[id].parents \subseteq {Genesis} \cup DOMAIN mined
        /\ \A p \in mined[id].parents :
             HeightOf(p) < mined[id].height /\ TimeOf(p) <= mined[id].time
        /\ \E p \in mined[id].parents : mined[id].height = HeightOf(p) + 1
    BY DEF RInv, MinedStands
  <2>2. mined[id].time \in Times /\ mined[id].time \in Nat /\ MaxFuture \in Nat
    <3>1. mined[id].time \in Times
      BY <2>1 DEF A!Block
    <3>2. Times \subseteq Nat /\ MaxFuture \in Nat
      BY SameRulesA DEF AP!DagAssumption
    <3> QED BY <3>1, <3>2
  <2>3. ASSUME mined[id].parents \subseteq DOMAIN nodesB, id \notin DOMAIN nodesB
        PROVE  BP!Accepts(mined[id], mined[id].time)
    <3>1. \A p \in mined[id].parents : nodesB[p].height = HeightOf(p) /\ nodesB[p].time = TimeOf(p)
      BY <2>3 DEF RInv, Carries, HeightOf, TimeOf
    <3> QED BY <2>1, <2>2, <2>3, <3>1 DEF BP!Accepts, BP!Held, BP!AnnouncesHeight, BP!NotBehindParents,
                                           BP!NotPastTheFuture
  <2>4. ASSUME mined[id].parents \subseteq DOMAIN nodesA, id \notin DOMAIN nodesA
        PROVE  AP!Accepts(mined[id], mined[id].time)
    <3>1. \A p \in mined[id].parents : nodesA[p].height = HeightOf(p) /\ nodesA[p].time = TimeOf(p)
      BY <2>4 DEF RInv, Carries, HeightOf, TimeOf
    <3> QED BY <2>1, <2>2, <2>4, <3>1 DEF AP!Accepts, AP!Held, AP!AnnouncesHeight, AP!NotBehindParents,
                                           AP!NotPastTheFuture
  <2> QED BY <2>2, <2>3, <2>4
<1> QED BY <1>1, RInvariance, PTL

=============================================================================
