----------------------------- MODULE DagProofs -----------------------------
(***************************************************************************)
(* Proofs about the reference Dag, for every set of ids, every anticone    *)
(* bound and every clock.                                                  *)
(***************************************************************************)
EXTENDS DagOrder, Induction, SequenceTheorems, TLAPS

\* The inductive invariant.  The order along the ancestry needs the blue
\* sets (scores), the blue sets need the ancestry (a selected parent is not
\* in its own past), and the weight of the best tip needs the tips to cover
\* the Dag.
Inv == TypeOK /\ AncestryIsOrdered /\ BluesSurvive /\ TipsCoverTheDag

----------------------------------------------------------------------------

\* The initial state satisfies the invariant.
LEMMA InitInv == Init => Inv
<1> SUFFICES ASSUME Init PROVE Inv
  OBVIOUS
<1> USE DagAssumption DEF Init, GenesisNode, Held, Zero
<1>1. Held = {Genesis} /\ nodes[Genesis] = GenesisNode
  OBVIOUS
<1>2. TypeOK
  <2>1. IsFiniteSet(Held)
    BY <1>1, FS_Singleton
  <2>2. GenesisNode \in Node
    BY DEF Node
  <2>3. QED
    BY <1>1, <2>1, <2>2 DEF TypeOK
<1>3. AncestryIsOrdered
  BY <1>1 DEF AncestryIsOrdered
<1>4. BluesSurvive
  BY <1>1, FS_EmptySet DEF BluesSurvive
<1>5. TipsCoverTheDag
  BY <1>1 DEF TipsCoverTheDag
<1>6. QED
  BY <1>2, <1>3, <1>4, <1>5 DEF Inv

----------------------------------------------------------------------------

\* A header of any height and any length: what the lemmas ask of a block.
Header == [id : Ids, parents : SUBSET (Ids \cup {Zero}), height : Nat, time : Nat,
           rooted : BOOLEAN]

\* The bound on heights and the limit on parents play no part in the lemmas.
LEMMA BlocksAreHeaders == Block \subseteq Header
<1>1. \A P \in ParentLists : P \in SUBSET (Ids \cup {Zero})
  BY DEF ParentLists
<1>2. 0 .. MaxHeight \subseteq Nat /\ Times \subseteq Nat
  BY DagAssumption
<1> QED BY <1>1, <1>2 DEF Block, Header

\* What is offered is a header.
LEMMA OfferedHeaders == Offered \subseteq Header
<1>1. Offered \subseteq Block
  BY DEF Offered, Block
<1> QED BY <1>1, BlocksAreHeaders

\* What an insertion does to the derived state: the new node is entered as
\* computed, and an old node only gains a child.
LEMMA Entered ==
  ASSUME TypeOK, NEW b \in Header, b.id \notin Held, NEW node,
         nodes' = Linked(b, node)
  PROVE  /\ Held' = Held \cup {b.id}
         /\ b.parents \subseteq Held => nodes'[b.id] = node
         /\ \A x \in Held :
              /\ nodes'[x] = [nodes[x] EXCEPT !.children = nodes'[x].children]
              /\ nodes'[x].parents = nodes[x].parents
              /\ nodes'[x].height = nodes[x].height
              /\ nodes'[x].time = nodes[x].time
              /\ nodes'[x].past = nodes[x].past
              /\ nodes'[x].blues = nodes[x].blues
              /\ nodes'[x].score = nodes[x].score
              /\ nodes'[x].sp = nodes[x].sp
              /\ nodes'[x].children = IF x \in b.parents THEN nodes[x].children \cup {b.id}
                                                         ELSE nodes[x].children
  BY ZenonT(40) DEF TypeOK, Node, Linked, Held, Header

\* The selected parent of a new block outweighs every other parent, and the
\* new block outweighs it: the blue set it inherits gains the selected
\* parent, which was not in it.
LEMMA NewScore ==
  ASSUME TypeOK, AncestryIsOrdered, BluesSurvive,
         NEW ps \in SUBSET Held, NEW sp \in ps, IsSelected(sp, ps),
         NEW joined \in SUBSET Candidates(ps, sp)
  PROVE  LET blues == Inherited(sp) \cup joined
         IN  /\ blues \subseteq PastOf(ps)
             /\ IsFiniteSet(blues)
             /\ Cardinality(blues) \in Nat
             /\ \A p \in ps : nodes[p].score < Cardinality(blues) + 1
<1> DEFINE blues == Inherited(sp) \cup joined
<1>1. sp \in Held /\ sp \notin nodes[sp].past /\ nodes[sp].blues \subseteq nodes[sp].past
  BY DEF AncestryIsOrdered, BluesSurvive
<1>2. blues \subseteq PastOf(ps)
  BY <1>1 DEF Inherited, Candidates, PastOf
<1>3. PastOf(ps) \subseteq Held
  BY DEF PastOf, AncestryIsOrdered
<1>4. IsFiniteSet(blues)
  BY <1>2, <1>3, FS_Subset DEF TypeOK
<1>5. IsFiniteSet(nodes[sp].blues)
  BY <1>4, FS_Subset DEF Inherited
<1>6. Cardinality(Inherited(sp)) = Cardinality(nodes[sp].blues) + 1
  BY <1>1, <1>5, FS_AddElement DEF Inherited
<1>7. Cardinality(Inherited(sp)) <= Cardinality(blues)
  BY <1>4, FS_Subset
<1>8. Cardinality(blues) \in Nat /\ Cardinality(nodes[sp].blues) \in Nat
  BY <1>4, <1>5, FS_CardinalityType
<1>9. nodes[sp].score = Cardinality(nodes[sp].blues) + 1
  BY <1>1 DEF BluesSurvive
<1>10. \A p \in ps : p \in Held /\ nodes[p].score \in Nat
  BY DEF TypeOK, Node
<1>11. \A p \in ps : nodes[p].score <= nodes[sp].score
  BY <1>10 DEF IsSelected, Precedes
<1>12. Cardinality(Inherited(sp)) \in Nat
  BY <1>6, <1>8
<1>13. \A p \in ps : nodes[p].score < Cardinality(blues) + 1
  BY <1>6, <1>7, <1>8, <1>9, <1>10, <1>11, <1>12
<1>14. QED
  BY <1>2, <1>4, <1>8, <1>13

----------------------------------------------------------------------------

\* An insertion preserves the invariant.
LEMMA InsertInv ==
  ASSUME Inv, NEW b \in Header, NEW now, Insert(b, now)
  PROVE  Inv'
<1> USE DEF Inv
<1>1. /\ b.id \in Ids \ Held
      /\ b.parents # {} /\ b.parents \subseteq Held
      /\ b.height \in Nat /\ b.time \in Nat
      /\ AnnouncesHeight(b) /\ NotBehindParents(b)
  <2>1. b.id \notin Held /\ b.parents \subseteq Held /\ AnnouncesHeight(b) /\ NotBehindParents(b)
    BY DEF Insert, Accepts
  <2>2. b.id \in Ids /\ b.height \in Nat /\ b.time \in Nat
    BY DEF Header
  <2>3. b.parents # {}
    BY <2>1 DEF AnnouncesHeight
  <2>4. QED
    BY <2>1, <2>2, <2>3
<1>2. PICK sp \in b.parents :
        /\ IsSelected(sp, b.parents)
        /\ \E joined \in SUBSET Candidates(b.parents, sp) :
             nodes' = Linked(b, NewNode(b, sp, Inherited(sp) \cup joined))
  BY DEF Insert
<1>3. PICK joined \in SUBSET Candidates(b.parents, sp) :
        nodes' = Linked(b, NewNode(b, sp, Inherited(sp) \cup joined))
  BY <1>2
<1>4. tips' = (tips \ b.parents) \cup {b.id}
  BY DEF Insert
<1> DEFINE blues == Inherited(sp) \cup joined
           node == NewNode(b, sp, blues)
<1>5. /\ blues \subseteq PastOf(b.parents)
      /\ IsFiniteSet(blues)
      /\ Cardinality(blues) \in Nat
      /\ \A p \in b.parents : nodes[p].score < Cardinality(blues) + 1
  BY <1>1, <1>2, NewScore
<1>6. /\ Held' = Held \cup {b.id}
      /\ nodes'[b.id] = node
      /\ \A x \in Held :
           /\ nodes'[x].parents = nodes[x].parents
           /\ nodes'[x].height = nodes[x].height
           /\ nodes'[x].time = nodes[x].time
           /\ nodes'[x].past = nodes[x].past
           /\ nodes'[x].blues = nodes[x].blues
           /\ nodes'[x].score = nodes[x].score
           /\ nodes'[x].sp = nodes[x].sp
           /\ nodes'[x].children = IF x \in b.parents THEN nodes[x].children \cup {b.id}
                                                      ELSE nodes[x].children
  <2> HIDE DEF node
  <2>1. nodes' = Linked(b, node)
    BY <1>3 DEF node
  <2>2. QED
    BY <1>1, <2>1, Entered, ZenonT(40)
<1>7. /\ node.parents = b.parents /\ node.height = b.height /\ node.time = b.time
      /\ node.past = PastOf(b.parents) /\ node.blues = blues
      /\ node.score = Cardinality(blues) + 1 /\ node.sp = sp /\ node.children = {}
  BY DEF NewNode
<1>8. PastOf(b.parents) \subseteq Held
  BY <1>1 DEF PastOf, AncestryIsOrdered
<1> HIDE DEF node, blues
<1>9. TypeOK'
  <2>1. Held' \in SUBSET Ids /\ Genesis \in Held' /\ tips' \in SUBSET Held'
    BY <1>1, <1>4, <1>6 DEF TypeOK
  <2>2. IsFiniteSet(Held')
    BY <1>6, FS_AddElement DEF TypeOK
  <2>3. node \in Node
    <3>1. blues \subseteq Ids /\ PastOf(b.parents) \subseteq Ids /\ sp \in Ids
      BY <1>1, <1>2, <1>5, <1>8 DEF TypeOK
    <3>2. b.parents \in SUBSET (Ids \cup {Zero})
      BY <1>1 DEF TypeOK
    <3>3. Cardinality(blues) + 1 \in Nat
      BY <1>5
    <3>4. QED
      BY <1>1, <3>1, <3>2, <3>3 DEF node, NewNode, Node
  <2>4. \A x \in Held : nodes'[x] \in Node
    <3> SUFFICES ASSUME NEW x \in Held PROVE nodes'[x] \in Node
      OBVIOUS
    <3>1. nodes[x] \in Node
      BY DEF TypeOK
    <3>2. nodes'[x].children \in SUBSET Ids
      <4>1. nodes[x].children \in SUBSET Ids
        BY <3>1 DEF Node
      <4>2. nodes'[x].children = IF x \in b.parents THEN nodes[x].children \cup {b.id}
                                                    ELSE nodes[x].children
        BY <1>6
      <4>3. QED
        BY <1>1, <4>1, <4>2
    <3>3. nodes'[x] = [nodes[x] EXCEPT !.children = nodes'[x].children]
      <4>1. nodes' = Linked(b, node)
        BY <1>3 DEF node, blues
      <4>2. QED
        BY <1>1, <4>1, Entered
    <3>4. QED
      BY <3>1, <3>2, <3>3 DEF Node
  <2>5. nodes' = [x \in Held' |-> nodes'[x]]
    BY <1>3, <1>6 DEF Linked, Held
  <2>6. nodes' \in [Held' -> Node]
    BY <1>6, <2>3, <2>4, <2>5
  <2>7. QED
    BY <2>1, <2>2, <2>6 DEF TypeOK
<1>10. AncestryIsOrdered'
  <2> SUFFICES ASSUME NEW x \in Held', NEW a \in nodes'[x].past
               PROVE  /\ a \in Held'
                      /\ a # x
                      /\ nodes'[a].past \subseteq nodes'[x].past
                      /\ nodes'[a].height < nodes'[x].height
                      /\ nodes'[a].time <= nodes'[x].time
                      /\ nodes'[a].score < nodes'[x].score
    BY DEF AncestryIsOrdered
  <2>1. CASE x \in Held
    <3>1. a \in nodes[x].past
      BY <1>6, <2>1
    <3>2. a \in Held
      BY <2>1, <3>1 DEF AncestryIsOrdered
    <3>3. QED
      BY <1>6, <2>1, <3>1, <3>2 DEF AncestryIsOrdered
  <2>2. CASE x = b.id
    <3>1. nodes'[x] = node /\ a \in PastOf(b.parents) /\ a \in Held
      BY <1>6, <1>7, <1>8, <2>2
    <3>2. a # x
      BY <1>1, <2>2, <3>1
    <3>3. PICK p \in b.parents : a = p \/ a \in nodes[p].past
      BY <3>1 DEF PastOf
    <3>4. /\ p \in Held /\ nodes[p].past \subseteq PastOf(b.parents)
          /\ nodes[p].height < b.height /\ nodes[p].time <= b.time
          /\ nodes[p].score < Cardinality(blues) + 1
      BY <1>1, <1>5 DEF PastOf, AnnouncesHeight, NotBehindParents
    <3>5. /\ nodes[a].past \subseteq nodes[p].past
          /\ nodes[a].height <= nodes[p].height
          /\ nodes[a].time <= nodes[p].time
          /\ nodes[a].score <= nodes[p].score
      BY <3>1, <3>3, <3>4 DEF AncestryIsOrdered, TypeOK, Node
    <3>6. /\ nodes[a].height \in Nat /\ nodes[a].time \in Nat /\ nodes[a].score \in Nat
          /\ nodes[p].height \in Nat /\ nodes[p].time \in Nat /\ nodes[p].score \in Nat
      BY <3>1, <3>4 DEF TypeOK, Node
    <3>7. /\ nodes[a].height < b.height /\ nodes[a].time <= b.time
          /\ nodes[a].score < Cardinality(blues) + 1
      BY <1>1, <1>5, <3>4, <3>5, <3>6
    <3>8. /\ nodes'[a].past = nodes[a].past /\ nodes'[a].height = nodes[a].height
          /\ nodes'[a].time = nodes[a].time /\ nodes'[a].score = nodes[a].score
          /\ a \in Held'
      BY <1>6, <3>1
    <3>9. nodes[a].past \subseteq PastOf(b.parents)
      BY <3>4, <3>5
    <3>10. QED
      BY <1>7, <3>1, <3>2, <3>7, <3>8, <3>9
  <2>3. QED
    BY <1>6, <2>1, <2>2
<1>11. BluesSurvive'
  <2> SUFFICES ASSUME NEW x \in Held'
               PROVE  /\ nodes'[x].blues \subseteq nodes'[x].past
                      /\ nodes'[x].score = Cardinality(nodes'[x].blues) + 1
                      /\ x # Genesis =>
                           /\ nodes'[x].sp \in nodes'[x].parents
                           /\ nodes'[x].sp \in nodes'[x].blues
                           /\ nodes'[nodes'[x].sp].blues \subseteq nodes'[x].blues
    BY DEF BluesSurvive
  <2>1. CASE x \in Held
    <3>1. /\ nodes[x].blues \subseteq nodes[x].past
          /\ nodes[x].score = Cardinality(nodes[x].blues) + 1
      BY <2>1 DEF BluesSurvive
    <3>2. ASSUME x # Genesis
          PROVE  /\ nodes[x].sp \in nodes[x].parents
                 /\ nodes[x].sp \in nodes[x].blues
                 /\ nodes[nodes[x].sp].blues \subseteq nodes[x].blues
                 /\ nodes[x].sp \in Held
      BY <2>1, <3>1, <3>2 DEF BluesSurvive, AncestryIsOrdered
    <3>3. QED
      BY <1>6, <2>1, <3>1, <3>2
  <2>2. CASE x = b.id
    <3>1. sp \in blues /\ nodes[sp].blues \subseteq blues
      BY DEF blues, Inherited
    <3>2. sp \in Held /\ nodes'[sp].blues = nodes[sp].blues
      BY <1>1, <1>6
    <3>3. nodes'[x].sp = sp /\ nodes'[x].blues = blues /\ nodes'[x].parents = b.parents
      BY <1>6, <1>7, <2>2
    <3>4. nodes'[x].blues \subseteq nodes'[x].past
      BY <1>5, <1>6, <1>7, <2>2
    <3>5. nodes'[x].score = Cardinality(nodes'[x].blues) + 1
      BY <1>6, <1>7, <2>2
    <3>6. QED
      BY <3>1, <3>2, <3>3, <3>4, <3>5
  <2>3. QED
    BY <1>6, <2>1, <2>2
<1>12. TipsCoverTheDag'
  <2>1. ASSUME NEW x \in Held'
        PROVE  x \in tips' <=> nodes'[x].children = {}
    <3>1. CASE x \in Held
      BY <1>1, <1>4, <1>6, <3>1 DEF TipsCoverTheDag
    <3>2. CASE x = b.id
      BY <1>4, <1>6, <1>7, <3>2
    <3>3. QED
      BY <1>6, <3>1, <3>2
  <2>2. ASSUME NEW x \in Held'
        PROVE  \E t \in tips' : x = t \/ x \in nodes'[t].past
    <3>1. CASE x = b.id
      BY <1>4, <3>1
    <3>2. CASE x \in Held
      <4>1. PICK t \in tips : x = t \/ x \in nodes[t].past
        BY <3>2 DEF TipsCoverTheDag
      <4>2. CASE t \in b.parents
        <5>1. x \in PastOf(b.parents)
          BY <4>1, <4>2 DEF PastOf
        <5>2. QED
          BY <1>4, <1>6, <1>7, <5>1
      <4>3. CASE t \notin b.parents
        <5>1. t \in tips' /\ t \in Held
          BY <1>4, <4>3 DEF TypeOK
        <5>2. QED
          BY <1>6, <4>1, <5>1
      <4>4. QED
        BY <4>2, <4>3
    <3>3. QED
      BY <1>6, <3>1, <3>2
  <2>3. QED
    BY <2>1, <2>2 DEF TipsCoverTheDag
<1>13. QED
  BY <1>9, <1>10, <1>11, <1>12

\* Every reachable state satisfies the invariant.
LEMMA Invariance == Spec => []Inv
<1>1. Init => Inv
  BY InitInv
<1>2. Inv /\ [Next]_vars => Inv'
  <2> SUFFICES ASSUME Inv, [Next]_vars PROVE Inv'
    OBVIOUS
  <2>1. CASE Next
    BY <2>1, InsertInv, OfferedHeaders DEF Next
  <2>2. CASE UNCHANGED vars
    BY <2>2 DEF vars, Inv, TypeOK, AncestryIsOrdered, BluesSurvive, TipsCoverTheDag, Held
  <2>3. QED
    BY <2>1, <2>2
<1>3. QED
  BY <1>1, <1>2, PTL DEF Spec

----------------------------------------------------------------------------

\* Every reachable Dag is well formed (dag.rs, new and insert).
THEOREM TypeCorrect == Spec => []TypeOK
<1>1. Inv => TypeOK
  BY DEF Inv
<1>2. QED
  BY <1>1, Invariance, PTL

\* Ancestry is acyclic and transitive, and heights, timestamps and blue
\* scores are ordered along it (dag.rs, insert): the fact behind the
\* topological sort and behind the chain walk of the node store.
THEOREM AncestryOrdered == Spec => []AncestryIsOrdered
<1>1. Inv => AncestryIsOrdered
  BY DEF Inv
<1>2. QED
  BY <1>1, Invariance, PTL

\* The blue set of the selected parent survives into every child coloring
\* (dag.rs, the coloring of insert).
THEOREM BluesInherited == Spec => []BluesSurvive
<1>1. Inv => BluesSurvive
  BY DEF Inv
<1>2. QED
  BY <1>1, Invariance, PTL

\* The tips are exactly the childless blocks and everything lies under them
\* (dag.rs, the tip bookkeeping of insert).
THEOREM TipsCover == Spec => []TipsCoverTheDag
<1>1. Inv => TipsCoverTheDag
  BY DEF Inv
<1>2. QED
  BY <1>1, Invariance, PTL

\* The best tip outweighs every accepted block (dag.rs, best_tip), although
\* it is compared with the tips alone.
THEOREM BestTipHeaviest == Spec => []BestTipIsHeaviest
<1>1. Inv => BestTipIsHeaviest
  <2> SUFFICES ASSUME Inv, NEW t \in tips, IsBestTip(t), NEW b \in Held
               PROVE  nodes[b].score <= nodes[t].score
    BY DEF BestTipIsHeaviest
  <2> USE DEF Inv
  <2>1. PICK u \in tips : b = u \/ b \in nodes[u].past
    BY DEF TipsCoverTheDag
  <2>2. u \in Held /\ t \in Held
    BY DEF TypeOK
  <2>3. nodes[b].score \in Nat /\ nodes[u].score \in Nat /\ nodes[t].score \in Nat
    BY <2>2 DEF TypeOK, Node
  <2>4. nodes[b].score <= nodes[u].score
    BY <2>1, <2>2, <2>3 DEF AncestryIsOrdered
  <2>5. nodes[u].score <= nodes[t].score
    BY <2>3 DEF IsBestTip, Precedes
  <2>6. QED
    BY <2>3, <2>4, <2>5
<1>2. QED
  BY <1>1, Invariance, PTL

\* No insertion lightens the best tip or revises what an earlier one derived
\* (dag.rs, insert).
THEOREM WeightGrows == Spec => WeightOnlyGrows
<1> DEFINE Grows == /\ \A t \in tips : \E u \in tips' : nodes[t].score <= nodes'[u].score
                    /\ \A b \in Held : b \in Held' /\
                         nodes'[b] = [nodes[b] EXCEPT !.children = nodes'[b].children]
<1>1. Inv /\ [Next]_vars => [Grows]_vars
  <2> SUFFICES ASSUME Inv, NEW b \in Header, NEW now, Insert(b, now) PROVE Grows
    BY OfferedHeaders DEF Next
  <2>1. b.id \notin Held /\ b.parents \subseteq Held
    BY DEF Insert, Accepts
  <2>2. PICK sp \in b.parents :
          /\ IsSelected(sp, b.parents)
          /\ \E joined \in SUBSET Candidates(b.parents, sp) :
               nodes' = Linked(b, NewNode(b, sp, Inherited(sp) \cup joined))
    BY DEF Insert
  <2>3. PICK joined \in SUBSET Candidates(b.parents, sp) :
          nodes' = Linked(b, NewNode(b, sp, Inherited(sp) \cup joined))
    BY <2>2
  <2> DEFINE node == NewNode(b, sp, Inherited(sp) \cup joined)
  <2>4. /\ Held' = Held \cup {b.id}
        /\ nodes'[b.id] = node
        /\ \A x \in Held :
             /\ nodes'[x] = [nodes[x] EXCEPT !.children = nodes'[x].children]
             /\ nodes'[x].score = nodes[x].score
    <3> HIDE DEF node
    <3>1. nodes' = Linked(b, node)
      BY <2>3 DEF node
    <3>2. QED
      BY <2>1, <3>1, Entered DEF Inv
  <2>5. \A p \in b.parents : nodes[p].score < node.score
    BY <2>1, <2>2, NewScore DEF Inv, NewNode
  <2>6. tips' = (tips \ b.parents) \cup {b.id}
    BY DEF Insert
  <2> HIDE DEF node
  <2>7. ASSUME NEW t \in tips PROVE \E u \in tips' : nodes[t].score <= nodes'[u].score
    <3>1. t \in Held /\ nodes[t].score \in Nat
      BY DEF Inv, TypeOK, Node
    <3>2. CASE t \in b.parents
      <4>1. b.id \in tips' /\ nodes[t].score < nodes'[b.id].score
        BY <2>4, <2>5, <2>6, <3>2
      <4>2. nodes'[b.id].score \in Nat
        <5>1. Inv'
          BY InsertInv
        <5>2. QED
          BY <2>4, <5>1 DEF Inv, TypeOK, Node
      <4>3. QED
        BY <3>1, <4>1, <4>2
    <3>3. CASE t \notin b.parents
      <4>1. t \in tips' /\ nodes'[t].score = nodes[t].score
        BY <2>4, <2>6, <3>1, <3>3
      <4>2. QED
        BY <3>1, <4>1
    <3>4. QED
      BY <3>2, <3>3
  <2>8. QED
    BY <2>4, <2>7
<1>2. QED
  BY <1>1, Invariance, PTL DEF Spec, WeightOnlyGrows

----------------------------------------------------------------------------
(* What a block was derived from stays what it would be derived from.      *)

\* What the rules derive for a block from its parents ps: the selected parent,
\* the past and the blues.
Derives(ps, sp, past, blues) ==
    /\ IsSelected(sp, ps)
    /\ past = PastOf(ps)
    /\ \E joined \in SUBSET Candidates(ps, sp) :
         IsGreedy(joined, ps, sp) /\ blues = Inherited(sp) \cup joined

\* Every block but the genesis carries what the rules derive for it from its
\* parents as they are now.
DerivationsStand ==
    \A b \in Held \ {Genesis} :
        /\ nodes[b].parents # {} /\ nodes[b].parents \subseteq Held
        /\ Derives(nodes[b].parents, nodes[b].sp, nodes[b].past, nodes[b].blues)

\* The children of a block are the blocks that name it as a parent.
ChildrenAreExact ==
    \A b \in Held : nodes[b].children = {x \in Held : b \in nodes[x].parents}

GenesisStands == nodes[Genesis] = [GenesisNode EXCEPT !.children = nodes[Genesis].children]

\* The derivation of every block, on top of the invariant.
DInv == Inv /\ DerivationsStand /\ ChildrenAreExact /\ GenesisStands

\* The rules of selection and coloring read the past, the blues and the scores
\* of held blocks only: an insertion that leaves those alone leaves the rules
\* alone.
LEMMA RulesStand ==
  ASSUME AncestryIsOrdered, BluesSurvive,
         \A x \in Held : /\ nodes'[x].past = nodes[x].past
                         /\ nodes'[x].blues = nodes[x].blues
                         /\ nodes'[x].score = nodes[x].score,
         NEW ps \in SUBSET Held, NEW sp, NEW past, NEW blues,
         Derives(ps, sp, past, blues)
  PROVE  Derives(ps, sp, past, blues)'
<1>0. sp \in ps
  BY DEF Derives, IsSelected
<1>1. \A x \in Held : nodes[x].past \subseteq Held /\ nodes[x].blues \subseteq Held
  BY DEF AncestryIsOrdered, BluesSurvive
<1>2. ASSUME NEW x \in Held, NEW y \in Held
      PROVE  Precedes(x, y)' <=> Precedes(x, y)
  BY DEF Precedes
<1>3. IsSelected(sp, ps)' <=> IsSelected(sp, ps)
  BY <1>2 DEF IsSelected
<1>4. PastOf(ps)' = PastOf(ps) /\ PastOf(ps) \subseteq Held
  BY <1>1 DEF PastOf
<1>5. Inherited(sp)' = Inherited(sp) /\ Inherited(sp) \subseteq Held
  BY <1>0, <1>1 DEF Inherited
<1>6. Candidates(ps, sp)' = Candidates(ps, sp) /\ Candidates(ps, sp) \subseteq Held
  BY <1>0, <1>4 DEF Candidates
<1>7. ASSUME NEW v \in Held, NEW S \in SUBSET Held
      PROVE  Anticone(v, S)' = Anticone(v, S)
  BY DEF Anticone
<1>8. ASSUME NEW joined \in SUBSET Candidates(ps, sp)
      PROVE  IsGreedy(joined, ps, sp)' <=> IsGreedy(joined, ps, sp)
  <2> DEFINE working(v) == Inherited(sp) \cup {w \in joined : Precedes(w, v)}
  <2>1. ASSUME NEW v \in Candidates(ps, sp)
        PROVE  /\ (Inherited(sp) \cup {w \in joined : Precedes(w, v)})' = working(v)
               /\ Anticone(v, working(v))' = Anticone(v, working(v))
    <3>1. {w \in joined : Precedes(w, v)}' = {w \in joined : Precedes(w, v)}
      BY <1>2, <1>6
    <3>2. (Inherited(sp) \cup {w \in joined : Precedes(w, v)})' = working(v) /\ working(v) \in SUBSET Held
      BY <1>5, <1>6, <3>1
    <3>3. Anticone(v, working(v))' = Anticone(v, working(v))
      BY <1>6, <1>7, <3>2 DEF Anticone
    <3>4. QED
      BY <3>2, <3>3
  <2>2. QED
    BY <1>6, <2>1 DEF IsGreedy
<1>9. QED
  BY <1>3, <1>4, <1>5, <1>6, <1>8 DEF Derives

\* An insertion preserves the derivations.
LEMMA InsertDInv ==
  ASSUME DInv, NEW b \in Header, NEW now, Insert(b, now)
  PROVE  DInv'
<1>1. Inv' /\ Inv
  BY InsertInv DEF DInv
<1>2. /\ b.id \in Ids \ Held /\ b.id # Genesis
      /\ b.parents # {} /\ b.parents \subseteq Held
  <2>1. b.id \notin Held /\ b.parents \subseteq Held
    BY DEF Insert, Accepts
  <2>2. b.id \in Ids
    BY DEF Header
  <2>3. b.parents # {}
    BY DEF Insert, Accepts, AnnouncesHeight
  <2>4. Genesis \in Held
    BY <1>1 DEF Inv, TypeOK
  <2>5. QED
    BY <2>1, <2>2, <2>3, <2>4
<1>3. PICK sp \in b.parents :
        /\ IsSelected(sp, b.parents)
        /\ \E joined \in SUBSET Candidates(b.parents, sp) :
             /\ IsGreedy(joined, b.parents, sp)
             /\ nodes' = Linked(b, NewNode(b, sp, Inherited(sp) \cup joined))
  BY DEF Insert
<1>4. PICK joined \in SUBSET Candidates(b.parents, sp) :
        /\ IsGreedy(joined, b.parents, sp)
        /\ nodes' = Linked(b, NewNode(b, sp, Inherited(sp) \cup joined))
  BY <1>3
<1> DEFINE node == NewNode(b, sp, Inherited(sp) \cup joined)
<1>5. /\ Held' = Held \cup {b.id}
      /\ nodes'[b.id] = node
      /\ \A x \in Held :
           /\ nodes'[x].parents = nodes[x].parents
           /\ nodes'[x].past = nodes[x].past
           /\ nodes'[x].blues = nodes[x].blues
           /\ nodes'[x].score = nodes[x].score
           /\ nodes'[x].sp = nodes[x].sp
           /\ nodes'[x].children = IF x \in b.parents THEN nodes[x].children \cup {b.id}
                                                      ELSE nodes[x].children
           /\ nodes'[x] = [nodes[x] EXCEPT !.children = nodes'[x].children]
  <2> HIDE DEF node
  <2>1. nodes' = Linked(b, node)
    BY <1>4 DEF node
  <2>2. QED
    BY <1>1, <1>2, <2>1, Entered, SMTT(30) DEF Inv
<1>6. /\ node.parents = b.parents /\ node.past = PastOf(b.parents)
      /\ node.blues = Inherited(sp) \cup joined /\ node.sp = sp /\ node.children = {}
  BY DEF NewNode
<1> HIDE DEF node
<1>7. ASSUME NEW ps \in SUBSET Held, NEW q, NEW past, NEW blues, Derives(ps, q, past, blues)
      PROVE  Derives(ps, q, past, blues)'
  BY <1>1, <1>5, <1>7, RulesStand DEF Inv
<1>8. DerivationsStand'
  <2> SUFFICES ASSUME NEW x \in Held' \ {Genesis}
               PROVE  /\ nodes'[x].parents # {} /\ nodes'[x].parents \subseteq Held'
                      /\ Derives(nodes[x].parents, nodes[x].sp, nodes[x].past, nodes[x].blues)'
    BY DEF DerivationsStand
  <2>1. PICK ps \in SUBSET Held, sel \in Held, past \in SUBSET Held, blues \in SUBSET Held :
          /\ ps # {} /\ Derives(ps, sel, past, blues)
          /\ nodes'[x].parents = ps /\ nodes'[x].sp = sel
          /\ nodes'[x].past = past /\ nodes'[x].blues = blues
    <3>1. CASE x \in Held
      <4>1. /\ nodes[x].parents # {} /\ nodes[x].parents \subseteq Held
            /\ Derives(nodes[x].parents, nodes[x].sp, nodes[x].past, nodes[x].blues)
        BY <3>1 DEF DInv, DerivationsStand
      <4>2. nodes[x].sp \in nodes[x].parents
        BY <4>1 DEF Derives, IsSelected
      <4>3. nodes[x].past \subseteq Held /\ nodes[x].blues \subseteq Held
        BY <1>1, <3>1 DEF Inv, AncestryIsOrdered, BluesSurvive
      <4>4. QED
        BY <1>5, <3>1, <4>1, <4>2, <4>3
    <3>2. CASE x = b.id
      <4>1. Derives(b.parents, sp, PastOf(b.parents), Inherited(sp) \cup joined)
        BY <1>3, <1>4 DEF Derives
      <4>2. PastOf(b.parents) \subseteq Held
        BY <1>1, <1>2 DEF PastOf, Inv, AncestryIsOrdered
      <4>3. Inherited(sp) \cup joined \subseteq Held /\ sp \in Held
        <5>1. Inherited(sp) \subseteq Held
          BY <1>1, <1>2 DEF Inherited, Inv, BluesSurvive, AncestryIsOrdered
        <5>2. joined \subseteq Held
          BY <4>2 DEF Candidates
        <5>3. QED
          BY <1>2, <5>1, <5>2
      <4> DEFINE qs == b.parents
                 pt == PastOf(b.parents)
                 bl == Inherited(sp) \cup joined
      <4>4. /\ nodes'[x].parents = qs /\ nodes'[x].sp = sp
            /\ nodes'[x].past = pt /\ nodes'[x].blues = bl
        BY <1>5, <1>6, <3>2
      <4>5. /\ qs \in SUBSET Held /\ qs # {} /\ sp \in Held
            /\ pt \in SUBSET Held /\ bl \in SUBSET Held
            /\ Derives(qs, sp, pt, bl)
        BY <1>2, <4>1, <4>2, <4>3
      <4> HIDE DEF qs, pt, bl
      <4>6. QED
        BY <4>4, <4>5
    <3>3. QED
      BY <1>5, <3>1, <3>2
  <2>2. Derives(ps, sel, past, blues)'
    BY <1>7, <2>1
  <2>3. Derives(nodes[x].parents, nodes[x].sp, nodes[x].past, nodes[x].blues)'
    BY <2>1, <2>2
  <2>4. nodes'[x].parents # {} /\ nodes'[x].parents \subseteq Held'
    BY <1>5, <2>1
  <2>5. QED
    BY <2>3, <2>4
<1>9. ChildrenAreExact'
  <2> SUFFICES ASSUME NEW x \in Held'
               PROVE  nodes'[x].children = {y \in Held' : x \in nodes'[y].parents}
    BY DEF ChildrenAreExact
  <2>1. CASE x = b.id
    <3>1. \A y \in Held : x \notin nodes[y].parents
      <4>1. ASSUME NEW y \in Held, y # Genesis PROVE nodes[y].parents \subseteq Held
        BY <4>1 DEF DInv, DerivationsStand
      <4>2. nodes[Genesis].parents = {Zero} /\ Zero \notin Ids
        BY DagAssumption DEF DInv, GenesisStands, GenesisNode
      <4>3. QED
        BY <1>2, <2>1, <4>1, <4>2
    <3>2. nodes'[x].children = {} /\ nodes'[x].parents = b.parents
      BY <1>5, <1>6, <2>1
    <3>3. QED
      BY <1>2, <1>5, <2>1, <3>1, <3>2
  <2>2. CASE x \in Held
    <3>1. nodes[x].children = {y \in Held : x \in nodes[y].parents}
      BY <2>2 DEF DInv, ChildrenAreExact
    <3>2. nodes'[b.id].parents = b.parents
      BY <1>5, <1>6
    <3>3. \A y \in Held : nodes'[y].parents = nodes[y].parents
      BY <1>5
    <3>4. nodes'[x].children = IF x \in b.parents THEN nodes[x].children \cup {b.id}
                                                  ELSE nodes[x].children
      BY <1>5, <2>2
    <3>5. {y \in Held \cup {b.id} : x \in nodes'[y].parents}
            = IF x \in b.parents THEN {y \in Held : x \in nodes[y].parents} \cup {b.id}
                                  ELSE {y \in Held : x \in nodes[y].parents}
      BY <1>2, <3>2, <3>3
    <3>6. Held' = Held \cup {b.id}
      BY <1>5
    <3>7. QED
      BY <3>1, <3>4, <3>5, <3>6
  <2>3. QED
    BY <1>5, <2>1, <2>2
<1>10. GenesisStands'
  <2>1. Genesis \in Held
    BY <1>1 DEF Inv, TypeOK
  <2>2. nodes'[Genesis] = [nodes[Genesis] EXCEPT !.children = nodes'[Genesis].children]
    BY <1>5, <2>1
  <2>3. nodes[Genesis] = [GenesisNode EXCEPT !.children = nodes[Genesis].children]
    BY DEF DInv, GenesisStands
  <2>4. QED
    BY <2>2, <2>3 DEF GenesisStands, GenesisNode
<1>11. QED
  BY <1>1, <1>8, <1>9, <1>10 DEF DInv

\* The genesis alone has its derivation.
LEMMA InitDInv == Init => DInv
<1> SUFFICES ASSUME Init PROVE DInv
  OBVIOUS
<1>1. Inv /\ Held = {Genesis} /\ nodes[Genesis] = GenesisNode
  BY InitInv DEF Init, Held
<1>2. DerivationsStand
  BY <1>1 DEF DerivationsStand
<1>3. ChildrenAreExact
  <2>1. Genesis # Zero
    BY DagAssumption
  <2>2. QED
    BY <1>1, <2>1 DEF ChildrenAreExact, GenesisNode
<1>4. GenesisStands
  BY <1>1 DEF GenesisStands, GenesisNode
<1>5. QED
  BY <1>1, <1>2, <1>3, <1>4 DEF DInv

\* A step that leaves the Dag alone leaves the derivations alone.
LEMMA Unchanged ==
  ASSUME DInv, UNCHANGED vars
  PROVE  DInv'
<1>1. nodes' = nodes /\ tips' = tips
  BY DEF vars
<1>2. Inv'
  BY <1>1 DEF DInv, Inv, TypeOK, AncestryIsOrdered, BluesSurvive, TipsCoverTheDag, Held
<1>3. DerivationsStand'
  <2>1. ASSUME NEW b \in Held \ {Genesis}
        PROVE  Derives(nodes[b].parents, nodes[b].sp, nodes[b].past, nodes[b].blues)'
    <3>1. PICK ps \in SUBSET Held, sp \in Held, past \in SUBSET Held, blues \in SUBSET Held :
            /\ Derives(ps, sp, past, blues)
            /\ nodes[b].parents = ps /\ nodes[b].sp = sp
            /\ nodes[b].past = past /\ nodes[b].blues = blues
      <4>1. /\ nodes[b].parents \subseteq Held
            /\ Derives(nodes[b].parents, nodes[b].sp, nodes[b].past, nodes[b].blues)
        BY DEF DInv, DerivationsStand
      <4>2. nodes[b].sp \in nodes[b].parents
        BY <4>1 DEF Derives, IsSelected
      <4>3. nodes[b].past \subseteq Held /\ nodes[b].blues \subseteq Held
        BY DEF DInv, Inv, AncestryIsOrdered, BluesSurvive
      <4>4. QED
        BY <4>1, <4>2, <4>3
    <3>2. Derives(ps, sp, past, blues)'
      BY <1>1, <3>1, RulesStand DEF DInv, Inv
    <3>3. QED
      BY <1>1, <3>1, <3>2
  <2>2. \A b \in Held \ {Genesis} : nodes[b].parents # {} /\ nodes[b].parents \subseteq Held
    BY DEF DInv, DerivationsStand
  <2>3. Held' = Held
    BY <1>1 DEF Held
  <2>4. QED
    BY <1>1, <2>1, <2>2, <2>3 DEF DerivationsStand
<1>4. (ChildrenAreExact' <=> ChildrenAreExact) /\ (GenesisStands' <=> GenesisStands)
  BY <1>1, Zenon DEF ChildrenAreExact, GenesisStands, Held
<1>5. QED
  BY <1>2, <1>3, <1>4 DEF DInv

\* Every reachable Dag carries its derivations.
LEMMA Derivations == Spec => []DInv
<1>1. DInv /\ [Next]_vars => DInv'
  BY InsertDInv, OfferedHeaders, Unchanged DEF Next
<1>2. QED
  BY <1>1, InitDInv, PTL DEF Spec

----------------------------------------------------------------------------
(* The rules have one answer each.                                         *)

\* Precedes is a strict total order on the held blocks.
LEMMA PrecedesIsTotal ==
  ASSUME TypeOK
  PROVE  /\ \A x \in Held : ~Precedes(x, x)
         /\ \A x, y \in Held : Precedes(x, y) => ~Precedes(y, x)
         /\ \A x, y \in Held : x # y => Precedes(x, y) \/ Precedes(y, x)
         /\ \A x, y, z \in Held : Precedes(x, y) /\ Precedes(y, z) => Precedes(x, z)
<1>1. \A x \in Held : nodes[x].score \in Nat /\ x \in Nat
  BY DagAssumption DEF TypeOK, Node
<1>2. QED
  BY <1>1 DEF Precedes

\* One parent is selected.
LEMMA OneIsSelected ==
  ASSUME TypeOK, NEW ps \in SUBSET Held, NEW sp, IsSelected(sp, ps), NEW sq, IsSelected(sq, ps)
  PROVE  sp = sq
BY PrecedesIsTotal DEF IsSelected

\* One set of candidates is greedy: where two would first differ they have
\* the same working set.
LEMMA OneIsGreedy ==
  ASSUME TypeOK, AncestryIsOrdered, NEW ps \in SUBSET Held, NEW sp,
         NEW j \in SUBSET Candidates(ps, sp), IsGreedy(j, ps, sp),
         NEW k \in SUBSET Candidates(ps, sp), IsGreedy(k, ps, sp)
  PROVE  j = k
<1> DEFINE U == {v \in Candidates(ps, sp) : ~(v \in j <=> v \in k)}
           R == {pair \in Held \X Held : Precedes(pair[1], pair[2])}
<1>1. Candidates(ps, sp) \subseteq Held
  BY DEF Candidates, PastOf, AncestryIsOrdered
<1>2. U \subseteq Held /\ IsFiniteSet(U)
  BY <1>1, FS_Subset DEF TypeOK
<1>3. CASE U = {}
  BY <1>3
<1>4. CASE U # {}
  <2>1. /\ \A x \in U : <<x, x>> \notin R
        /\ \A x, y, z \in U : <<x, y>> \in R /\ <<y, z>> \in R => <<x, z>> \in R
    <3>1. \A x \in Held, y \in Held : <<x, y>> \in R <=> Precedes(x, y)
      OBVIOUS
    <3> HIDE DEF R, U
    <3>2. QED
      BY <1>2, <3>1, PrecedesIsTotal
  <2>2. PICK v \in U : \A w \in U : <<w, v>> \notin R
    <3> HIDE DEF R, U
    <3>1. QED
      BY <1>2, <1>4, <2>1, FirstOne
  <2>3. \A w \in Candidates(ps, sp) : Precedes(w, v) => (w \in j <=> w \in k)
    BY <1>1, <2>2
  <2>4. {w \in j : Precedes(w, v)} = {w \in k : Precedes(w, v)}
    BY <2>3
  <2>5. v \in Candidates(ps, sp) /\ ~(v \in j <=> v \in k)
    BY <2>2
  <2> DEFINE earlier == {w \in j : Precedes(w, v)}
             joins == Cardinality(Anticone(v, Inherited(sp) \cup earlier)) <= K
  <2>6. v \in j <=> joins
    BY <2>5, Zenon DEF IsGreedy
  <2>7. v \in k <=> joins
    BY <2>4, <2>5, Zenon DEF IsGreedy
  <2>8. QED
    BY <2>5, <2>6, <2>7
<1>5. QED
  BY <1>3, <1>4

\* Nothing held precedes the best tip, and it precedes everything else.
LEMMA BestTipPrecedes ==
  ASSUME Inv, NEW t, IsBestTip(t), NEW b \in Held, b # t
  PROVE  Precedes(t, b)
<1>1. t \in tips /\ t \in Held /\ tips \subseteq Held
  BY DEF IsBestTip, Inv, TypeOK
<1>2. PICK u \in tips : b = u \/ b \in nodes[u].past
  BY DEF Inv, TipsCoverTheDag
<1>3. CASE b = u
  BY <1>2, <1>3 DEF IsBestTip
<1>4. CASE b \in nodes[u].past
  <2>1. nodes[b].score < nodes[u].score
    BY <1>1, <1>2, <1>4 DEF Inv, AncestryIsOrdered
  <2>2. u = t \/ Precedes(t, u)
    BY <1>2 DEF IsBestTip
  <2>3. nodes[b].score \in Nat /\ nodes[u].score \in Nat /\ nodes[t].score \in Nat
    BY <1>1, <1>2 DEF Inv, TypeOK, Node
  <2>4. QED
    BY <2>1, <2>2, <2>3 DEF Precedes
<1>5. QED
  BY <1>2, <1>3, <1>4

\* The rules derive one selected parent, one past and one blue set.
LEMMA OneDerivation ==
  ASSUME TypeOK, AncestryIsOrdered, NEW ps \in SUBSET Held,
         NEW sp, NEW past, NEW blues, Derives(ps, sp, past, blues),
         NEW sq, NEW paste, NEW bluest, Derives(ps, sq, paste, bluest)
  PROVE  sp = sq /\ past = paste /\ blues = bluest
<1>1. sp = sq
  BY OneIsSelected DEF Derives
<1>2. past = paste
  BY DEF Derives
<1>3. PICK j \in SUBSET Candidates(ps, sp) :
        IsGreedy(j, ps, sp) /\ blues = Inherited(sp) \cup j
  BY DEF Derives
<1>4. PICK k \in SUBSET Candidates(ps, sp) :
        IsGreedy(k, ps, sp) /\ bluest = Inherited(sp) \cup k
  BY <1>1 DEF Derives
<1>5. j = k
  BY <1>3, <1>4, OneIsGreedy
<1>6. QED
  BY <1>1, <1>2, <1>3, <1>4, <1>5

\* What an insertion shows of its block, and what it leaves of the others.
LEMMA WhatIsEntered ==
  ASSUME Inv, NEW b \in Header, NEW now, Insert(b, now)
  PROVE  /\ b.rooted /\ b.id \in Worked /\ b.id \notin Held /\ b.parents \subseteq Held
         /\ \A p \in b.parents : nodes[p].height < b.height /\ nodes[p].time <= b.time
         /\ \E p \in b.parents : b.height = nodes[p].height + 1
         /\ Held' = Held \cup {b.id}
         /\ nodes'[b.id].parents = b.parents
         /\ nodes'[b.id].height = b.height
         /\ nodes'[b.id].time = b.time
         /\ \A x \in Held : /\ nodes'[x].parents = nodes[x].parents
                            /\ nodes'[x].height = nodes[x].height
                            /\ nodes'[x].time = nodes[x].time
<1>1. Accepts(b, now)
  BY DEF Insert
<1>2. PICK node : /\ nodes' = Linked(b, node)
                  /\ node.parents = b.parents /\ node.height = b.height /\ node.time = b.time
  BY DEF Insert, NewNode
<1>3. b.id \notin Held /\ b.parents \subseteq Held
  BY <1>1 DEF Accepts
<1>4. /\ Held' = Held \cup {b.id}
      /\ nodes'[b.id] = node
      /\ \A x \in Held : /\ nodes'[x].parents = nodes[x].parents
                         /\ nodes'[x].height = nodes[x].height
                         /\ nodes'[x].time = nodes[x].time
  BY <1>2, <1>3, Entered DEF Inv
<1>5. /\ b.rooted /\ b.id \in Worked
      /\ \A p \in b.parents : nodes[p].height < b.height /\ nodes[p].time <= b.time
      /\ \E p \in b.parents : b.height = nodes[p].height + 1
  BY <1>1 DEF Accepts, AnnouncesHeight, NotBehindParents
<1>6. QED
  BY <1>2, <1>3, <1>4, <1>5

----------------------------------------------------------------------------
(* The consensus order.                                                    *)

HeightOrder == {pair \in Held \X Held : ByHeightThenId(pair[1], pair[2])}

LEMMA HeightOrders ==
  ASSUME TypeOK
  PROVE  /\ \A x, y \in Held : <<x, y>> \in HeightOrder <=> ByHeightThenId(x, y)
         /\ \A S \in SUBSET Held : StrictlyOrders(HeightOrder, S)
<1>1. \A x \in Held : nodes[x].height \in Nat /\ x \in Nat
  BY DagAssumption DEF TypeOK, Node
<1>2. \A x, y \in Held : <<x, y>> \in HeightOrder <=> ByHeightThenId(x, y)
  BY DEF HeightOrder
<1>3. /\ \A x \in Held : ~ByHeightThenId(x, x)
      /\ \A x, y, z \in Held : ByHeightThenId(x, y) /\ ByHeightThenId(y, z) => ByHeightThenId(x, z)
      /\ \A x, y \in Held : x # y => ByHeightThenId(x, y) \/ ByHeightThenId(y, x)
  BY <1>1 DEF ByHeightThenId
<1>4. ASSUME NEW S \in SUBSET Held PROVE StrictlyOrders(HeightOrder, S)
  BY <1>2, <1>3 DEF StrictlyOrders
<1>5. QED
  BY <1>2, <1>4

\* What the view of a block adds over the view of its selected parent.
Added(b) == View(b) \ View(nodes[b].sp)

\* The fresh blocks of a view, each once, the lower ones first.
LEMMA FreshLists ==
  ASSUME TypeOK, NEW b, Added(b) \subseteq Held
  PROVE  /\ Fresh(b) \in Seq(Added(b)) /\ Len(Fresh(b)) = Cardinality(Added(b))
         /\ \A x \in Added(b) : \E i \in DOMAIN Fresh(b) : Fresh(b)[i] = x
         /\ \A i, j \in DOMAIN Fresh(b) : i < j <=> ByHeightThenId(Fresh(b)[i], Fresh(b)[j])
<1> DEFINE S == Added(b)
           s == Fresh(b)
<1>1. IsFiniteSet(S) /\ StrictlyOrders(HeightOrder, S) /\ S \subseteq Held
  BY FS_Subset, HeightOrders DEF TypeOK
<1>2. s = [i \in 1 .. Cardinality(S) |->
             CHOOSE x \in S : Cardinality({y \in S : ByHeightThenId(y, x)}) = i - 1]
  BY Zenon DEF Fresh, Sorted, Added
<1> HIDE DEF S, s
<1>3. \A x \in S : {y \in S : ByHeightThenId(y, x)} = Below(x, S, HeightOrder)
  BY <1>1, HeightOrders DEF Below
<1>4. ASSUME NEW i \in 1 .. Cardinality(S)
      PROVE  s[i] \in S /\ Cardinality(Below(s[i], S, HeightOrder)) = i - 1
  <2>1. PICK x \in S : Cardinality(Below(x, S, HeightOrder)) = i - 1
    BY <1>1, RankExists
  <2>2. \E z \in S : Cardinality({y \in S : ByHeightThenId(y, z)}) = i - 1
    BY <1>3, <2>1
  <2>3. s[i] = CHOOSE z \in S : Cardinality({y \in S : ByHeightThenId(y, z)}) = i - 1
    BY <1>2
  <2>4. s[i] \in S /\ Cardinality({y \in S : ByHeightThenId(y, s[i])}) = i - 1
    BY <2>2, <2>3, Zenon
  <2>5. QED
    BY <1>3, <2>4
<1>5. s = [i \in 1 .. Cardinality(S) |-> s[i]]
  <2> DEFINE place(i) == CHOOSE x \in S : Cardinality({y \in S : ByHeightThenId(y, x)}) = i - 1
  <2>1. s = [i \in 1 .. Cardinality(S) |-> place(i)]
    BY <1>2
  <2> HIDE DEF place
  <2>2. QED
    BY <2>1
<1>6. /\ s \in Seq(S) /\ Len(s) = Cardinality(S) /\ DOMAIN s = 1 .. Cardinality(S)
      /\ \A x \in S : \E i \in DOMAIN s : s[i] = x
      /\ \A i, j \in DOMAIN s : i < j <=> <<s[i], s[j]>> \in HeightOrder
  BY <1>1, <1>4, <1>5, RankedLists, Zenon
<1>7. \A i \in DOMAIN s : s[i] \in Held
  BY <1>1, <1>4, <1>6
<1>8. \A i, j \in DOMAIN s : i < j <=> ByHeightThenId(s[i], s[j])
  BY <1>6, <1>7, HeightOrders
<1>9. QED
  BY <1>6, <1>8 DEF S, s

\* What a block stands on.
LEMMA Ancestry ==
  ASSUME DInv
  PROVE  /\ Genesis \in Held /\ nodes[Genesis].sp = Zero /\ nodes[Genesis].past = {}
         /\ nodes[Genesis].parents = {Zero} /\ Zero \notin Held
         /\ \A b \in Held \ {Genesis} :
              /\ nodes[b].sp \in Held /\ nodes[b].sp # Zero
              /\ nodes[nodes[b].sp].height < nodes[b].height
              /\ nodes[b].sp \in nodes[b].past
              /\ nodes[b].parents \subseteq nodes[b].past
         /\ \A b \in Held : /\ View(b) \subseteq Held /\ IsFiniteSet(View(b))
                            /\ nodes[b].height \in Nat
         /\ \A b \in Held : \A a \in View(b) : View(a) \subseteq View(b)
<1>1. Inv
  BY DEF DInv
<1>2. /\ Genesis \in Held /\ nodes[Genesis].sp = Zero /\ nodes[Genesis].past = {}
      /\ nodes[Genesis].parents = {Zero} /\ Zero \notin Held
  BY <1>1, DagAssumption DEF DInv, GenesisStands, GenesisNode, Inv, TypeOK
<1>3. ASSUME NEW b \in Held \ {Genesis}
      PROVE  /\ nodes[b].sp \in Held /\ nodes[b].sp # Zero
             /\ nodes[nodes[b].sp].height < nodes[b].height
             /\ nodes[b].sp \in nodes[b].past
             /\ nodes[b].parents \subseteq nodes[b].past
  <2>1. nodes[b].parents \subseteq Held /\ nodes[b].sp \in nodes[b].parents
        /\ nodes[b].past = PastOf(nodes[b].parents)
    BY DEF DInv, DerivationsStand, Derives, IsSelected
  <2>2. nodes[b].parents \subseteq nodes[b].past
    BY <2>1 DEF PastOf
  <2>3. QED
    BY <1>1, <1>2, <2>1, <2>2 DEF Inv, AncestryIsOrdered
<1>4. ASSUME NEW b \in Held
      PROVE  View(b) \subseteq Held /\ IsFiniteSet(View(b)) /\ nodes[b].height \in Nat
  <2>1. View(b) \in SUBSET Held
    BY <1>1 DEF View, Inv, AncestryIsOrdered
  <2>2. QED
    BY <1>1, <2>1, FS_Subset DEF Inv, TypeOK, Node
<1>5. ASSUME NEW b \in Held, NEW a \in View(b) PROVE View(a) \subseteq View(b)
  BY <1>1 DEF View, Inv, AncestryIsOrdered
<1>6. QED
  BY <1>2, <1>3, <1>4, <1>5

\* The order of a block is that of its selected parent and its fresh blocks.
LEMMA OrderGrows ==
  ASSUME DInv
  PROVE  /\ ConsensusOrder(Genesis) = <<Genesis>>
         /\ \A b \in Held \ {Genesis} : ConsensusOrder(b) = ConsensusOrder(nodes[b].sp) \o Fresh(b)
<1> DEFINE order == CHOOSE order : order =
                      [b \in Held |-> IF nodes[b].sp = Zero THEN <<b>> ELSE order[nodes[b].sp] \o Fresh(b)]
           V == Seq(Held)
           height == [x \in Held |-> nodes[x].height]
           next == [x \in Held |-> nodes[x].sp]
           first == [x \in Held |-> <<x>>]
           step == [x \in Held \ {Genesis} |-> [v \in V |-> v \o Fresh(x)]]
<1>1. \A b : ConsensusOrder(b) = order[b]
  BY Zenon DEF ConsensusOrder
<1>2. \A x \in Held \ {Genesis} : Fresh(x) \in V
  <2>1. ASSUME NEW x \in Held \ {Genesis} PROVE Fresh(x) \in V
    <3>1. Added(x) \subseteq Held
      BY Ancestry DEF Added
    <3>2. Fresh(x) \in Seq(Added(x))
      BY <3>1, FreshLists DEF DInv, Inv
    <3>3. QED
      BY <3>1, <3>2, SeqMonotonic
  <2>2. QED
    BY <2>1
<1>3. \A x \in Held \ {Genesis} : \A v \in V : step[x][v] = v \o Fresh(x) /\ step[x][v] \in V
  <2>1. \A x \in Held \ {Genesis} : \A v \in V : step[x][v] = v \o Fresh(x)
    OBVIOUS
  <2>2. \A v \in V, w \in V : v \o w \in V
    BY ConcatProperties
  <2>3. QED
    BY <1>2, <2>1, <2>2
<1>4. /\ IsFiniteSet(Held) /\ \A x \in Held : height[x] \in Nat
      /\ \A x \in Held : x \in {Genesis} => first[x] \in V
      /\ \A x \in Held \ {Genesis} : next[x] \in Held /\ height[next[x]] < height[x]
  BY Ancestry DEF DInv, Inv, TypeOK
<1>5. \A x \in Held : first[x] = <<x>> /\ next[x] = nodes[x].sp
  OBVIOUS
<1>6. \E g : g = [b \in Held |-> IF nodes[b].sp = Zero THEN <<b>> ELSE g[nodes[b].sp] \o Fresh(b)]
  <2> HIDE DEF V, height, next, first, step, order
  <2>1. PointerSolutions(Held, V, {Genesis}, first, next, step) # {}
    BY <1>3, <1>4, RecursionExists
  <2>2. PICK g \in [Held -> V] :
          \A x \in Held : g[x] = IF x \in {Genesis} THEN first[x] ELSE step[x][g[next[x]]]
    BY <2>1 DEF PointerSolutions
  <2>3. ASSUME NEW x \in Held
        PROVE  g[x] = IF nodes[x].sp = Zero THEN <<x>> ELSE g[nodes[x].sp] \o Fresh(x)
    <3>1. CASE x = Genesis
      BY <1>5, <2>2, <3>1, Ancestry
    <3>2. CASE x # Genesis
      <4>1. nodes[x].sp \in Held /\ nodes[x].sp # Zero
        BY <3>2, Ancestry
      <4>2. g[nodes[x].sp] \in V
        BY <4>1
      <4>3. g[x] = step[x][g[nodes[x].sp]]
        BY <1>5, <2>2, <3>2
      <4>4. step[x][g[nodes[x].sp]] = g[nodes[x].sp] \o Fresh(x)
        BY <1>3, <3>2, <4>2
      <4>5. QED
        BY <4>1, <4>3, <4>4
    <3>3. QED
      BY <3>1, <3>2
  <2>4. g = [b \in Held |-> IF nodes[b].sp = Zero THEN <<b>> ELSE g[nodes[b].sp] \o Fresh(b)]
    BY <2>3
  <2>5. QED
    BY <2>4
<1>7. order = [b \in Held |-> IF nodes[b].sp = Zero THEN <<b>> ELSE order[nodes[b].sp] \o Fresh(b)]
  BY <1>6, Zenon
<1> HIDE DEF order
<1>8. \A b \in Held : order[b] = IF nodes[b].sp = Zero THEN <<b>> ELSE order[nodes[b].sp] \o Fresh(b)
  BY <1>7
<1>9. /\ order[Genesis] = <<Genesis>>
      /\ \A b \in Held \ {Genesis} : order[b] = order[nodes[b].sp] \o Fresh(b)
  BY <1>8, Ancestry
<1>10. QED
  BY <1>1, <1>9

\* A sequence lists the view of a block, each block once, and none before one
\* of its parents.
Lists(s, b) ==
    /\ s \in Seq(View(b)) /\ Len(s) = Cardinality(View(b))
    /\ \A x \in View(b) : \E i \in DOMAIN s : s[i] = x
    /\ \A i, j \in DOMAIN s : s[i] \in nodes[s[j]].parents => i < j

\* Appending the fresh blocks to the order of the selected parent keeps it so.
LEMMA FreshExtends ==
  ASSUME DInv, NEW b \in Held \ {Genesis}, NEW s, Lists(s, nodes[b].sp)
  PROVE  Lists(s \o Fresh(b), b)
<1> DEFINE sp == nodes[b].sp
           S == Added(b)
           t == Fresh(b)
<1>0. S = View(b) \ View(sp)
  BY DEF Added
<1>1. /\ sp \in Held /\ View(sp) \subseteq View(b) /\ View(b) \subseteq Held
      /\ IsFiniteSet(View(b)) /\ IsFiniteSet(View(sp)) /\ S \subseteq Held
  <2>1. sp \in View(b) /\ sp \in Held
    BY Ancestry DEF View
  <2>2. QED
    BY <1>0, <2>1, Ancestry
<1>2. /\ t \in Seq(S) /\ Len(t) = Cardinality(S)
      /\ \A x \in S : \E i \in DOMAIN t : t[i] = x
      /\ \A i, j \in DOMAIN t : i < j <=> ByHeightThenId(t[i], t[j])
  <2>1. Added(b) \subseteq Held /\ TypeOK
    BY <1>1 DEF DInv, Inv
  <2>2. QED
    BY <2>1, FreshLists
<1>3. /\ s \in Seq(View(sp)) /\ Len(s) = Cardinality(View(sp))
      /\ \A x \in View(sp) : \E i \in DOMAIN s : s[i] = x
      /\ \A i, j \in DOMAIN s : s[i] \in nodes[s[j]].parents => i < j
  BY DEF Lists
<1>4. Cardinality(View(b)) = Cardinality(View(sp)) + Cardinality(S)
  <2>1. View(b) \cap View(sp) = View(sp)
    BY <1>1
  <2> HIDE DEF S
  <2>2. Cardinality(S) = Cardinality(View(b)) - Cardinality(View(sp))
    BY <1>0, <1>1, <2>1, FS_Difference, Zenon
  <2>3. Cardinality(View(b)) \in Nat /\ Cardinality(View(sp)) \in Nat
    BY <1>1, FS_CardinalityType
  <2>4. QED
    BY <2>2, <2>3
<1>5. S \subseteq View(b) /\ S \cap View(sp) = {}
  BY <1>0
<1>6. ASSUME NEW x \in Held, NEW y \in Held, x \in nodes[y].parents
      PROVE  ByHeightThenId(x, y) /\ \A a \in Held : y \in View(a) => x \in View(a)
  <2>1. y # Genesis
    BY <1>6, Ancestry
  <2>2. x \in nodes[y].past
    BY <1>6, <2>1, Ancestry
  <2>3. nodes[x].height < nodes[y].height
    BY <2>2 DEF DInv, Inv, AncestryIsOrdered
  <2>4. x \in View(y)
    BY <2>2 DEF View
  <2>5. QED
    BY <2>3, <2>4, Ancestry DEF ByHeightThenId
<1> HIDE DEF sp, S, t
<1>7. s \in Seq(View(b)) /\ t \in Seq(View(b))
  BY <1>1, <1>2, <1>3, <1>5, SeqMonotonic
<1>8. /\ s \o t \in Seq(View(b))
      /\ Len(s \o t) = Len(s) + Len(t)
      /\ \A i \in 1 .. Len(s) + Len(t) : (s \o t)[i] = IF i <= Len(s) THEN s[i] ELSE t[i - Len(s)]
  BY <1>7, ConcatProperties
<1>9. /\ Len(s) \in Nat /\ DOMAIN s = 1 .. Len(s) /\ Len(t) \in Nat /\ DOMAIN t = 1 .. Len(t)
      /\ DOMAIN (s \o t) = 1 .. Len(s) + Len(t)
  BY <1>7, <1>8, LenProperties
<1>10. /\ \A i \in 1 .. Len(s) : s[i] \in View(sp) /\ s[i] \in Held
       /\ \A i \in 1 .. Len(t) : t[i] \in S /\ t[i] \in Held
  BY <1>1, <1>2, <1>3, <1>9
<1>11. ASSUME NEW x \in View(b) PROVE \E i \in DOMAIN (s \o t) : (s \o t)[i] = x
  <2>1. CASE x \in View(sp)
    <3>1. PICK i \in DOMAIN s : s[i] = x
      BY <1>3, <2>1
    <3>2. i \in 1 .. Len(s) + Len(t) /\ i <= Len(s)
      BY <1>9
    <3>3. (s \o t)[i] = x
      BY <1>8, <3>1, <3>2
    <3>4. QED
      BY <1>9, <3>2, <3>3
  <2>2. CASE x \in S
    <3>1. PICK i \in DOMAIN t : t[i] = x
      BY <1>2, <2>2
    <3>2. /\ i + Len(s) \in 1 .. Len(s) + Len(t) /\ ~(i + Len(s) <= Len(s))
          /\ (i + Len(s)) - Len(s) = i
      BY <1>9
    <3>3. (s \o t)[i + Len(s)] = x
      BY <1>8, <3>1, <3>2
    <3>4. QED
      BY <1>9, <3>2, <3>3
  <2>3. QED
    BY <1>0, <2>1, <2>2
<1>12. ASSUME NEW i \in DOMAIN (s \o t), NEW j \in DOMAIN (s \o t),
              (s \o t)[i] \in nodes[(s \o t)[j]].parents
       PROVE  i < j
  <2>0. i \in 1 .. Len(s) + Len(t) /\ j \in 1 .. Len(s) + Len(t)
    BY <1>9
  <2>1. CASE i <= Len(s) /\ j <= Len(s)
    <3>1. i \in DOMAIN s /\ j \in DOMAIN s /\ s[i] \in nodes[s[j]].parents
      BY <1>8, <1>9, <1>12, <2>0, <2>1
    <3>2. QED
      BY <1>3, <3>1
  <2>2. CASE i <= Len(s) /\ j > Len(s)
    BY <1>9, <2>0, <2>2
  <2>3. CASE i > Len(s) /\ j <= Len(s)
    <3>1. /\ i - Len(s) \in 1 .. Len(t) /\ j \in 1 .. Len(s)
          /\ t[i - Len(s)] \in nodes[s[j]].parents
      BY <1>8, <1>9, <1>12, <2>0, <2>3
    <3>2. t[i - Len(s)] \in View(sp)
      BY <1>1, <1>6, <1>10, <3>1
    <3>3. QED
      BY <1>5, <1>10, <3>1, <3>2
  <2>4. CASE i > Len(s) /\ j > Len(s)
    <3>1. /\ i - Len(s) \in 1 .. Len(t) /\ j - Len(s) \in 1 .. Len(t)
          /\ t[i - Len(s)] \in nodes[t[j - Len(s)]].parents
      BY <1>8, <1>9, <1>12, <2>0, <2>4
    <3>2. ByHeightThenId(t[i - Len(s)], t[j - Len(s)])
      BY <1>6, <1>10, <3>1
    <3>3. i - Len(s) < j - Len(s)
      BY <1>2, <1>9, <3>1, <3>2
    <3>4. QED
      BY <1>9, <2>0, <3>3
  <2>5. QED
    BY <1>9, <2>0, <2>1, <2>2, <2>3, <2>4
<1>13. Len(s \o t) = Cardinality(View(b))
  BY <1>2, <1>3, <1>4, <1>8
<1>14. Lists(s \o t, b)
  BY <1>8, <1>11, <1>12, <1>13 DEF Lists
<1>15. QED
  BY <1>14 DEF t

\* Every order lists its view: there is no lowest block whose order does not.
LEMMA OrdersList == DInv => \A b \in Held : Lists(ConsensusOrder(b), b)
<1> SUFFICES ASSUME DInv PROVE \A b \in Held : Lists(ConsensusOrder(b), b)
  OBVIOUS
<1> DEFINE U == {b \in Held : ~Lists(ConsensusOrder(b), b)}
           R == {pair \in Held \X Held : nodes[pair[1]].height < nodes[pair[2]].height}
<1> SUFFICES ASSUME U # {} PROVE FALSE
  OBVIOUS
<1>1. IsFiniteSet(U) /\ U \subseteq Held
  BY FS_Subset DEF DInv, Inv, TypeOK
<1>2. PICK b \in U : \A y \in U : <<y, b>> \notin R
  <2>1. \A x \in Held, y \in Held : <<x, y>> \in R <=> nodes[x].height < nodes[y].height
    OBVIOUS
  <2>2. \A x \in Held : nodes[x].height \in Nat
    BY Ancestry
  <2> HIDE DEF U, R
  <2>3. /\ \A x \in U : <<x, x>> \notin R
        /\ \A x, y, z \in U : <<x, y>> \in R /\ <<y, z>> \in R => <<x, z>> \in R
    BY <1>1, <2>1, <2>2
  <2>4. QED
    BY <1>1, <2>3, FirstOne
<1>3. /\ b \in Held /\ ~Lists(ConsensusOrder(b), b)
      /\ \A y \in Held : nodes[y].height < nodes[b].height => Lists(ConsensusOrder(y), y)
  BY <1>2
<1> HIDE DEF U, R
<1>4. CASE b = Genesis
  <2>1. View(b) = {Genesis} /\ Cardinality(View(b)) = 1
    <3>1. View(b) = {Genesis}
      BY <1>4, Ancestry DEF View
    <3>2. QED
      BY <3>1, FS_Singleton
  <2>2. ConsensusOrder(b) = <<Genesis>>
    BY <1>4, OrderGrows
  <2>3. Genesis # Zero /\ nodes[Genesis].parents = {Zero}
    BY Ancestry
  <2>4. Lists(<<Genesis>>, b)
    BY <2>1, <2>3 DEF Lists
  <2>5. QED
    BY <1>3, <2>2, <2>4
<1>5. CASE b # Genesis
  <2>1. Lists(ConsensusOrder(nodes[b].sp), nodes[b].sp)
    BY <1>3, <1>5, Ancestry
  <2>2. ConsensusOrder(b) = ConsensusOrder(nodes[b].sp) \o Fresh(b)
    BY <1>3, <1>5, OrderGrows
  <2>3. QED
    BY <1>3, <1>5, <2>1, <2>2, FreshExtends
<1>6. QED
  BY <1>4, <1>5

\* The order of every block lists its view, each block once, every parent
\* before its child (dag.rs, consensus_order and the sort of the fresh set).
THEOREM OrdersTopological == Spec => []OrderIsTopological
<1>1. DInv => OrderIsTopological
  <2> SUFFICES ASSUME DInv, NEW b \in Held
               PROVE  /\ Len(ConsensusOrder(b)) = Cardinality(View(b))
                      /\ ToSet(ConsensusOrder(b)) = View(b)
                      /\ \A i, j \in DOMAIN ConsensusOrder(b) :
                           ConsensusOrder(b)[i] \in nodes[ConsensusOrder(b)[j]].parents => i < j
    BY DEF OrderIsTopological
  <2> DEFINE s == ConsensusOrder(b)
  <2>1. Lists(s, b)
    BY OrdersList
  <2> HIDE DEF s
  <2>2. ToSet(s) = View(b)
    <3>1. s \in Seq(View(b)) /\ \A x \in View(b) : \E i \in DOMAIN s : s[i] = x
      BY <2>1 DEF Lists
    <3>2. \A i \in DOMAIN s : s[i] \in View(b)
      BY <3>1
    <3>3. QED
      BY <3>1, <3>2 DEF ToSet
  <2>3. QED
    BY <2>1, <2>2 DEF Lists, s
<1>2. QED
  BY <1>1, Derivations, PTL

----------------------------------------------------------------------------
(* The coloring as a loop.                                                 *)

WeightOrder == {pair \in Held \X Held : Precedes(pair[1], pair[2])}

\* The candidates of a coloring in the order the loop tests them.
Tested(b) == Sorted(Candidates(nodes[b].parents, nodes[b].sp), Precedes)

LEMMA TestedLists ==
  ASSUME TypeOK, NEW b, Candidates(nodes[b].parents, nodes[b].sp) \subseteq Held
  PROVE  LET S == Candidates(nodes[b].parents, nodes[b].sp)
             s == Tested(b)
         IN  /\ s \in Seq(S) /\ Len(s) \in Nat /\ DOMAIN s = 1 .. Len(s)
             /\ \A x \in S : \E i \in DOMAIN s : s[i] = x
             /\ \A i, j \in DOMAIN s : i < j <=> Precedes(s[i], s[j])
<1> DEFINE S == Candidates(nodes[b].parents, nodes[b].sp)
           s == Tested(b)
<1>1. IsFiniteSet(S) /\ S \subseteq Held
  BY FS_Subset DEF TypeOK
<1>2. s = [i \in 1 .. Cardinality(S) |->
             CHOOSE x \in S : Cardinality({y \in S : Precedes(y, x)}) = i - 1]
  BY Zenon DEF Tested, Sorted
<1> HIDE DEF S, s
<1>3. StrictlyOrders(WeightOrder, S) /\ \A x, y \in S : <<x, y>> \in WeightOrder <=> Precedes(x, y)
  <2>1. \A x \in Held, y \in Held : <<x, y>> \in WeightOrder <=> Precedes(x, y)
    BY DEF WeightOrder
  <2>2. QED
    BY <1>1, <2>1, PrecedesIsTotal DEF StrictlyOrders
<1>4. \A x \in S : {y \in S : Precedes(y, x)} = Below(x, S, WeightOrder)
  BY <1>3 DEF Below
<1>5. ASSUME NEW i \in 1 .. Cardinality(S)
      PROVE  s[i] \in S /\ Cardinality(Below(s[i], S, WeightOrder)) = i - 1
  <2>1. PICK x \in S : Cardinality(Below(x, S, WeightOrder)) = i - 1
    BY <1>1, <1>3, RankExists
  <2>2. \E z \in S : Cardinality({y \in S : Precedes(y, z)}) = i - 1
    BY <1>4, <2>1
  <2>3. s[i] = CHOOSE z \in S : Cardinality({y \in S : Precedes(y, z)}) = i - 1
    BY <1>2
  <2>4. s[i] \in S /\ Cardinality({y \in S : Precedes(y, s[i])}) = i - 1
    BY <2>2, <2>3, Zenon
  <2>5. QED
    BY <1>4, <2>4
<1>6. s = [i \in 1 .. Cardinality(S) |-> s[i]]
  <2> DEFINE place(i) == CHOOSE x \in S : Cardinality({y \in S : Precedes(y, x)}) = i - 1
  <2>1. s = [i \in 1 .. Cardinality(S) |-> place(i)]
    BY <1>2
  <2> HIDE DEF place
  <2>2. QED
    BY <2>1
<1>7. /\ s \in Seq(S) /\ Len(s) = Cardinality(S) /\ DOMAIN s = 1 .. Cardinality(S)
      /\ \A x \in S : \E i \in DOMAIN s : s[i] = x
      /\ \A i, j \in DOMAIN s : i < j <=> <<s[i], s[j]>> \in WeightOrder
  BY <1>1, <1>3, <1>5, <1>6, RankedLists, Zenon
<1>8. Len(s) \in Nat
  BY <1>1, <1>7, FS_CardinalityType
<1>9. \A i, j \in DOMAIN s : i < j <=> Precedes(s[i], s[j])
  BY <1>3, <1>5, <1>7
<1>10. QED
  BY <1>7, <1>8, <1>9 DEF S, s

\* g tells the working set of the coloring loop after each turn.
Colors(b, n, g) ==
    /\ ColoringLoop(b) = g[1 .. n]
    /\ g[{}] = Inherited(nodes[b].sp)
    /\ \A i \in 1 .. n :
         g[1 .. i] = IF Cardinality(Anticone(Tested(b)[i], g[1 .. i - 1])) <= K
                     THEN g[1 .. i - 1] \cup {Tested(b)[i]}
                     ELSE g[1 .. i - 1]

LEMMA LoopSteps ==
  ASSUME NEW b, NEW n \in Nat, DOMAIN Tested(b) = 1 .. n
  PROVE  \E g : Colors(b, n, g)
<1> DEFINE base == Inherited(nodes[b].sp)
           s == Tested(b)
           turn(i, w) == IF Cardinality(Anticone(s[i], w)) <= K THEN w \cup {s[i]} ELSE w
           it == CHOOSE it : it = [T \in SUBSET (DOMAIN s) |->
                    IF T = {} THEN base
                    ELSE IF Cardinality(Anticone(s[Max(T)], it[T \ {Max(T)}])) <= K
                         THEN it[T \ {Max(T)}] \cup {s[Max(T)]} ELSE it[T \ {Max(T)}]]
           V == SUBSET (base \cup {s[i] : i \in 1 .. n})
           op == [i \in 1 .. n |-> [w \in V |-> turn(i, w)]]
<1>1. ColoringLoop(b) = it[DOMAIN s]
  BY Zenon DEF ColoringLoop, FoldLeft, MapThenFoldSet, Tested
<1>2. base \in V
  OBVIOUS
<1>3. \A i \in 1 .. n : \A w \in V : op[i][w] = turn(i, w) /\ op[i][w] \in V
  <2>1. ASSUME NEW i \in 1 .. n, NEW w \in V PROVE turn(i, w) \in V
    <3>1. s[i] \in {s[j] : j \in 1 .. n}
      OBVIOUS
    <3>2. QED
      BY <3>1
  <2> HIDE DEF turn, V
  <2>2. QED
    BY <2>1
<1> HIDE DEF base, V, op
<1>4. PICK h \in [SUBSET (1 .. n) -> V] :
        \A T \in SUBSET (1 .. n) : h[T] = IF T = {} THEN base ELSE op[Max(T)][h[T \ {Max(T)}]]
  <2>1. LoopTables(n, V, base, op) # {}
    BY <1>2, <1>3, LoopExists
  <2>2. QED
    BY <2>1 DEF LoopTables, IsLoop
<1>5. ASSUME NEW T \in SUBSET (1 .. n)
      PROVE  h[T] = IF T = {} THEN base ELSE turn(Max(T), h[T \ {Max(T)}])
  <2>1. CASE T = {}
    BY <1>4, <2>1
  <2>2. CASE T # {}
    <3>1. Max(T) \in 1 .. n
      BY <2>2, MaxIs
    <3>2. h[T \ {Max(T)}] \in V
      <4>1. T \ {Max(T)} \in SUBSET (1 .. n)
        OBVIOUS
      <4>2. QED
        BY <4>1
    <3> HIDE DEF turn
    <3>3. QED
      BY <1>3, <1>4, <2>2, <3>1, <3>2
  <2>3. QED
    BY <2>1, <2>2
<1>6. it = [T \in SUBSET (DOMAIN s) |-> IF T = {} THEN base ELSE turn(Max(T), it[T \ {Max(T)}])]
  <2>1. h = [T \in SUBSET (DOMAIN s) |-> IF T = {} THEN base ELSE turn(Max(T), h[T \ {Max(T)}])]
    <3> HIDE DEF turn
    <3>1. QED
      BY <1>5
  <2>2. \E f : f = [T \in SUBSET (DOMAIN s) |-> IF T = {} THEN base ELSE turn(Max(T), f[T \ {Max(T)}])]
    BY <2>1
  <2>3. QED
    BY <2>2, Zenon
<1> HIDE DEF it
<1>7. \A T \in SUBSET (1 .. n) : it[T] = IF T = {} THEN base ELSE turn(Max(T), it[T \ {Max(T)}])
  <2> HIDE DEF turn
  <2>1. QED
    BY <1>6
<1>8. it[{}] = base /\ \A i \in 1 .. n : it[1 .. i] = turn(i, it[1 .. i - 1])
  <2> DEFINE prev == [i \in 1 .. n |-> [w \in {it[T] : T \in SUBSET (1 .. n)} |-> turn(i, w)]]
  <2>1. ASSUME NEW T \in SUBSET (1 .. n)
        PROVE  it[T] = IF T = {} THEN base ELSE prev[Max(T)][it[T \ {Max(T)}]]
    <3>1. CASE T = {}
      BY <1>7, <3>1
    <3>2. CASE T # {}
      <4>1. Max(T) \in 1 .. n
        BY <3>2, MaxIs
      <4>2. T \ {Max(T)} \in SUBSET (1 .. n)
        OBVIOUS
      <4> HIDE DEF turn
      <4>3. prev[Max(T)][it[T \ {Max(T)}]] = turn(Max(T), it[T \ {Max(T)}])
        BY <4>1, <4>2
      <4>4. QED
        BY <1>7, <3>2, <4>3
    <3>3. QED
      BY <3>1, <3>2
  <2>2. \A i \in 1 .. n : prev[i][it[1 .. i - 1]] = turn(i, it[1 .. i - 1])
    <3> HIDE DEF turn
    <3>1. \A i \in 1 .. n : 1 .. i - 1 \in SUBSET (1 .. n)
      OBVIOUS
    <3>2. QED
      BY <3>1
  <2> HIDE DEF prev, turn
  <2>3. it[{}] = base /\ \A i \in 1 .. n : it[1 .. i] = prev[i][it[1 .. i - 1]]
    <3>1. IsLoop(n, base, prev, it)
      BY <2>1 DEF IsLoop
    <3>2. QED
      BY <3>1, LoopTurns
  <2>4. QED
    BY <2>2, <2>3
<1>9. QED
  <2>1. it[DOMAIN s] = it[1 .. n]
    OBVIOUS
  <2>2. Colors(b, n, it)
    BY <1>1, <1>8, <2>1, Zenon DEF base, Colors
  <2>3. QED
    BY <2>2

\* The blues stored at the insertion are what the loop computes (dag.rs, the
\* coloring of insert): after each turn its working set is the inherited
\* blues and the greedy ones it has met.
THEOREM BluesLooped == Spec => []BluesAreTheLoop
<1>1. DInv => BluesAreTheLoop
  <2> SUFFICES ASSUME DInv, NEW b \in Held \ {Genesis}
               PROVE  nodes[b].blues = ColoringLoop(b)
    BY DEF BluesAreTheLoop
  <2> DEFINE ps == nodes[b].parents
             sp == nodes[b].sp
             S == Candidates(ps, sp)
             s == Tested(b)
  <2>1. PICK joined \in SUBSET S : IsGreedy(joined, ps, sp) /\ nodes[b].blues = Inherited(sp) \cup joined
    BY DEF DInv, DerivationsStand, Derives
  <2>2. S \subseteq Held
    BY DEF DInv, DerivationsStand, Candidates, PastOf, Inv, AncestryIsOrdered
  <2>3. /\ s \in Seq(S) /\ Len(s) \in Nat /\ DOMAIN s = 1 .. Len(s)
        /\ \A x \in S : \E i \in DOMAIN s : s[i] = x
        /\ \A i, j \in DOMAIN s : i < j <=> Precedes(s[i], s[j])
    BY <2>2, TestedLists DEF DInv, Inv
  <2>4. PICK n \in Nat : n = Len(s)
    BY <2>3
  <2>5. PICK g : /\ ColoringLoop(b) = g[1 .. n]
                 /\ g[{}] = Inherited(sp)
                 /\ \A i \in 1 .. n :
                      g[1 .. i] = IF Cardinality(Anticone(s[i], g[1 .. i - 1])) <= K
                                  THEN g[1 .. i - 1] \cup {s[i]}
                                  ELSE g[1 .. i - 1]
    <3>1. DOMAIN Tested(b) = 1 .. n
      BY <2>3, <2>4
    <3>2. PICK g : Colors(b, n, g)
      BY <3>1, LoopSteps
    <3>3. QED
      BY <3>2, Zenon DEF Colors
  <2>6. \A v \in S : v \in joined <=>
          Cardinality(Anticone(v, Inherited(sp) \cup {w \in joined : Precedes(w, v)})) <= K
    BY <2>1, Zenon DEF IsGreedy
  <2> HIDE DEF s, S
  <2> DEFINE met(i) == Inherited(sp) \cup {w \in joined : \E j \in 1 .. i : w = s[j]}
             P == {i \in Nat : i <= n => g[1 .. i] = met(i)}
  <2>7. 0 \in P
    <3>1. 1 .. 0 = {} /\ met(0) = Inherited(sp)
      OBVIOUS
    <3>2. QED
      BY <2>5, <3>1
  <2>8. ASSUME NEW i \in Nat, i \in P PROVE i + 1 \in P
    <3> SUFFICES ASSUME i + 1 <= n PROVE g[1 .. i + 1] = met(i + 1)
      OBVIOUS
    <3>1. /\ g[1 .. i] = met(i) /\ i + 1 \in 1 .. n /\ (i + 1) - 1 = i
          /\ s[i + 1] \in S
      BY <2>3, <2>4, <2>8
    <3> DEFINE v == s[i + 1]
    <3>2. {w \in joined : Precedes(w, v)} = {w \in joined : \E j \in 1 .. i : w = s[j]}
      <4>1. ASSUME NEW w \in joined PROVE Precedes(w, v) <=> \E j \in 1 .. i : w = s[j]
        <5>1. w \in S
          BY <2>1
        <5>2. PICK k \in 1 .. n : w = s[k]
          BY <2>3, <2>4, <5>1
        <5>3. \A j \in 1 .. n : Precedes(s[j], v) <=> j < i + 1
          BY <2>3, <2>4, <3>1
        <5>4. \A j \in 1 .. i : j \in 1 .. n /\ j < i + 1
          BY <3>1
        <5>5. k < i + 1 => k \in 1 .. i
          OBVIOUS
        <5>6. QED
          BY <5>2, <5>3, <5>4, <5>5
      <4>2. QED
        BY <4>1
    <3>3. v \in joined <=> Cardinality(Anticone(v, met(i))) <= K
      BY <2>6, <3>1, <3>2, Zenon
    <3>4. g[1 .. i + 1] = IF Cardinality(Anticone(v, g[1 .. i])) <= K THEN g[1 .. i] \cup {v} ELSE g[1 .. i]
      BY <2>5, <3>1
    <3>5. g[1 .. i + 1] = IF v \in joined THEN met(i) \cup {v} ELSE met(i)
      <4> HIDE DEF met, v
      <4>1. QED
        BY <3>1, <3>3, <3>4
    <3>6. met(i + 1) = IF v \in joined THEN met(i) \cup {v} ELSE met(i)
      <4>1. \A j : j \in 1 .. i + 1 <=> j \in 1 .. i \/ j = i + 1
        OBVIOUS
      <4>2. QED
        BY <4>1
    <3>7. QED
      BY <3>5, <3>6
  <2>9. n \in P
    <3>1. Nat \subseteq P
      <4> HIDE DEF P
      <4>1. QED
        BY <2>7, <2>8, OverNat
    <3>2. QED
      BY <3>1
  <2>10. met(n) = Inherited(sp) \cup joined
    BY <2>1, <2>3, <2>4
  <2>11. QED
    BY <2>1, <2>5, <2>9, <2>10
<1>2. QED
  BY <1>1, Derivations, PTL

----------------------------------------------------------------------------
(* The consensus order from one block to the next.                         *)

\* As many places as blocks, and every block in one of them: each has its own.
LEMMA OnePlaceEach ==
  ASSUME NEW S, IsFiniteSet(S), NEW s \in Seq(S), Len(s) = Cardinality(S),
         \A x \in S : \E i \in DOMAIN s : s[i] = x
  PROVE  \A i, j \in DOMAIN s : s[i] = s[j] => i = j
<1>1. Len(s) \in Nat /\ DOMAIN s = 1 .. Len(s) /\ s \in [1 .. Len(s) -> S]
  BY LenProperties
<1>2. IsFiniteSet(1 .. Len(s)) /\ Cardinality(1 .. Len(s)) = Len(s)
  <2>1. 1 \in Int /\ Len(s) \in Int
    BY <1>1
  <2> QED BY <1>1, <2>1, FirstNumbers
<1>3. s \in Surjection(1 .. Len(s), S)
  BY <1>1 DEF Surjection
<1>4. s \in Injection(1 .. Len(s), S)
  BY <1>2, <1>3, FS_Surjection
<1>5. \A i, j \in 1 .. Len(s) : s[i] = s[j] => i = j
  BY <1>1, <1>4 DEF Injection, IsInjective
<1> QED BY <1>1, <1>5

\* The order s of b, n blocks long, as a numbering of the view.
Numbers(s, n, b) ==
    /\ n \in Nat \ {0} /\ n = Cardinality(View(b))
    /\ s \in Seq(View(b)) /\ Len(s) = n /\ DOMAIN s = 1 .. n
    /\ \A i \in 1 .. n : s[i] \in View(b) /\ s[i] \in Held
    /\ \A x \in View(b) : \E i \in 1 .. n : s[i] = x
    /\ \A i, j \in 1 .. n : s[i] = s[j] => i = j
    /\ \A i, j \in 1 .. n : s[i] \in nodes[s[j]].parents => i < j

LEMMA OrderNumbers ==
  ASSUME DInv, NEW b \in Held
  PROVE  Numbers(ConsensusOrder(b), Cardinality(View(b)), b)
<1> DEFINE s == ConsensusOrder(b)
           S == View(b)
           n == Cardinality(S)
<1>1. Lists(s, b)
  BY OrdersList
<1>2. IsFiniteSet(S) /\ S \subseteq Held /\ b \in S
  BY Ancestry DEF View
<1> HIDE DEF s
<1>3. /\ s \in Seq(S) /\ Len(s) = n /\ \A x \in S : \E i \in DOMAIN s : s[i] = x
      /\ \A i, j \in DOMAIN s : s[i] \in nodes[s[j]].parents => i < j
  BY <1>1 DEF Lists
<1> HIDE DEF S
<1>4. n \in Nat /\ n # 0
  BY <1>2, FS_CardinalityType, FS_EmptySet
<1> HIDE DEF n
<1>5. DOMAIN s = 1 .. n /\ \A i \in 1 .. n : s[i] \in S
  BY <1>3, LenProperties
<1>6. \A i, j \in DOMAIN s : s[i] = s[j] => i = j
  BY <1>2, <1>3, OnePlaceEach DEF n
<1>7. Numbers(s, n, b)
  BY <1>2, <1>3, <1>4, <1>5, <1>6 DEF Numbers, n, S
<1> QED BY <1>7 DEF s, n, S

\* The whole past of a block stands before it.
LEMMA PastBefore ==
  ASSUME DInv, NEW b \in Held, NEW s, NEW n, Numbers(s, n, b),
         NEW i \in 1 .. n, NEW j \in 1 .. n, s[i] \in nodes[s[j]].past
  PROVE  i < j
<1> DEFINE T == {k \in 1 .. n : \E l \in 1 .. n : s[l] \in nodes[s[k]].past /\ ~(l < k)}
<1>1. SUFFICES ASSUME T # {} PROVE FALSE
  OBVIOUS
<1>2. T \in SUBSET Nat
  OBVIOUS
<1>3. PICK k \in T : \A m \in T : k <= m
  <2> HIDE DEF T
  <2> QED BY <1>1, <1>2, LeastNat
<1>4. PICK l \in 1 .. n : s[l] \in nodes[s[k]].past /\ ~(l < k)
  OBVIOUS
<1>5. k \in 1 .. n /\ s[k] \in View(b) /\ s[k] \in Held
  BY DEF Numbers
<1>6. s[k] # Genesis
  BY <1>4, Ancestry
<1>7. nodes[s[k]].past = PastOf(nodes[s[k]].parents) /\ nodes[s[k]].parents \subseteq nodes[s[k]].past
  BY <1>5, <1>6, Ancestry DEF DInv, DerivationsStand, Derives
<1>8. CASE s[l] \in nodes[s[k]].parents
  BY <1>4, <1>5, <1>8 DEF Numbers
<1>9. CASE \E p \in nodes[s[k]].parents : s[l] \in nodes[p].past
  <2>1. PICK p \in nodes[s[k]].parents : s[l] \in nodes[p].past
    BY <1>9
  <2>2. p \in View(s[k])
    BY <1>7, <2>1 DEF View
  <2>3. p \in View(b)
    BY <1>5, <2>2, Ancestry
  <2>4. PICK m \in 1 .. n : s[m] = p
    BY <2>3 DEF Numbers
  <2>5. m < k
    BY <1>5, <2>1, <2>4 DEF Numbers
  <2>6. m \notin T
    BY <1>3, <1>5, <2>5
  <2>7. l < m
    BY <2>1, <2>4, <2>6
  <2> QED BY <1>4, <1>5, <2>5, <2>7
<1> QED BY <1>4, <1>7, <1>8, <1>9 DEF PastOf

\* The order of a block ends with it.
LEMMA EndsAtTip ==
  ASSUME DInv, NEW b \in Held, NEW s, NEW n, Numbers(s, n, b)
  PROVE  s[n] = b
<1>1. PICK i \in 1 .. n : s[i] = b
  BY DEF Numbers, View
<1>2. n \in 1 .. n
  BY DEF Numbers
<1>3. CASE s[n] # b
  <2>1. s[n] \in nodes[s[i]].past
    BY <1>1, <1>2, <1>3 DEF Numbers, View
  <2>2. n < i
    BY <1>1, <1>2, <2>1, PastBefore
  <2> QED BY <1>1, <1>2, <2>2
<1> QED BY <1>3

\* Two orders agree up to the last block of the first, when the second has it
\* at the same place.
Agrees(x, y) ==
    Cardinality(View(x)) <= Cardinality(View(y))
      /\ ConsensusOrder(y)[Cardinality(View(x))] = x
    => \A i \in 1 .. Cardinality(View(x)) : ConsensusOrder(y)[i] = ConsensusOrder(x)[i]

\* A fresh block is heavier than no selected parent: one that stands where its
\* own view ends cannot hold all that stands before it.
LEMMA FreshStandsLate ==
  ASSUME DInv, NEW x \in Held, NEW y \in Held \ {Genesis}, x # y,
         NEW n, n = Cardinality(View(x)), NEW m, NEW s, Numbers(s, m, y), n \in 1 .. m, s[n] = x,
         NEW q \in Nat, q < n, \A a \in View(nodes[y].sp) : \E i \in 1 .. q : s[i] = a
  PROVE  FALSE
<1> DEFINE p == nodes[y].sp
           E == {s[i] : i \in 1 .. n - 1}
           past == nodes[x].past
<1>1. /\ Inv /\ x \in View(y) /\ x \in nodes[y].past
      /\ past \subseteq View(y) /\ IsFiniteSet(past) /\ x \notin past
  <2>1. x \in View(y)
    BY DEF Numbers
  <2>2. View(x) \subseteq View(y) /\ IsFiniteSet(View(x))
    BY <2>1, Ancestry
  <2>3. past \subseteq View(x)
    BY DEF View
  <2>4. IsFiniteSet(past)
    BY <2>2, <2>3, FS_Subset
  <2> QED BY <2>1, <2>2, <2>3, <2>4 DEF View, DInv, Inv, AncestryIsOrdered
<1>2. Cardinality(past) = n - 1
  <2>1. View(x) = past \cup {x}
    BY DEF View
  <2>2. Cardinality(past \cup {x}) = Cardinality(past) + 1 /\ Cardinality(past) \in Nat
    BY <1>1, FS_AddElement, FS_CardinalityType
  <2> QED BY <2>1, <2>2
<1>3. past \subseteq E
  <2> SUFFICES ASSUME NEW a \in past PROVE a \in E
    OBVIOUS
  <2>1. PICK i \in 1 .. m : s[i] = a
    BY <1>1 DEF Numbers
  <2>2. i < n
    BY <2>1, PastBefore
  <2> QED BY <2>1, <2>2
<1>4. IsFiniteSet(E) /\ Cardinality(E) <= n - 1
  <2>1. n - 1 \in Nat /\ IsFiniteSet(1 .. n - 1) /\ Cardinality(1 .. n - 1) = n - 1
    <3>1. n - 1 \in Nat
      OBVIOUS
    <3> QED BY <3>1, FirstNumbers
  <2> DEFINE f == [i \in 1 .. n - 1 |-> s[i]]
  <2>2. f \in Surjection(1 .. n - 1, E)
    BY DEF Surjection
  <2> HIDE DEF f, E
  <2>3. IsFiniteSet(E) /\ Cardinality(E) <= Cardinality(1 .. n - 1)
    BY <2>1, <2>2, FS_Surjection
  <2> QED BY <2>1, <2>3
<1>5. E = past
  <2> HIDE DEF E, past
  <2>1. Cardinality(past) <= Cardinality(E) /\ Cardinality(E) \in Nat
    BY <1>3, <1>4, FS_Subset, FS_CardinalityType
  <2>2. Cardinality(E) = Cardinality(past)
    BY <1>2, <1>4, <2>1
  <2> QED BY <1>3, <1>4, <2>2, FS_Subset
<1>6. p \in past
  <2>1. p \in View(p)
    BY DEF View
  <2>2. PICK i \in 1 .. q : s[i] = p
    BY <2>1
  <2>3. i \in 1 .. n - 1
    BY <2>2
  <2> QED BY <1>5, <2>2, <2>3
<1>7. nodes[p].score < nodes[x].score
  BY <1>1, <1>6 DEF Inv, AncestryIsOrdered
<1>8. PICK a \in nodes[y].parents : x = a \/ x \in nodes[a].past
  BY <1>1 DEF DInv, DerivationsStand, Derives, PastOf
<1>9. a \in Held /\ p \in Held /\ nodes[a].score <= nodes[p].score
  <2>1. a \in Held /\ IsSelected(p, nodes[y].parents) /\ p \in Held
    BY <1>8, Ancestry DEF DInv, DerivationsStand, Derives
  <2>2. nodes[a].score \in Nat /\ nodes[p].score \in Nat
    BY <1>1, <2>1 DEF Inv, TypeOK, Node
  <2> QED BY <1>8, <2>1, <2>2 DEF IsSelected, Precedes
<1>10. nodes[x].score <= nodes[a].score
  <2>1. nodes[a].score \in Nat /\ nodes[x].score \in Nat
    BY <1>1, <1>9 DEF Inv, TypeOK, Node
  <2> QED BY <1>1, <1>8, <1>9, <2>1 DEF Inv, AncestryIsOrdered
<1>11. nodes[x].score \in Nat /\ nodes[a].score \in Nat /\ nodes[p].score \in Nat
  BY <1>1, <1>9 DEF Inv, TypeOK, Node
<1> QED BY <1>7, <1>9, <1>10, <1>11

LEMMA PrefixOrder ==
  ASSUME DInv, NEW x \in Held
  PROVE  \A y \in Held : Agrees(x, y)
<1> DEFINE U == {y \in Held : ~Agrees(x, y)}
           R == {pair \in Held \X Held : nodes[pair[1]].height < nodes[pair[2]].height}
<1> SUFFICES ASSUME U # {} PROVE FALSE
  OBVIOUS
<1>1. IsFiniteSet(U) /\ U \subseteq Held
  BY FS_Subset DEF DInv, Inv, TypeOK
<1>2. PICK y \in U : \A z \in U : <<z, y>> \notin R
  <2>1. \A a \in Held, b \in Held : <<a, b>> \in R <=> nodes[a].height < nodes[b].height
    OBVIOUS
  <2>2. \A a \in Held : nodes[a].height \in Nat
    BY Ancestry
  <2> HIDE DEF U, R
  <2>3. /\ \A a \in U : <<a, a>> \notin R
        /\ \A a, b, c \in U : <<a, b>> \in R /\ <<b, c>> \in R => <<a, c>> \in R
    BY <1>1, <2>1, <2>2
  <2>4. QED
    BY <1>1, <2>3, FirstOne
<1>3. /\ y \in Held /\ ~Agrees(x, y)
      /\ \A z \in Held : nodes[z].height < nodes[y].height => Agrees(x, z)
  BY <1>2
<1> HIDE DEF U, R
<1> DEFINE s == ConsensusOrder(x)
           n == Cardinality(View(x))
           t == ConsensusOrder(y)
           m == Cardinality(View(y))
<1>4. Numbers(s, n, x) /\ Numbers(t, m, y)
  BY <1>3, OrderNumbers
<1>5. n <= m /\ t[n] = x /\ ~(\A i \in 1 .. n : t[i] = s[i])
  BY <1>3 DEF Agrees
<1>6. n \in Nat \ {0} /\ m \in Nat \ {0} /\ n \in 1 .. m
  <2> HIDE DEF n, m
  <2> QED BY <1>4, <1>5 DEF Numbers
<1>7. x # y
  BY <1>5
<1>8. y # Genesis
  <2> SUFFICES ASSUME y = Genesis PROVE FALSE
    OBVIOUS
  <2>1. t = <<Genesis>>
    BY OrderGrows
  <2>2. m = 1
    <3>1. Len(t) = 1
      BY <2>1
    <3> HIDE DEF t, m
    <3> QED BY <1>4, <3>1 DEF Numbers
  <2>3. n = 1
    BY <1>6, <2>2
  <2>4. t[1] = Genesis
    BY <2>1
  <2> QED BY <1>5, <1>7, <2>3, <2>4
<1> DEFINE p == nodes[y].sp
           r == ConsensusOrder(p)
           q == Cardinality(View(p))
<1>9. p \in Held /\ nodes[p].height < nodes[y].height
  BY <1>3, <1>8, Ancestry
<1>10. Numbers(r, q, p) /\ Agrees(x, p)
  BY <1>3, <1>9, OrderNumbers
<1>11. t = r \o Fresh(y)
  BY <1>3, <1>8, OrderGrows
<1>12. Fresh(y) \in Seq(Held) /\ r \in Seq(Held) /\ q \in Nat
  <2>1. Added(y) \subseteq Held
    BY <1>3, Ancestry DEF Added
  <2>2. Fresh(y) \in Seq(Added(y))
    BY <2>1, FreshLists DEF DInv, Inv
  <2>3. View(p) \subseteq Held
    BY <1>9, Ancestry
  <2> HIDE DEF r, q
  <2> QED BY <1>10, <2>1, <2>2, <2>3, SeqMonotonic DEF Numbers
<1>13. \A i \in 1 .. q : t[i] = r[i]
  <2> HIDE DEF r, t, q, p
  <2>1. Len(r) = q
    BY <1>10 DEF Numbers
  <2> QED BY <1>11, <1>12, <2>1, ConcatProperties, LenProperties
<1>14. CASE n <= q
  <2>1. r[n] = x
    BY <1>5, <1>6, <1>13, <1>14
  <2>2. \A i \in 1 .. n : r[i] = s[i]
    BY <1>10, <1>14, <2>1 DEF Agrees
  <2>3. \A i \in 1 .. n : i \in 1 .. q
    <3> HIDE DEF n, q
    <3> QED BY <1>6, <1>12, <1>14
  <2> HIDE DEF n, q, s, t, r
  <2> QED BY <1>5, <1>13, <2>2, <2>3
<1>15. CASE n > q
  <2>1. \A a \in View(p) : \E i \in 1 .. q : t[i] = a
    <3>1. \A a \in View(p) : \E i \in 1 .. q : r[i] = a
      <4> HIDE DEF r, q
      <4> QED BY <1>10 DEF Numbers
    <3> HIDE DEF r, q, t
    <3> QED BY <1>13, <3>1
  <2> HIDE DEF t, m, q
  <2> QED BY <1>3, <1>4, <1>5, <1>6, <1>7, <1>8, <1>12, <1>15, <2>1, FreshStandsLate
<1> QED
  <2> HIDE DEF n, q
  <2> QED BY <1>6, <1>12, <1>14, <1>15

----------------------------------------------------------------------------
(* What the orders of a Dag are, in one formula that holds again after a   *)
(* step.                                                                   *)

Grows ==
    /\ ConsensusOrder(Genesis) = <<Genesis>>
    /\ \A b \in Held \ {Genesis} : ConsensusOrder(b) = ConsensusOrder(nodes[b].sp) \o Fresh(b)

\* One tip precedes all others.
LEMMA OneBestTip ==
  ASSUME DInv
  PROVE  \E t \in Held : IsBestTip(t) /\ \A u : IsBestTip(u) => u = t
<1> DEFINE R == {pair \in tips \X tips : Precedes(pair[1], pair[2])}
<1>1. TypeOK /\ TipsCoverTheDag /\ Genesis \in Held /\ tips \subseteq Held
  BY DEF DInv, Inv, TypeOK
<1>2. IsFiniteSet(tips) /\ tips # {}
  BY <1>1, FS_Subset DEF TypeOK, TipsCoverTheDag
<1>3. \A x, y \in tips : <<x, y>> \in R <=> Precedes(x, y)
  OBVIOUS
<1>4. /\ \A x \in tips : ~Precedes(x, x)
      /\ \A x, y \in tips : x # y => Precedes(x, y) \/ Precedes(y, x)
      /\ \A x, y \in tips : Precedes(x, y) => ~Precedes(y, x)
      /\ \A x, y, z \in tips : Precedes(x, y) /\ Precedes(y, z) => Precedes(x, z)
  BY <1>1, PrecedesIsTotal
<1> HIDE DEF R
<1>5. /\ \A x \in tips : <<x, x>> \notin R
      /\ \A x, y, z \in tips : <<x, y>> \in R /\ <<y, z>> \in R => <<x, z>> \in R
  BY <1>3, <1>4, Zenon
<1>6. PICK t \in tips : \A u \in tips : <<u, t>> \notin R
  BY <1>2, <1>5, FirstOne
<1>7. \A u \in tips \ {t} : Precedes(t, u)
  BY <1>3, <1>4, <1>6
<1>8. IsBestTip(t)
  BY <1>7 DEF IsBestTip
<1>9. ASSUME NEW u, IsBestTip(u) PROVE u = t
  BY <1>4, <1>8, <1>9 DEF IsBestTip
<1> QED BY <1>1, <1>8, <1>9

\* A fresh set is listed the same after an insertion.
LEMMA FreshStays ==
  ASSUME DInv, NEW x \in Held \ {Genesis},
         \A y \in Held : /\ nodes'[y].past = nodes[y].past /\ nodes'[y].sp = nodes[y].sp
                         /\ nodes'[y].height = nodes[y].height
  PROVE  Fresh(x)' = Fresh(x)
<1> DEFINE S == View(x) \ View(nodes[x].sp)
           T == View(x)' \ View(nodes[x].sp)'
<1>1. S = T /\ S \subseteq Held
  <2>1. nodes[x].sp \in Held /\ View(x) \subseteq Held
    BY Ancestry
  <2>2. View(x)' = View(x)
    BY DEF View
  <2>3. View(nodes[x].sp)' = View(nodes[x].sp)
    BY <2>1 DEF View
  <2> QED BY <2>1, <2>2, <2>3
<1>2. ASSUME NEW z \in S
      PROVE  {y \in S : ByHeightThenId(y, z)} = {y \in T : ByHeightThenId(y, z)'}
  BY <1>1 DEF ByHeightThenId
<1> DEFINE F(i) == CHOOSE z \in S : Cardinality({y \in S : ByHeightThenId(y, z)}) = i - 1
           G(i) == CHOOSE z \in T : Cardinality({y \in T : ByHeightThenId(y, z)'}) = i - 1
<1>3. Fresh(x) = [i \in 1 .. Cardinality(S) |-> F(i)]
  BY Zenon DEF Fresh, Sorted
<1>4. Fresh(x)' = [i \in 1 .. Cardinality(T) |-> G(i)]
  BY Zenon DEF Fresh, Sorted
<1> HIDE DEF S, T
<1>5. ASSUME NEW i PROVE F(i) = G(i)
  <2>1. ASSUME NEW z
        PROVE  z \in S /\ Cardinality({y \in S : ByHeightThenId(y, z)}) = i - 1
                 <=> z \in T /\ Cardinality({y \in T : ByHeightThenId(y, z)'}) = i - 1
    BY <1>1, <1>2, Zenon
  <2> QED BY <2>1, Zenon
<1>6. Cardinality(S) = Cardinality(T)
  BY <1>1
<1> HIDE DEF F, G
<1> QED BY <1>3, <1>4, <1>5, <1>6

\* The orders of the blocks that were held stay.
LEMMA OrderStays ==
  ASSUME DInv, Grows', NEW b \in Header, NEW now, Insert(b, now)
  PROVE  /\ Held' = Held \cup {b.id} /\ b.id \notin Held
         /\ \A x \in Held : /\ View(x)' = View(x)
                            /\ ConsensusOrder(x)' = ConsensusOrder(x)
                            /\ nodes'[x].height = nodes[x].height
<1>1. /\ Held' = Held \cup {b.id} /\ b.id \notin Held
      /\ \A y \in Held : /\ nodes'[y].past = nodes[y].past /\ nodes'[y].sp = nodes[y].sp
                         /\ nodes'[y].height = nodes[y].height
  <2>1. TypeOK /\ b.id \notin Held /\ \E node : nodes' = Linked(b, node)
    BY DEF Insert, Accepts, DInv, Inv
  <2> QED BY <2>1, Entered
<1>2. \A x \in Held : View(x)' = View(x)
  BY <1>1 DEF View
<1> DEFINE U == {x \in Held : ConsensusOrder(x)' # ConsensusOrder(x)}
           R == {pair \in Held \X Held : nodes[pair[1]].height < nodes[pair[2]].height}
<1>3. SUFFICES ASSUME U # {} PROVE FALSE
  BY <1>1, <1>2
<1>4. IsFiniteSet(U) /\ U \subseteq Held
  BY FS_Subset DEF DInv, Inv, TypeOK
<1>5. PICK x \in U : \A z \in U : <<z, x>> \notin R
  <2>1. \A y \in Held, z \in Held : <<y, z>> \in R <=> nodes[y].height < nodes[z].height
    OBVIOUS
  <2>2. \A y \in Held : nodes[y].height \in Nat
    BY Ancestry
  <2> HIDE DEF U, R
  <2>3. /\ \A y \in U : <<y, y>> \notin R
        /\ \A y, z, w \in U : <<y, z>> \in R /\ <<z, w>> \in R => <<y, w>> \in R
    BY <1>4, <2>1, <2>2
  <2> QED BY <1>3, <1>4, <2>3, FirstOne
<1>6. /\ x \in Held /\ ConsensusOrder(x)' # ConsensusOrder(x)
      /\ \A z \in Held : nodes[z].height < nodes[x].height => ConsensusOrder(z)' = ConsensusOrder(z)
  BY <1>5
<1>7. x # Genesis
  BY <1>6, OrderGrows DEF Grows
<1>8. PICK p \in Held : p = nodes[x].sp /\ nodes[p].height < nodes[x].height
  BY <1>6, <1>7, Ancestry
<1>9. ConsensusOrder(p)' = ConsensusOrder(p)
  BY <1>6, <1>8
<1>10. Fresh(x)' = Fresh(x)
  BY <1>1, <1>6, <1>7, FreshStays
<1>11. ConsensusOrder(x)' = ConsensusOrder(p)' \o Fresh(x)'
  BY <1>1, <1>6, <1>7, <1>8 DEF Grows
<1>12. ConsensusOrder(x) = ConsensusOrder(p) \o Fresh(x)
  BY <1>6, <1>7, <1>8, OrderGrows
<1> QED BY <1>6, <1>9, <1>10, <1>11, <1>12

============================================================================
