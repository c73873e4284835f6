-------------------------------- MODULE Dag --------------------------------
(***************************************************************************)
(* The reference BlockDAG of the ordering layer (antumbra-dag/src/dag.rs): *)
(* the rule battery of an insertion, the greedy coloring, the selected     *)
(* parent, the mining tips and the best tip.                               *)
(*                                                                         *)
(* A block id is the Keccak hash of the header.  The hash is taken as      *)
(* injective: an id stands for one header, and ids are naturals because    *)
(* the code compares them (ties go to the smallest).  The canonical form   *)
(* of a header (a nonempty, bounded, strictly ascending parent list) is    *)
(* enforced by Header::read before a block reaches the Dag, so a parent    *)
(* list is a set here.                                                     *)
(***************************************************************************)
EXTENDS Integers, FiniteSets

CONSTANTS
    Ids,          \* the block ids that may appear
    Genesis,      \* the id of the genesis block
    K,            \* the anticone bound of the coloring
    MaxParents,   \* the structural limit on a parent list
    Times,        \* timestamps and clock readings
    MaxFuture,    \* the tolerated clock drift of the policy
    Worked,       \* the ids that carry the work the policy asks for
    MaxHeight     \* bound: the largest height a header announces

\* The zero hash: never a block id, the parent the genesis announces.
Zero == 0

ASSUME DagAssumption ==
    /\ Ids \subseteq Nat \ {Zero}
    /\ Genesis \in Ids
    /\ K \in Nat
    /\ MaxParents \in Nat
    /\ Times \subseteq Nat
    /\ MaxFuture \in Nat
    /\ Worked \subseteq Ids
    /\ MaxHeight \in Nat

VARIABLES
    nodes,   \* the accepted blocks: id -> header fields and derived state
    tips     \* the ids no accepted block builds on

vars == <<nodes, tips>>

\* The parent lists a canonical header may carry.
ParentLists == {P \in SUBSET (Ids \cup {Zero}) : P # {} /\ Cardinality(P) <= MaxParents}

\* What a peer or the miner offers.  rooted: the header's payload root
\* commits the transaction list that came with it.
Block == [id : Ids, parents : ParentLists, height : 0 .. MaxHeight,
          time : Times, rooted : BOOLEAN]

Held == DOMAIN nodes

\* The blocks that are offered once.  A block the Dag holds is refused like
\* any other it does not accept; module DagReplicas delivers those too.
Offered == [id : Ids \ Held, parents : ParentLists, height : 0 .. MaxHeight,
            time : Times, rooted : BOOLEAN]

----------------------------------------------------------------------------
(* The rule battery.                                                       *)

\* Mutant: one more than some parent is enough.
AnnouncesAnyHeight(b) == \E p \in b.parents : b.height = nodes[p].height + 1

\* One plus the maximum parent height, said without naming the maximum.
AnnouncesHeight(b) ==
    /\ \A p \in b.parents : nodes[p].height < b.height
    /\ \E p \in b.parents : b.height = nodes[p].height + 1

NotBehindParents(b) == \A p \in b.parents : nodes[p].time <= b.time

NotPastTheFuture(b, now) == b.time <= now + MaxFuture

\* Mutant: only a block on top of everything is accepted.
AcceptsOnTips(b, now) ==
    /\ b.rooted
    /\ b.id \notin Held
    /\ b.parents \subseteq tips
    /\ AnnouncesHeight(b)
    /\ NotBehindParents(b)
    /\ NotPastTheFuture(b, now)
    /\ b.id \in Worked

\* The zero-parent list and an unknown parent are both refused: Zero is
\* never held.
Accepts(b, now) ==
    /\ b.rooted
    /\ b.id \notin Held
    /\ b.parents \subseteq Held
    /\ AnnouncesHeight(b)
    /\ NotBehindParents(b)
    /\ NotPastTheFuture(b, now)
    /\ b.id \in Worked

----------------------------------------------------------------------------
(* The coloring.                                                           *)

\* Higher blue score first, then the smaller id: the order of selected
\* parents, of coloring candidates and of best tips.
Precedes(a, b) ==
    \/ nodes[a].score > nodes[b].score
    \/ nodes[a].score = nodes[b].score /\ a < b

\* Mutant: any of the heaviest.
IsSelectedByScore(sp, ps) == sp \in ps /\ \A p \in ps : nodes[sp].score >= nodes[p].score

IsSelected(sp, ps) == sp \in ps /\ \A p \in ps \ {sp} : Precedes(sp, p)

PastOf(ps) == ps \cup UNION {nodes[p].past : p \in ps}

Inherited(sp) == nodes[sp].blues \cup {sp}

Candidates(ps, sp) == PastOf(ps) \ (nodes[sp].past \cup {sp})

Anticone(v, S) == {u \in S : u # v /\ u \notin nodes[v].past /\ v \notin nodes[u].past}

\* Mutant: the candidates that joined earlier are forgotten.
IsGreedyAlone(joined, ps, sp) ==
    \A v \in Candidates(ps, sp) :
        v \in joined <=> Cardinality(Anticone(v, Inherited(sp))) <= K

\* joined is what the greedy walk over the candidates adds: a candidate
\* joins exactly when its anticone among the inherited blues and the
\* candidates that joined before it is within K.
IsGreedy(joined, ps, sp) ==
    \A v \in Candidates(ps, sp) :
        LET working == Inherited(sp) \cup {w \in joined : Precedes(w, v)}
        IN  v \in joined <=> Cardinality(Anticone(v, working)) <= K

\* The derived state of the new block.
NewNode(b, sp, blues) ==
    [parents |-> b.parents, height |-> b.height, time |-> b.time,
     past |-> PastOf(b.parents), blues |-> blues,
     score |-> Cardinality(blues) + 1, sp |-> sp, children |-> {}]

\* nodes with the new block entered and named as a child by its parents.
Linked(b, node) ==
    [x \in Held \cup {b.id} |->
        IF x = b.id THEN node
        ELSE IF x \in b.parents
             THEN [nodes[x] EXCEPT !.children = @ \cup {b.id}]
             ELSE nodes[x]]

----------------------------------------------------------------------------

GenesisNode ==
    [parents |-> {Zero}, height |-> 0, time |-> 0, past |-> {}, blues |-> {},
     score |-> 1, sp |-> Zero, children |-> {}]

Init ==
    /\ nodes = [x \in {Genesis} |-> GenesisNode]
    /\ tips = {Genesis}

\* Mutant: the parents stay tips.
InsertKeepingTips(b, now) ==
    /\ Accepts(b, now)
    /\ \E sp \in b.parents :
         /\ IsSelected(sp, b.parents)
         /\ \E joined \in SUBSET Candidates(b.parents, sp) :
              /\ IsGreedy(joined, b.parents, sp)
              /\ nodes' = Linked(b, NewNode(b, sp, Inherited(sp) \cup joined))
    /\ tips' = tips \cup {b.id}

\* Mutant: the newest block is the only tip.
InsertOnOneTip(b, now) ==
    /\ Accepts(b, now)
    /\ \E sp \in b.parents :
         /\ IsSelected(sp, b.parents)
         /\ \E joined \in SUBSET Candidates(b.parents, sp) :
              /\ IsGreedy(joined, b.parents, sp)
              /\ nodes' = Linked(b, NewNode(b, sp, Inherited(sp) \cup joined))
    /\ tips' = {b.id}

\* A refused block leaves the Dag as it was, which is a stuttering step.
Insert(b, now) ==
    /\ Accepts(b, now)
    /\ \E sp \in b.parents :
         /\ IsSelected(sp, b.parents)
         /\ \E joined \in SUBSET Candidates(b.parents, sp) :
              /\ IsGreedy(joined, b.parents, sp)
              /\ nodes' = Linked(b, NewNode(b, sp, Inherited(sp) \cup joined))
    /\ tips' = (tips \ b.parents) \cup {b.id}

Next == \E b \in Offered, now \in Times : Insert(b, now)

Spec == Init /\ [][Next]_vars

\* Mutant: any heaviest tip.
IsHeaviestTip(t) == t \in tips /\ \A u \in tips : nodes[t].score >= nodes[u].score

IsBestTip(t) == t \in tips /\ \A u \in tips \ {t} : Precedes(t, u)

----------------------------------------------------------------------------
(* Properties.                                                             *)

Node == [parents : SUBSET (Ids \cup {Zero}), height : Nat, time : Nat,
         past : SUBSET Ids, blues : SUBSET Ids, score : Nat,
         sp : Ids \cup {Zero}, children : SUBSET Ids]

TypeOK ==
    /\ Held \in SUBSET Ids
    /\ IsFiniteSet(Held)
    /\ Genesis \in Held
    /\ nodes \in [Held -> Node]
    /\ tips \in SUBSET Held

\* The past of a block is its transitive ancestry: closed, without the
\* block itself, and every announced quantity moves one way along it.
\* Heights increase strictly (what makes the sort of a fresh set
\* topological), timestamps never fall, blue scores increase strictly.
AncestryIsOrdered ==
    \A b \in Held : \A a \in nodes[b].past :
        /\ a \in Held
        /\ a # b
        /\ nodes[a].past \subseteq nodes[b].past
        /\ nodes[a].height < nodes[b].height
        /\ nodes[a].time <= nodes[b].time
        /\ nodes[a].score < nodes[b].score

\* The selected parent is blue, its blues survive, the blue set lives in
\* the past and the blue score is exact.
BluesSurvive ==
    \A b \in Held :
        /\ nodes[b].blues \subseteq nodes[b].past
        /\ nodes[b].score = Cardinality(nodes[b].blues) + 1
        /\ b # Genesis =>
             /\ nodes[b].sp \in nodes[b].parents
             /\ nodes[b].sp \in nodes[b].blues
             /\ nodes[nodes[b].sp].blues \subseteq nodes[b].blues

\* The tips are the childless blocks, and every accepted block is a tip or
\* lies under one: no accepted work is out of the miners' reach.
TipsCoverTheDag ==
    /\ \A b \in Held : b \in tips <=> nodes[b].children = {}
    /\ \A b \in Held : \E t \in tips : b = t \/ b \in nodes[t].past

\* The best tip, chosen among the tips alone, is the heaviest block of the
\* whole Dag: no interior block outweighs it.
BestTipIsHeaviest ==
    \A t \in tips : IsBestTip(t) =>
        \A b \in Held : nodes[b].score <= nodes[t].score

\* The weight of the best tip never falls, and what was derived for a block
\* at its insertion is never derived again differently.
WeightOnlyGrows ==
    [][ /\ \A t \in tips : \E u \in tips' : nodes[t].score <= nodes'[u].score
        /\ \A b \in Held : b \in Held' /\
             nodes'[b] = [nodes[b] EXCEPT !.children = nodes'[b].children] ]_vars

============================================================================
