------------------------------ MODULE DagOrder ------------------------------
(***************************************************************************)
(* The consensus order of a view (antumbra-dag/src/dag.rs, consensus_order)*)
(* and the coloring as the loop the code runs, the reference the           *)
(* declarative coloring of module Dag is compared with.                    *)
(***************************************************************************)
EXTENDS Dag, SequencesExt

\* S as a sequence, the smallest element under the strict order first.
Sorted(S, Before(_, _)) ==
    [i \in 1 .. Cardinality(S) |->
        CHOOSE x \in S : Cardinality({y \in S : Before(y, x)}) = i - 1]

\* The view of a block: its past and itself.
View(b) == nodes[b].past \cup {b}

\* Mutant: the ids alone.
ByIdAlone(a, b) == a < b

ByHeightThenId(a, b) ==
    \/ nodes[a].height < nodes[b].height
    \/ nodes[a].height = nodes[b].height /\ a < b

\* What the view of b adds over the view of its selected parent.
Fresh(b) == Sorted(View(b) \ View(nodes[b].sp), ByHeightThenId)

\* order(genesis) = <<genesis>>, order(b) = order(sp) then the fresh blocks.
ConsensusOrder(tip) ==
    LET order[b \in Held] ==
            IF nodes[b].sp = Zero THEN <<b>> ELSE order[nodes[b].sp] \o Fresh(b)
    IN  order[tip]

\* The coloring loop: the candidates by score then id, each tested against
\* the working set the earlier ones left.
ColoringLoop(b) ==
    LET ps == nodes[b].parents
        sp == nodes[b].sp
        Test(working, v) ==
            IF Cardinality(Anticone(v, working)) <= K THEN working \cup {v} ELSE working
    IN  FoldLeft(Test, Inherited(sp), Sorted(Candidates(ps, sp), Precedes))

----------------------------------------------------------------------------
(* Properties.                                                             *)

\* The order of a block lists its whole view, each block once, and no block
\* stands before one of its parents.
OrderIsTopological ==
    \A b \in Held :
        LET order == ConsensusOrder(b)
        IN  /\ Len(order) = Cardinality(View(b))
            /\ ToSet(order) = View(b)
            /\ \A i, j \in DOMAIN order :
                 order[i] \in nodes[order[j]].parents => i < j

\* The blue set stored at the insertion is what the coloring loop computes.
BluesAreTheLoop ==
    \A b \in Held \ {Genesis} : nodes[b].blues = ColoringLoop(b)

============================================================================
