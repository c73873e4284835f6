---------------------------- MODULE DagReplicas ----------------------------
(***************************************************************************)
(* Two nodes that hold a Dag each and receive the same blocks, each in its *)
(* own order and under its own clock.  The gossip that carries the blocks  *)
(* is not in the repository (it belongs to the network phase) and is       *)
(* external: a mined block may reach a node at any time, again and again,  *)
(* before its parents, or never.                                           *)
(***************************************************************************)
EXTENDS Integers, FiniteSets

CONSTANTS Ids, Genesis, K, MaxParents, Times, MaxFuture, Worked, MaxHeight

VARIABLES
    nodesA, tipsA,   \* the Dag of the first node
    nodesB, tipsB,   \* the Dag of the second node
    mined            \* the blocks in circulation: id -> block

vars == <<nodesA, tipsA, nodesB, tipsB, mined>>

A == INSTANCE Dag WITH nodes <- nodesA, tips <- tipsA
B == INSTANCE Dag WITH nodes <- nodesB, tips <- tipsB

\* Both nodes run the rules of one Dag: its assumption is theirs.
ASSUME ReplicasAssumption == A!DagAssumption

Init == A!Init /\ B!Init /\ mined = [x \in {} |-> {}]

\* A node builds a block on what it holds, enters it and sends it.
MineAtA(b, now) ==
    /\ b.id \notin DOMAIN mined
    /\ A!Insert(b, now)
    /\ mined' = [x \in DOMAIN mined \cup {b.id} |-> IF x = b.id THEN b ELSE mined[x]]
    /\ UNCHANGED <<nodesB, tipsB>>

MineAtB(b, now) ==
    /\ b.id \notin DOMAIN mined
    /\ B!Insert(b, now)
    /\ mined' = [x \in DOMAIN mined \cup {b.id} |-> IF x = b.id THEN b ELSE mined[x]]
    /\ UNCHANGED <<nodesA, tipsA>>

\* A block in circulation reaches a node.  One whose parents the node does
\* not hold yet, that it holds already, or that its clock finds too far in
\* the future is refused and changes nothing: it may come back later.
DeliverToA(id, now) ==
    /\ A!Insert(mined[id], now)
    /\ UNCHANGED <<nodesB, tipsB, mined>>

DeliverToB(id, now) ==
    /\ B!Insert(mined[id], now)
    /\ UNCHANGED <<nodesA, tipsA, mined>>

Next ==
    \/ \E b \in A!Block, now \in Times : MineAtA(b, now) \/ MineAtB(b, now)
    \/ \E id \in DOMAIN mined, now \in Times : DeliverToA(id, now) \/ DeliverToB(id, now)

Spec == Init /\ [][Next]_vars

----------------------------------------------------------------------------
(* Properties.                                                             *)

TypeOK == A!TypeOK /\ B!TypeOK

\* Every answer is deterministic in the accepted set alone: whatever order
\* the blocks came in, a block both nodes hold has the same derived state
\* in both, and nodes that hold the same blocks agree on everything.
SameBlocksSameAnswers ==
    /\ \A b \in A!Held \cap B!Held :
         nodesA[b] = [nodesB[b] EXCEPT !.children = nodesA[b].children]
    /\ A!Held = B!Held =>
         /\ nodesA = nodesB
         /\ tipsA = tipsB

\* Two nodes whose best tips differ do not hold the same blocks: one of them
\* lacks the best tip of the other.  A fork is never a disagreement about
\* what both hold, only a delay.
ForkIsOnlyDelay ==
    \A s \in tipsA, t \in tipsB :
        A!IsBestTip(s) /\ B!IsBestTip(t) /\ s # t =>
            s \notin B!Held \/ t \notin A!Held

\* A timestamp in the future of the clock that judged a block separates the
\* nodes only for a while: with a clock late enough, a node that holds the
\* parents of a circulating block can always enter it.
RefusalIsNotFinal ==
    \A id \in DOMAIN mined :
        /\ mined[id].parents \subseteq B!Held /\ id \notin B!Held
            => \E now \in Times : B!Accepts(mined[id], now)
        /\ mined[id].parents \subseteq A!Held /\ id \notin A!Held
            => \E now \in Times : A!Accepts(mined[id], now)

============================================================================
