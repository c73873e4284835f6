------------------------------- MODULE Store -------------------------------
(***************************************************************************)
(* The node store (antumbra-node/src/store.rs): the production form of the *)
(* Dag.  It keeps no past and no blue set.  A block with one parent is     *)
(* colored by arithmetic on its parent (the chain path); a merge is        *)
(* colored by a mirror of the reference Dag (the fork path), which lives   *)
(* while the store is small and is dropped afterwards, when a merge is     *)
(* refused.  The consensus order of the best tip is kept materialized.     *)
(*                                                                         *)
(* refNodes and refTips are not in the code: they are an independent       *)
(* reference Dag that receives every accepted block and is never dropped,  *)
(* the one the differential tests compare the store with.                  *)
(***************************************************************************)
EXTENDS Integers, FiniteSets, SequencesExt

CONSTANTS
    Ids, Genesis, K, MaxParents, Times, MaxFuture, Worked, MaxHeight,
    Window,     \* REFERENCE_WINDOW: the store size at which the mirror is dropped
    MaxWalk     \* MAX_ORDER_WALK: the longest walk that extends the order

VARIABLES
    nodes,                      \* id -> header fields, score, sp, children, fresh, orderLen
    tips,
    order, positions, orderTip, \* the materialized order of the best tip
    mirrorNodes, mirrorTips,    \* the mirror; never read again once dropped
    mirrorLive,
    refNodes, refTips           \* the independent reference

orderVars == <<order, positions, orderTip>>
mirrorVars == <<mirrorNodes, mirrorTips>>
refVars == <<refNodes, refTips>>
vars == <<nodes, tips, orderVars, mirrorVars, mirrorLive, refVars>>

\* The rule battery of the store is the reference's, on the store's nodes.
Rules == INSTANCE Dag
Mirror == INSTANCE DagOrder WITH nodes <- mirrorNodes, tips <- mirrorTips
Ref == INSTANCE DagOrder WITH nodes <- refNodes, tips <- refTips

ASSUME StoreAssumption == Rules!DagAssumption /\ Window \in Nat /\ MaxWalk \in Nat

Zero == Rules!Zero
Held == DOMAIN nodes

----------------------------------------------------------------------------
(* The selected-parent chain and the orders read from it.  ns is the node  *)
(* table and ts the tip set: the refresh runs on the tables the insertion  *)
(* has just written.                                                       *)

BestOf(ns, ts) ==
    CHOOSE t \in ts : \A u \in ts \ {t} :
        ns[t].score > ns[u].score \/ (ns[t].score = ns[u].score /\ t < u)

\* The chain of a tip, genesis first.
Chain(ns, tip) ==
    LET chain[b \in DOMAIN ns] ==
            IF ns[b].sp = Zero THEN <<b>> ELSE Append(chain[ns[b].sp], b)
    IN  chain[tip]

\* The fresh sets of the blocks of a chain segment, one after the other.
FreshOf(ns, segment) == FlattenSeq([i \in DOMAIN segment |-> ns[segment[i]].fresh])

RebuiltOrder(ns, tip) == FreshOf(ns, Chain(ns, tip))

\* Mutant: the last chain block is taken to be the walk.
WalkedBlindly(ns, best) ==
    LET chain == Chain(ns, best)
    IN  {SubSeq(chain, i + 1, Len(chain)) : i \in {j \in DOMAIN chain : Len(chain) - j = 1}}

\* The part of the chain of best above the materialized tip, when the walk
\* down from best meets that tip within MaxWalk steps.
Walked(ns, best) ==
    LET chain == Chain(ns, best)
    IN  {SubSeq(chain, i + 1, Len(chain)) :
            i \in {j \in DOMAIN chain : chain[j] = orderTip /\ Len(chain) - j <= MaxWalk}}

PositionsOf(seq) == [b \in ToSet(seq) |-> (CHOOSE i \in DOMAIN seq : seq[i] = b) - 1]

\* Mutant: a merge does not refresh the order.
RefreshOnChainPath(ns, ts) ==
    LET best == BestOf(ns, ts)
    IN  IF best = orderTip \/ Cardinality(ns[best].parents) > 1
        THEN UNCHANGED orderVars
        ELSE /\ \/ \E segment \in Walked(ns, best) :
                     LET added == FreshOf(ns, segment)
                     IN  /\ order' = order \o added
                         /\ positions' =
                              [b \in DOMAIN positions \cup ToSet(added) |->
                                 IF b \in ToSet(added)
                                 THEN Len(order) + PositionsOf(added)[b]
                                 ELSE positions[b]]
                \/ /\ Walked(ns, best) = {}
                   /\ order' = RebuiltOrder(ns, best)
                   /\ positions' = PositionsOf(RebuiltOrder(ns, best))
             /\ orderTip' = best

RefreshOrder(ns, ts) ==
    LET best == BestOf(ns, ts)
    IN  IF best = orderTip
        THEN UNCHANGED orderVars
        ELSE /\ \/ \E segment \in Walked(ns, best) :
                     LET added == FreshOf(ns, segment)
                     IN  /\ order' = order \o added
                         /\ positions' =
                              [b \in DOMAIN positions \cup ToSet(added) |->
                                 IF b \in ToSet(added)
                                 THEN Len(order) + PositionsOf(added)[b]
                                 ELSE positions[b]]
                \/ /\ Walked(ns, best) = {}
                   /\ order' = RebuiltOrder(ns, best)
                   /\ positions' = PositionsOf(RebuiltOrder(ns, best))
             /\ orderTip' = best

----------------------------------------------------------------------------

GenesisNode ==
    [parents |-> {Zero}, height |-> 0, time |-> 0, score |-> 1, sp |-> Zero,
     children |-> {}, fresh |-> <<Genesis>>, orderLen |-> 1]

Init ==
    /\ nodes = [x \in {Genesis} |-> GenesisNode]
    /\ tips = {Genesis}
    /\ order = <<Genesis>>
    /\ positions = [x \in {Genesis} |-> 0]
    /\ orderTip = Genesis
    /\ mirrorLive = TRUE
    /\ Mirror!Init
    /\ Ref!Init

IsMerge(b) == Cardinality(b.parents) > 1

\* What a merge that the mirror does not color gets: nothing, it is refused
\* (MergeBeyondWindow) before anything is written.
WithinWindow(b) == IsMerge(b) => mirrorLive

Entry(b, sp, score, fresh, orderLen) ==
    [parents |-> b.parents, height |-> b.height, time |-> b.time, score |-> score,
     sp |-> sp, children |-> {}, fresh |-> fresh, orderLen |-> orderLen]

\* Mutant: the view is taken to be as long as the chain is high.
ChainEntryByHeight(b) ==
    LET parent == CHOOSE p \in b.parents : TRUE
    IN  Entry(b, parent, nodes[parent].score + 1, <<b.id>>, b.height + 1)

\* The chain path: no candidate to color, nothing to materialize.
ChainEntry(b) ==
    LET parent == CHOOSE p \in b.parents : TRUE
    IN  Entry(b, parent, nodes[parent].score + 1, <<b.id>>, nodes[parent].orderLen + 1)

\* The fork path: the answers of a mirror that holds the block; fresh is the
\* suffix of its order over the order of its selected parent.
MirrorEntry(b) ==
    LET sp == mirrorNodes[b.id].sp
        whole == Mirror!ConsensusOrder(b.id)
        base == Mirror!ConsensusOrder(sp)
    IN  Entry(b, sp, mirrorNodes[b.id].score,
              SubSeq(whole, Len(base) + 1, Len(whole)), Len(whole))

\* The mirror enters every accepted block while it lives.
FeedMirror(b, now) ==
    IF mirrorLive THEN Mirror!Insert(b, now) ELSE UNCHANGED mirrorVars

\* A block the reference refuses leaves it behind, and the comparison below
\* shows it.
FeedReference(b, now) ==
    IF Ref!Accepts(b, now) THEN Ref!Insert(b, now) ELSE UNCHANGED refVars

\* The mirror enters the block first and the fork path reads it afterwards.
Insert(b, now) ==
    /\ Rules!Accepts(b, now)
    /\ WithinWindow(b)
    /\ FeedMirror(b, now)
    /\ FeedReference(b, now)
    /\ LET entry == IF IsMerge(b) THEN MirrorEntry(b)' ELSE ChainEntry(b)
           ns == Rules!Linked(b, entry)
           ts == (tips \ b.parents) \cup {b.id}
       IN  /\ nodes' = ns
           /\ tips' = ts
           /\ mirrorLive' = (mirrorLive /\ Cardinality(DOMAIN ns) < Window)
           /\ RefreshOrder(ns, ts)

Next == \E b \in Rules!Block, now \in Times : Insert(b, now)

Spec == Init /\ [][Next]_vars

----------------------------------------------------------------------------
(* Properties.                                                             *)

TypeOK ==
    /\ Genesis \in Held /\ Held \subseteq Ids
    /\ tips \in SUBSET Held
    /\ order \in Seq(Held)
    /\ orderTip \in tips
    /\ mirrorLive \in BOOLEAN
    /\ mirrorLive => Mirror!TypeOK
    /\ Ref!TypeOK

\* Store.insert promises what the reference computes: every score, selected
\* parent, child set, fresh set and view size, on the chain path as on the
\* fork path, before the window closes and after.
AgreesWithReference ==
    /\ Held = Ref!Held
    /\ tips = refTips
    /\ \A b \in Held :
         /\ nodes[b].score = refNodes[b].score
         /\ nodes[b].sp = refNodes[b].sp
         /\ nodes[b].children = refNodes[b].children
         /\ b # Genesis => nodes[b].fresh = Ref!Fresh(b)
         /\ nodes[b].orderLen = Cardinality(Ref!View(b))

\* The materialized order is the reference order of the best tip, and the
\* position table is its inverse, whichever mix of extensions and rebuilds
\* led there.
OrderIsTheReferenceOrder ==
    /\ Ref!IsBestTip(orderTip)
    /\ order = Ref!ConsensusOrder(orderTip)
    /\ DOMAIN positions = ToSet(order)
    /\ \A i \in DOMAIN order : positions[order[i]] = i - 1

\* A new best tip either stands directly on the old one, and its order only
\* appends, or it does not have the old one on its chain at all, and the
\* order is rebuilt: the bounded walk of refresh_order never extends by
\* more than one chain block.
ExtendsByOneOrRebuilds ==
    [][ orderTip' # orderTip =>
          \/ nodes'[orderTip'].sp = orderTip /\ IsStrictPrefix(order, order')
          \/ orderTip \notin ToSet(Chain(nodes', orderTip')) ]_vars

============================================================================
