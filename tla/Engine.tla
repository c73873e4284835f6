------------------------------- MODULE Engine -------------------------------
(***************************************************************************)
(* The node as one participant (antumbra-node/src/engine.rs): the ordered  *)
(* blocks, the transaction bodies, the ledger, the mempool and the wallet  *)
(* trackers, and the frontier between what is ordered and what is applied. *)
(*                                                                         *)
(* The store is the reference Dag here, with the order it materializes:    *)
(* module Store shows that the production store gives the same answers.    *)
(* A block the store refuses changes nothing and is left out.  After any   *)
(* other breach the day stops, and so does the model.                      *)
(***************************************************************************)
EXTENDS Wallet

CONSTANTS
    Ids, Genesis, K, MaxParents, Times, MaxFuture, Worked, MaxHeight,
    MaxTxs,          \* MAX_TXS: the payload limit, the coinbase included
    MaxPool,         \* bound: the transactions the script holds in the mempool
    MaxForeign,      \* bound: the transfers a remote block carries
    Plain,           \* bound: the ids only used while no transfer exists
    Known,           \* whether the bodies of a remote block are registered
    TwinsAllowed     \* whether one view may hold the same coinbase twice

VARIABLES
    nodes, tips,     \* the ordered blocks
    payload,         \* id -> the transactions the block commits
    bodies,          \* the transaction bodies in the engine's memory
    ledger, frontier,
    pool, claimed,
    trackers,        \* wallet -> its tracker
    checks,          \* the emission recomputed from the calendar
    breach

dagVars == <<nodes, tips>>
poolVars == <<pool, claimed>>
stateVars == <<ledger, frontier, trackers, checks>>
vars == <<dagVars, payload, bodies, stateVars, poolVars, breach>>

Dag == INSTANCE DagOrder
MP == INSTANCE Mempool

ASSUME EngineAssumption == Dag!DagAssumption

Wallets == {"miner", "alice", "bob"}
NoTrackers == [w \in Wallets |-> <<>>]
NoChecks == [emitted |-> 0, treasury |-> 0]

Held == DOMAIN nodes
Best == CHOOSE t \in tips : Dag!IsBestTip(t)
BestOrder == Dag!ConsensusOrder(Best)
OrderLen(b) == Cardinality(Dag!View(b))

----------------------------------------------------------------------------
(* Following an applied block.                                             *)

SlotApplied(c, slot) ==
    IF slot = 0 THEN c
    ELSE [emitted |-> c.emitted + RewardOfSlot(slot),
          treasury |-> c.treasury
             + (IF TreasuryActive(slot) THEN TreasuryShareOf(RewardOfSlot(slot)) ELSE 0)]

\* Each transaction of the payload, by id: its credits, then its debits, on
\* every wallet.
Followed(trs, slot, txs) ==
    LET Fold(tr, w) ==
            LET OneTx(acc, t) ==
                    Debit(CreditAll(acc, w, t, IF t.coinbase THEN slot ELSE NoSlot), Claims(t))
            IN  FoldLeft(OneTx, tr, Dag!Sorted(txs, Before))
    IN  [w \in Wallets |-> Fold(trs[w], w)]

\* payload_of: what the engine can say of a held block, and whether it has
\* every body of it.
Page(id) ==
    [id |-> id, height |-> nodes[id].height, txs |-> payload[id],
     whole |-> payload[id] \subseteq bodies]

BestPages == [i \in DOMAIN BestOrder |-> Page(BestOrder[i])]

\* One page applied to what the engine derives from the order: the ledger
\* first, which may refuse, then all that follows it.
TakesPage(r, page) == page.whole /\ BlockHolds(r.ledger, page.height, page.txs)

\* Mutant: a refused block moves the frontier all the same.
TurnedPast(r, page) ==
    IF r.ok /\ TakesPage(r, page)
    THEN [ledger |-> Commit(r.ledger, page.txs),
          trackers |-> Followed(r.trackers, r.ledger.applied, page.txs),
          checks |-> SlotApplied(r.checks, r.ledger.applied),
          frontier |-> page.id, ok |-> TRUE]
    ELSE [r EXCEPT !.ok = FALSE, !.frontier = page.id]

Turned(r, page) ==
    IF r.ok /\ TakesPage(r, page)
    THEN [ledger |-> Commit(r.ledger, page.txs),
          trackers |-> Followed(r.trackers, r.ledger.applied, page.txs),
          checks |-> SlotApplied(r.checks, r.ledger.applied),
          frontier |-> page.id, ok |-> TRUE]
    ELSE [r EXCEPT !.ok = FALSE]

Turn(pages, r) == FoldLeft(Turned, r, pages)

\* Mutant: the rebuild keeps the trackers it should reset.
BlankButTrackers == [ledger |-> New, trackers |-> trackers, checks |-> NoChecks,
                     frontier |-> Genesis, ok |-> TRUE]

Blank == [ledger |-> New, trackers |-> NoTrackers, checks |-> NoChecks,
          frontier |-> Genesis, ok |-> TRUE]

Current == [ledger |-> ledger, trackers |-> trackers, checks |-> checks,
            frontier |-> frontier, ok |-> TRUE]

----------------------------------------------------------------------------

Init ==
    /\ Dag!Init
    /\ payload = [b \in {Genesis} |-> {}]
    /\ bodies = {}
    /\ ledger = Commit(New, {})
    /\ frontier = Genesis
    /\ pool = {} /\ claimed = {}
    /\ trackers = NoTrackers
    /\ checks = NoChecks
    /\ breach = "none"

\* Mutant: only the length of the new order is compared.
LongEnough(pages) == Len(pages) >= ledger.applied

\* The applied slots end with the frontier in the new order.
ExtendsFrontier(pages) == Len(pages) >= ledger.applied /\ pages[ledger.applied].id = frontier

\* sync_ledger, over the order the insertion has just changed.  When it
\* extends the frontier the suffix is applied in place, and a refusal keeps
\* what was applied before it.  Otherwise everything is replayed from
\* nothing: a refusal then keeps the ledger and the frontier, but the
\* trackers and the checks are those of the partial replay.
SyncLedger(pages) ==
    LET extends == ExtendsFrontier(pages)
        r == IF extends
             THEN Turn(SubSeq(pages, ledger.applied + 1, Len(pages)), Current)
             ELSE Turn(pages, Blank)
    IN  /\ ledger' = IF extends \/ r.ok THEN r.ledger ELSE ledger
        /\ frontier' = IF extends \/ r.ok THEN r.frontier ELSE frontier
        /\ trackers' = r.trackers
        /\ checks' = r.checks
        /\ breach' = IF r.ok THEN "none" ELSE "ledger"

\* insert_block: the node's now is the timestamp of the block.
InsertBlock(b, txs) ==
    /\ Dag!Insert(b, b.time)
    /\ payload' = [x \in Held \cup {b.id} |-> IF x = b.id THEN txs ELSE payload[x]]
    /\ SyncLedger(BestPages')

\* A header on the given parents.
HeaderOn(id, parents, height, time) ==
    [id |-> id, parents |-> parents, height |-> height, time |-> time, rooted |-> TRUE]

\* The payload the assembler puts on a parent whose view has len blocks.
PayloadOn(height, len, transfers) ==
    transfers \cup {CoinbaseOf("miner", height, len, FeesOf(transfers))}

\* No transfer was ever made: the bound under which the plain ids are used.
NoTransfers == pool = {} /\ Transfers(bodies \cup UNION {payload[b] : b \in Held}) = {}

\* No two blocks of the view of the new block carry the same coinbase.
TwinFree(parents, txs) ==
    \A b \in Dag!PastOf(parents) :
        Coinbases(payload[b])
            \cap (Coinbases(txs) \cup UNION {payload[x] : x \in Dag!PastOf(parents) \ {b}}) = {}

\* register_payload: the bodies are kept for as long as the engine lives.
RegisterPayload(txs) == bodies' = bodies \cup txs

\* submit: admission at the slot a transaction would land in.
Submits(t) == MP!Admits(t, ledger, ledger.applied)

\* mine_and_apply: the pool is emptied into a block on the best tip.
MineAndApply(id, time) ==
    \E transfers \in SUBSET pool :
        LET b == HeaderOn(id, {Best}, nodes[Best].height + 1, time)
            txs == PayloadOn(b.height, OrderLen(Best), transfers)
        IN  /\ id \in Plain => NoTransfers
            /\ MP!IsTaken(transfers, MaxTxs - 1)
            /\ MP!Take(transfers)
            /\ RegisterPayload(txs)
            /\ InsertBlock(b, txs)

\* The attempt budget runs out: what was taken from the pool stays out of it.
MiningExhausted ==
    \E transfers \in SUBSET pool :
        /\ MP!IsTaken(transfers, MaxTxs - 1)
        /\ MP!Take(transfers)
        /\ RegisterPayload(PayloadOn(nodes[Best].height + 1, OrderLen(Best), transfers))
        /\ breach' = "mining"
        /\ UNCHANGED <<dagVars, payload, stateVars>>

\* A transfer another participant may put in a block: one this node has seen,
\* or another spend of an unspent output by its owner.
Rivals ==
    {SpendOne("miner", c.ref, c.amount, "bob", c.amount \div 2) :
        c \in {x \in ToSet(trackers["miner"]) : CanSpend(x.amount, x.amount \div 2)}}

RemoteTransfers == Transfers(bodies) \cup Rivals

\* A block mined elsewhere by the same wallet, the fork block of the tests:
\* the coinbase of its own view, a few transfers, the bodies registered by
\* hand or not.
RemoteBlock(id, parents, time) ==
    \E transfers \in UNION {kSubset(n, RemoteTransfers) : n \in 0 .. MaxForeign},
       known \in Known :
        LET height == CHOOSE h \in 1 .. MaxHeight :
                        /\ \A p \in parents : nodes[p].height < h
                        /\ \E p \in parents : nodes[p].height = h - 1
            txs == PayloadOn(height, Cardinality(Dag!PastOf(parents)), transfers)
        IN  /\ transfers # {} => (Held \cup {id}) \cap Plain = {}
            /\ id \in Plain => NoTransfers
            /\ TwinsAllowed \/ TwinFree(parents, txs)
            /\ RegisterPayload(IF known THEN txs ELSE {})
            /\ InsertBlock(HeaderOn(id, parents, height, time), txs)
            /\ UNCHANGED poolVars

\* The activity script: a wallet spends its oldest spendable output, one part
\* in n to the destination.  Nothing spendable is no step at all.  The driver
\* mines between two spends of one wallet.
Activity(wallet, destination, n) ==
    \E credit \in FirstSpendable(trackers[wallet], ledger.applied) :
        LET toAmount == credit.amount \div n
            t == SpendOne(wallet, credit.ref, credit.amount, destination, toAmount)
        IN  /\ Cardinality(pool) < MaxPool /\ Held \cap Plain = {}
            /\ \A u \in pool : \A input \in u.inputs : input.key # wallet
            /\ IF CanSpend(credit.amount, toAmount) /\ Submits(t)
               THEN MP!Admit(t) /\ UNCHANGED breach
               ELSE breach' = "activity" /\ UNCHANGED poolVars
            /\ UNCHANGED <<dagVars, payload, bodies, stateVars>>

ActivityMiner == Activity("miner", "alice", 3)
ActivityAlice == Activity("alice", "bob", 2)

Runs == breach = "none"

Next ==
    Runs /\ \/ \E id \in Ids \ Held, time \in Times : MineAndApply(id, time)
            \/ MiningExhausted
            \/ \E id \in Ids \ Held, parents \in SUBSET Held, time \in Times :
                   Cardinality(parents) \in 1 .. MaxParents /\ RemoteBlock(id, parents, time)
            \/ ActivityMiner
            \/ ActivityAlice

Spec == Init /\ [][Next]_vars

----------------------------------------------------------------------------
(* The invariant battery (antumbra-node/src/invariants.rs).                *)

\* check: the report after a block.
Check ==
    [conservation       |-> ledger.created = ledger.spentValue + ledger.emitted,
     slotAlignment      |-> /\ ledger.applied = OrderLen(Best)
                            /\ frontier = Best
                            /\ Len(BestOrder) = ledger.applied,
     emissionAccounting |-> ledger.emitted = checks.emitted,
     tipShape           |-> Cardinality(tips) = 1,
     mempoolHygiene     |-> claimed \cap ledger.spent = {}]

\* What the snapshot of the ledger holds for an address.
TruthOf(address) == {ref \in DOMAIN ledger.utxos : ledger.utxos[ref].to = address}

\* periodic: the treasury's balance, and for every wallet the outputs and
\* the balance its tracker says it has.
Periodic ==
    /\ ValueOf(TruthOf(Treasury)) = checks.treasury
    /\ \A w \in Wallets :
         /\ Unspent(trackers[w]) = TruthOf(w)
         /\ UnspentValue(trackers[w]) = ValueOf(TruthOf(w))

----------------------------------------------------------------------------
(* Properties.                                                             *)

TypeOK ==
    /\ Dag!TypeOK
    /\ DOMAIN payload = Held
    /\ frontier \in Held
    /\ ledger.applied \in 1 .. Cardinality(Held)
    /\ Transfers(pool) = pool
    /\ DOMAIN trackers = Wallets
    /\ breach \in {"none", "ledger", "mining", "activity"}

\* ADR-024, the incremental ledger is the rebuilt one: whatever mix of
\* suffixes and rebuilds led here, a running node stands at the best tip and
\* everything it derived is the replay of the best order from nothing.
RunningNodeIsTheReplay ==
    Runs => /\ frontier = Best
            /\ Current = Turn(BestPages, Blank)

\* A rejection leaves the ledger at a block: after a breach too, the ledger
\* is the replay of the order of some held block up to the frontier.
LedgerEndsAtTheFrontier ==
    \E t \in Held :
        LET order == Dag!ConsensusOrder(t)
            pages == [i \in 1 .. ledger.applied |-> Page(order[i])]
        IN  /\ Len(order) >= ledger.applied
            /\ order[ledger.applied] = frontier
            /\ Turn(pages, Blank).ledger = ledger

\* The verdicts of the battery on a running node, with and without the
\* checks it makes from time to time, are those of ADR-025: the applied slots
\* end at the best tip, the emission and the treasury are what the calendar
\* gives, and every tracker is the ledger's truth, after whatever suffixes,
\* rebuilds and spends (invariants.rs check, periodic).  The tip shape is
\* about a solo network, and the hygiene has a property of its own.
Battery ==
    Runs => /\ Check.conservation /\ Check.slotAlignment /\ Check.emissionAccounting
            /\ Periodic

\* coinbase.rs: no two blocks share a slot, which keeps the emission unique
\* over any DAG shape.  The unspent outputs carry all that was emitted.
EmissionIsUnique ==
    Runs => ValueOf(DOMAIN ledger.utxos) = ledger.emitted

\* ADR-025, mempool hygiene: no admitted transaction claims a spent output.
MempoolHygiene == Check.mempoolHygiene

\* wallet.rs: an output of at least the minimum spend is not dust, the script
\* spends it, and dust is never a breach.
ActivityNeverBreaches == breach # "activity"

\* The claims are exactly the inputs of the admitted transactions, and two of
\* them never claim one output.
ClaimsAreExact ==
    /\ claimed = Consumed(pool)
    /\ \A t, u \in pool : t # u => Claims(t) \cap Claims(u) = {}

=============================================================================
