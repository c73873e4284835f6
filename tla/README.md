# A TLA+ model of Antumbra

Antumbra (`code/crates/`) is a BlockDAG chain with an ordering layer, a UTXO
ledger, a development node that drives both, and a set of protocol state
machines (validators, reputation, agents, jobs, governance, immunity) that are
libraries today. This directory models it: which blocks a node accepts, how it
orders them, what the ledger makes of the order, how the node keeps the two in
step while blocks, merges and reorganisations arrive; what finality and the
reputation behind it promise; how upgrades are voted, ramped, frozen and
resolved; how a machine account is spent, revoked and collected and how its jobs
are auctioned, contested and paid; and how every container is written, signed,
changed on its way and read. TLC checks the models on small instances; TLAPS
proves, for every value of the constants, the invariants of the ordering layer,
the agreement of two nodes, that the production store is the reference Dag, the
accounting of the ledger down to the supply, that the node's incremental ledger is
the one a rebuild gives and that its invariant battery reads true, the
accountability of finality and the fairness of its draw, the rules of the forge,
the wall of a warrant, the auction, and that every container has one word which a
reader takes as what was written and signed.

To run: `tlc -config X.cfg M` for a row of the table of runs, `tlapm M.tla` for
the proof modules `Induction`, `DagProofs`, `DagReplicasProofs`, `StoreProofs`,
`LedgerProofs`, `EngineProofs`, `ForgeProofs` and `MarketRelayProofs`. The longest,
`StoreProofs`, `EngineProofs` and `MarketRelayProofs`, take about ten minutes each
from nothing.

## 1. Inventory

| component | code | state | operations | interacts with |
|---|---|---|---|---|
| Reference BlockDAG | `antumbra-dag/src/dag.rs`, `header.rs`, `block.rs`, `pow.rs` | nodes (header, past, blues, score, selected parent, children), tips | `new`, `insert`, queries (`best_tip`, `consensus_order`, ...) | mirrored by the store; reference of the differential tests |
| Node store | `antumbra-node/src/store.rs` | the same without pasts and blues; fresh sets, view sizes; the materialized order; a mirror of the reference | `new`, `insert` (chain path, fork path), `refresh_order`, `rebuild_order` | feeds the mirror, read by the engine |
| Emission calendar | `antumbra-state/src/coinbase.rs` | none | `reward_of_slot`, `treasury_share_of`, `expected_coinbase` | ledger, wallet, engine checks |
| State ledger | `antumbra-state/src/ledger.rs` | unspent entries, spent references, applied slots, created / spent / emitted counters | `apply_block` (validate, then commit), `apply_order` | the engine applies the order to it, the mempool reads it |
| Transaction layer | `antumbra-tx/src` | none | build, encode, `validate`, sign | mempool, wallet |
| Mempool | `antumbra-node/src/mempool.rs` | admitted transactions, claimed outputs | `admit`, `take` | reads the ledger, emptied by assembly |
| Wallet and tracker | `antumbra-node/src/wallet.rs` | credits in order of application | `coinbase`, `spend_one`, `credit`, `debit`, `first_spendable` | followed and reset by the engine |
| Engine | `antumbra-node/src/engine.rs` | all of the above, the bodies, the frontier, the checks | `boot`, `assemble`, `mine_and_apply`, `insert_block`, `sync_ledger`, `rebuild_ledger`, activity script, `run_day` | composes everything |
| Invariant battery | `antumbra-node/src/invariants.rs` | none | `check`, `periodic` | reads the engine |
| Ring | `antumbra-ring/src` | rosters, collected seat signatures | `sign`, `verify`, `finalized`, equivocation evidence | Kleos (the reset) |
| Kleos | `antumbra-kleos/src` | scores | update, decay, seat draw | Ring, Forge |
| Agents | `antumbra-agents/src` | warrant (bond, nonce, wall), stream state | `spend`, `batch`, `tick`, `revoke`, drain, receipts | jobs |
| Jobs | `antumbra-jobs/src` | jobs, submissions | auction, submission, contest window, pay | agents |
| Forge | `antumbra-forge/src` | proposal machine, parameter registry, tallies | `transition`, `change`, `tally`, `quorum_ok`, `merge_ok` | Thymus events |
| Immune | `antumbra-immune/src` | Thymus (freeze, corroborations, clocks), canary counters | `inject`, `observe`, `resolve` | Forge |
| Veil, primitives | `antumbra-veil/src`, `antumbra-primitives/src` | none | curve arithmetic, hashes, keys, encodings | everything |
| Status, CLI, scripts, simulations, CI | `antumbra-node/src/{status,cli}.rs`, `ci/`, `code/scripts/`, `simulations/` | none | reports, vectors, tables | - |

The repository has no network code: gossip belongs to a later phase of the
project, and the only multi-node code is in tests. There are no threads and
nothing is persisted, so there is no crash recovery to model. The protocol crates
(ring, kleos, forge, immune, agents, jobs) are functions without a caller: their
callers are modelled as anybody, in any order. What is hard is:

* **order of arrival.** Every derived quantity of a block must depend on its
  past alone, whatever order blocks came in, and two nodes must agree;
* **incremental forms of a reference.** The store recolors nothing on the chain
  path, copies a mirror on the fork path, drops the mirror, and appends to an
  order it would otherwise rebuild; the engine applies a suffix to the ledger
  it would otherwise replay. Each must equal its reference;
* **the total order of spends.** In-block chains and double spends, maturity by
  slot, rewards by slot while coinbases are priced by the parent's view;
* **partial failure.** A suffix or a rebuild that a block refuses half-way, a
  body that never came, a mining budget that runs out after the mempool was
  emptied;
* **participants that follow no protocol.** Signatures under seats their key
  does not hold, forks of a finalized sequence, evidence that arrives eras
  later, scores that recover after a conviction;
* **calls nobody ordered.** Alerts late or at height zero, freezes in the middle
  of a ramp, a revocation while payments, streams, submissions and a drain are
  under way;
* **words changed on the way.** Lists in another order, padded varints, a
  transfer some of whose inputs are signed;
* **boundaries.** The last slot of an eclipse and of the treasury, the window
  of the store, the value at which an output stops being dust, a share rounded
  down next to a third, the last tick of a clock that saturates.

What makes each component correct, in one line: the Dag gives every block one
derived state, ordered along ancestry, and a best tip that outweighs
everything; the store answers like the Dag; the ledger lets the first spender
of the order win and puts exactly the calendar into circulation; the engine's
ledger, trackers and checks are at every moment the replay of an order; the
mempool claims exactly what it holds; a fork of finality convicts a third of
the Ring, and a reputation is earned from others and lost for good; upgrades are
frozen on evidence only and ramp stage by stage; a bond never pays more than was
granted and nothing after its wall; every value has one word, and what is
accepted is what its owners signed. The hazards behind these are listed at their
lines in `PROJECT.json`.

## 2. Modules and the code they model

| module | models | composes |
|---|---|---|
| `Dag` | `Dag::new`, `Dag::insert`, `Dag::best_tip` | |
| `DagOrder` | `Dag::consensus_order`; the coloring as the loop the code runs | extends `Dag` |
| `DagReplicas` | two nodes and the gossip between them (external) | two instances of `Dag` |
| `Store` | `Store::insert`, `refresh_order`, `rebuild_order` | `Dag` (rules), `DagOrder` twice (mirror, reference) |
| `Emission` | the calendar | |
| `LedgerRules` | `validate_block`, `validate_coinbase`, `validate_transfer`, `commit_block`, as operators on a ledger value | extends `Emission` |
| `Ledger` | the ledger as a machine, with the history of what it applied | extends `LedgerRules` |
| `Wallet` | `Wallet::coinbase`, `spend_one`, the tracker | extends `LedgerRules` |
| `Mempool` | `admit`, `take` | extends `Wallet` |
| `Engine` | `Engine`, the activity script, blocks from elsewhere | extends `Wallet`, instances of `DagOrder` and `Mempool` |
| `Kleos` | the score machine and the weighted draw, as operators | |
| `Ring` | checkpoints, rosters and equivocation evidence over the scores | extends `Kleos` |
| `Thymus` | alert intake, corroboration slots, freeze, resolve, canaries | |
| `Senate` | the damped tally, the quorum, the merge predicate | |
| `Forge` | the proposal machine, the parameter registry | extends `Thymus`, `Senate` |
| `Warrant` | mandates, spends, batches, the stream, receipts, the wall and the drain | |
| `Market` | certifications, auction, submissions, contests, pay | extends `Warrant` |
| `Wire` | varints, the writer, the strict reader | |
| `Containers` | transactions, headers, blocks, checkpoints, evidence, authorities on the wire; transaction rules and fees | extends `Wire` |
| `Relay` | one container signed, sent, changed, lost and received | extends `Containers` |
| `Induction` | lemmas only: induction over numbers and finite sets, what sums and loops over the community modules' folds compute, ranks | |
| `...Proofs` | theorems about the module they are named after | `DagReplicasProofs` and `StoreProofs` instantiate `DagProofs` twice each, `EngineProofs` once, and extends `LedgerProofs` for what the rules say of one block; `ForgeProofs` is also about `Thymus`, `Senate` and `Ring`; `MarketRelayProofs` is about `Market`, `Warrant`, `Relay` and the modules these extend |
| `MC...` | the instances TLC checks | |

**Dag.** An id is a natural: the code compares ids, and only that matters of a
hash that is taken as injective. A parent list is a set, because
`Header::read` refuses lists that are not strictly ascending; the zero hash is
`Zero`, never held, so the zero-parent rule and the unknown-parent rule are one
conjunct. `rooted` says whether the header commits the list that came with it,
`Worked` which ids meet the policy. `Insert` is the whole of `Dag::insert`; the
greedy coloring is stated declaratively (`IsGreedy`: a candidate joins exactly
when its anticone among the inherited blues and the earlier joiners is within
`K`), and `BluesAreTheLoop` checks that the loop of the code computes the same
set. (The rule is a greedy walk over candidates; the model says nothing about
optimal k-clusters.) A refused block is a stuttering step: the code checks every
rule before it writes.

**Store.** `nodes` carries what `NodeData` carries. `Insert` feeds the mirror
first, reads it for a merge, links the block, drops the mirror when the window
fills, refreshes the order. `refNodes`, `refTips` are an observer, the
reference Dag of the differential tests, which is never dropped.

**LedgerRules, Ledger.** A transaction is a record and stands for its own id, a
hash of its content; a reference is a transaction with an output index; an
address stands for its spend key. A payload is a set, since the code requires
its ids strictly ascending; `Before` is the order of ids, and the scratch of
the code is "the transfers of the block that come before". `Commit` writes
outputs before it removes what was consumed, over any entry a reference already
had, as the code does. In `Ledger`, `state` is the ledger value and `history` an
observer. `Novel` is a condition on the
blocks offered: coinbases of one order are distinct transactions. The ledger
does not check it and finding 1 below shows what happens without it.

**Engine.** One action per entry point: `MineAndApply`, `MiningExhausted` (the
transactions taken are gone), `RemoteBlock` (a block from elsewhere, built as
the fork blocks of `tests/day.rs` are: one or two parents, the coinbase of its
own view, transfers the node has seen or rival spends, bodies known or not),
`ActivityMiner`, `ActivityAlice`. `SyncLedger` is `sync_ledger` with both
branches: an in-place suffix that keeps what preceded a refusal, and a rebuild
that resets trackers and checks before it replays and, when refused, keeps the
old ledger and frontier. The first breach stops the day (`run_day` returns), so
it stops the model. The store is the reference Dag here: `Store` shows the two
give the same answers. `Check` and `Periodic` are the invariant battery, clause
by clause; `Plain` lists the ids of blocks that are only offered while no
transfer exists, which is how one run reaches a depth of five.

**Kleos, Ring.** A score is the record of the code; the transitions are the
functions of `score.rs` one by one, the discounts and the cap of an era
included. The words of the draw come from a hash of an entropy nobody chooses:
they are a constant sequence, and `DrawFollowsTheWeights` counts over all words
what the selection does with them. A key stands for its identity, a signature
for the fact that a key signed a message under a seat; `signatures` only grows,
and the checkpoints a node may be handed (`Checkpoints`) are all the lists of
existing signatures that `decode` accepts, so lost, repeated and partial relays
need no action of their own. `Sign` is `Checkpoint::sign`, which compares
neither the key with the roster nor the seat with its size; `HonestSigns` adds
what the ADRs ask of a seat (its own seat, the era at hand, one message of a
sequence), `OtherSigns` adds nothing. `StripSeat` shows any evidence that
verifies, in any later era and again. The crates are libraries: that an era
turns, that candidates are drawn into the roster and that evidence resets a
score is external and follows the ADRs.

**Thymus, Senate, Forge.** The corroboration slots are a function from reporters
to what they last flagged, as many as the quorum, emptied by a freeze and by
nothing else. A canary's deviation is an alert of height zero that goes through
the same intake. `filed` and `cause` are the history the two properties of a
freeze need: what was accepted since the last freeze, and what froze. The Senate
keeps its tally vote by vote, in any order, with the damping of repeated votes
of one family and the overflow slot of the table; `Decide` evaluates the clauses
of `merge_ok` in their order over any facts. A proposal is its state, with the
percent of a ramp; `Road` lists the arrows that depend on the state alone and
the others have an action each. The events `ThymusFreeze` and `ThymusResolve` are
bound to what the Thymus says, all others come at any time. The registry carries
the code's four parameters and bands (`Genesis`).

**Warrant, Market.** Agent, sponsor and clock move in any order. `Moves` is the
whole of `Warrant::spend` and is shared with `Batch`, which books its total on
its first destination after checking all. The nonce wraps at `NonceSpan`, ticks
saturate at `TickMax`. The stream reads only whether the warrant is revoked. A
receipt's commitment is the pair of its fact and salt. The board of `Market`
keeps one certification, one submission per job and the bids of one auction;
`contest` is a stateless function of the code, so who calls it, and that a
settled submission is closed, is external. What a settlement pays and what a slash
takes is recorded (`payout`) and no property reads it. `honoured` is history: the
receipts opened while the warrant lived.

**Wire, Containers, Relay.** A fixed-width field is one number on the wire;
varints keep their groups, so that padding, truncation and order can go wrong as
they do in bytes. A reader is a record that stops at its first refusal. Each
container has the writer and the reader of the code, with the limits, the order
checks and the fields that must hold; the constructors check nothing, hence a
sender may hold a value its own reader refuses. `Sign` stops at the first wrong
key and keeps the signatures made so far; `Collect` appends in order of arrival.
The relay may set, drop, insert or pad a field and exchange two neighbouring
stretches. A signature is ideal (it verifies only what its key signed) and the
digest has no collisions. Writing and reading a varint are recursive functions, a
digit a turn as in the loops of `varint.rs`. `RelayAssumption` says what a sender may
have in hand (any value of the type of its container, a transaction unsigned) and
that the limits of the lists fit a varint: the largest in the code is 512, two
groups of the ten.

## 3. Runs

| run | bounds | what it shows |
|---|---|---|
| `dag` | 6 blocks, <= 3 parents, K = 1, genesis id in the middle | every Dag of that size in every order of arrival: coloring, tips, weights, order |
| `dag_replicas` | 5 ids of which one lacks work, 2 clock values, K = 1 | two nodes agree on every block both hold; a fork is a missing block; a refusal by the clock is not final |
| `store` | 6 blocks, window 5, walk 2, K = 1 | the production store is the reference, across mirror drop, refused merges, extensions and rebuilds |
| `ledger` | 2 eclipses of 3 slots, one with treasury, maturity 2; 6 transfers, 18 coinbases, most of them wrong somewhere | supply, treasury and double-spend rules over every sequence of valid blocks |
| `engine` | 5 blocks of which the fifth comes while no transfer exists, pool of 2, one foreign transfer, maturity 1, eclipses of 2 slots | suffixes, suffixes refused half-way, rebuilds, rivals, missing bodies, exhausted mining, the script |
| `ring` | 4 identities of which one follows no protocol, 3 seats, quorum 2, 3 eras, 4 messages, one fraud, liability or imposture | forks leave evidence, evidence convicts the right ones, the convicted stay out, the draw follows the weights, Echo is earned from others |
| `forge` | 3 sentinels and a canary, 2 invariants, quorum 2, window 1, heights 0..2; 4 families, 2 weights, 2 votes each; 1 proposal, 3 stages; 1 parameter of the genesis, 3 changes | freezes have evidence and agreement freezes, ramps are climbed, changes are spaced, three families never pass |
| `market_relay` | 3 well-formed mandates of 10, bonds of 3 and 4, nonces modulo 3, ticks 0..5, drain and contest of 2; 5 jobs of which 2 are well formed and permitted; 3 bids. On the wire 10 transactions, 7 headers, 6 blocks, a checkpoint, 2 pieces of evidence, an authority; 2 keys, groups of one bit, 2 changes on the way | the bond is accounted, the wall holds, flights land before the drain, the auction ignores order, everything settles; one word per value, no reordering or repackaging, what is sent is read, what is accepted was signed |
| `twin_coinbases`, `stale_claims`, `dust_at_the_minimum` | 4 blocks each | findings 1 to 3 |
| `opened_then_revoked` | those of `market_relay` | finding 4 |

*Why the bounds are enough for what they ask.* Six blocks hold two nested
merges and an anticone of two against K = 1 (a refused candidate); three parents
are what it takes, at K = 1, for a candidate whose admission depends on an
earlier joiner; the genesis id sits between the others so that ties are decided
both ways against it. In `store` the window
closes with one or two blocks still to come, so merges are both colored and
refused, and chains grow over merges after the mirror is gone; the walk bound is
shorter than the longest chain. In `ledger` six slots cross an eclipse and the
end of the treasury, and the remainder of each eclipse is neither zero nor the
whole; every transfer rule is broken by some member of the catalogue. In
`engine` four blocks suffice for a fork that overtakes the frontier (a rebuild)
and a merge that extends it by two; the fifth, while only coinbases move, adds a
refusal in the middle of a suffix. In `ring` the candidates outnumber the seats
when all work and are fewer when two of them form a clique; the scale of the
layers lets an identity regain the threshold in one era, so that a convicted one
would return if its Tenure did not die; the messages are a fork, a second
sequence and the same sequence in the next era. In `forge` three sentinels are
one more than the slots, two invariants and a window of one fill them with what
does not agree; four families of unequal weights reach shares on both sides of
the cap, and three equal ones sit between 330 per mille and a third. The parts
that share no variable (the variable `part` of `MCForge` and `MCMarketRelay`) are
explored side by side and not in their product: the clocks, the quorum, the
proposals and the Senate beside a Thymus that freezes and resolves, the registry;
the bond, the receipts and the flights each beside the revocation, the auction, and
the relay, which shares no variable with the market and starts when its clock has
run out.
Symmetry over sentinels and invariants is sound, since no guard or property
tells them apart, and the view of `forge` leaves out only metrics and history
that no property or guard reads. In `market_relay` five ticks hold a revocation, its
drain and a submission on either side of it, and the saturation of the last
tick; and two changes on the wire suffice to undo a form and to restore its length;
every limit has a container below, at and above it. `CHECK_DEADLOCK FALSE` is set
because ids, slots, blocks, ticks and votes run out, and because a day ends at
its first breach.

The constants replace large numbers by small ones with the same structure:
K = 8 by 0 or 1, a window of 1,024 by 5, eclipses of 63,115,200 slots by 2 or
3, a maturity of 10 by 1 or 2, a treasury numerator of 618/10,000 by 1/4. Amounts
are unbounded: every sum of the code stays below the monetary cap, which fits in
64 bits. Slots stay in the calendar (`LedgerAssumption`), since
`reward_of_slot` indexes past its table after 34 eclipses. In `ring` 55 seats and
a quorum of 37 become 3 and 2 (the theorem holds for any), the thousands of the
score layers single digits. In `forge` a window of 10 heights becomes 1 and the
cooldown 2, in `market_relay` 288 ticks become 2 and a thousand of per mille 4,
groups of seven bits become groups of one and a kibibyte ten fields.

Type invariants are theorems of the modules that are proved about and were
checked with TLC while the proofs were built; no run repeats them.

**Fairness.** The node is a sequential driver that acts when it is called:
nothing in the code promises that a block arrives or that mining succeeds, the
day may stop at a breach, and no liveness is stated of it. The one liveness
property, `EverythingSettles` of `Market`, assumes of the environment that time
passes (`WF` of `Time`), that the sponsor collects what `drain_ready` releases
(`WF` of `Drain`) and that the board closes a submission whose window is over
(`WF` of `Contest(j, FALSE)`); agent, bidders and auditors owe nothing. What the
code adds is that the waiting ends: the delay from a revocation saturates at the
last tick instead of passing it, and a contest outside its window is settled
whatever is claimed.

## 4. What the runs found

1. **A coinbase can be applied twice** (`twin_coinbases`). A coinbase contains
   its block's height, not its slot. Two blocks of one height, by one miner,
   with one reward and equal fees carry the same coinbase; a block that merges
   them puts both in one order, the ledger applies both (`validate_coinbase`
   has no collision rule, `validate_transfer` has one), the second entry
   overwrites the first, and both rewards are counted as created and emitted
   while one output exists. `coinbase.rs` and ADR-024 say that slots keep the
   emission unique over any DAG shape. The conservation check of the battery
   does not see it, because it compares counters with counters.
2. **Admitted transactions may claim spent outputs** (`stale_claims`). ADR-025
   and `invariants.rs` list mempool hygiene as an invariant of the node; a block
   from elsewhere that spends a claimed output breaks it, since nothing evicts.
   A solo day never meets such a block.
3. **An output of exactly the minimum spend is a breach**
   (`dust_at_the_minimum`). Half of it and the fee leave a zero change, which
   admission refuses; `wallet.rs` promises a spendable output.
4. **A receipt that was paid reads failed after a revocation**
   (`opened_then_revoked`). `Receipt::status` answers `Failed` for every receipt of
   a revoked warrant (`receipt.rs:104`), one that was opened long before included.
   Its words are about the others: `Paid` is "Opened and settled while the warrant
   lived", `Failed` that "the warrant was revoked before the opening"
   (`receipt.rs:59-62`), and "a revoked warrant fails every unopened promise"
   (`:98-100`); ADR-019 speaks of unsold receipts. No vector asks for the status of
   an opened receipt of a revoked warrant. `WallHolds` claims what code and words
   agree on: what was not opened before the wall reads failed for good.

Each is reached under a run of its own; the passing runs of the engine are
configured with `TwinsAllowed = FALSE` (remote blocks do not carry the coinbase
of a block in their view), so that everything else can be checked.

Met while modelling, with no run of their own:

* `advance_era` adds one millipoint to a Tenure whose threshold is fifteen
  thousand (`score.rs:166`); ADR-002 asks for fifteen eras and its simulation adds
  a point an era.
* A checkpoint whose signatures were collected out of seat order encodes to a
  word its own decoder refuses, quorum or not (`checkpoint.rs:108`, `:179-196`).
* `Transaction::validate` replaces a minimum fee it cannot compute by the largest
  `u64`, so that a fee of exactly that value passes.
* The constructors and `validate` of a transaction never look at the order of its
  inputs; only `decode` does.
* A canary frozen before its first stage resolves to a ramp of zero percent, which
  no ramp event leaves, only a broken invariant (`proposal.rs:198`). The state
  `RedTeam` is never entered.
* Corroboration slots are emptied by a freeze only: two reporters of other
  invariants, or of long ago, keep every quorum out (`thymus.rs:204-219`), which
  is why `AgreementFreezes` supposes that all filings agree. A canary's alert is
  refused once any height was seen.
* An upgrade that enters the canary while the Thymus is frozen is not frozen: a
  freeze is an event, not a guard.
* A quorum asks for three families and a merge for two on rails A and B, for
  three on C and D, but a cap of 330 per mille is below a third: judged by one tally,
  neither passes with fewer than four (`FourFamilies`). `merge_ok` itself takes the
  count of families and the greatest share as they are given and compares neither
  with the other: the vector `accept_A` merges with two families of which the
  greatest has 300 per mille, which no tally of two families has. A family past the
  table of the tally counts as a new one with every vote.
* A change of a parameter at height zero leaves no trace for the cooldown.
* A stream pays outside the mandate's cap and past its expiry.
* Drain and contest have windows of one length with different ends: a submission
  of the very tick of the revocation is still open to a contest for one tick of
  the drain, hence the strict comparison in `FlightsLandFirst`.
* `pay` floors once, after the four products, where its comment speaks of a floor
  at each division (`pay.rs:100-102`).
* Of two equal bids of one bidder that differ in class the first wins;
  `AuctionIsOrderFree` speaks of price, efficiency and bidder.

## 5. What is proved

Every safety property of the passing runs is a theorem; the one liveness property
is not (section 6). The provers have no induction over data that takes an operator, so the induction each proof needs is in `Induction` in
another form: what is to hold of every number, or of every subset of a finite set,
is given as a *set*, and the proof looks at a minimal element outside it. From
that module come the lemmas on sums (`SumRemove`, `SumUnion`: the folds of the
community modules add in an order a `CHOOSE` picks, and the sum does not depend on
it), on loops over sequences (`LoopTurns`), on recursive functions down a rank
(`RecursionExists`: what they compute) and on the sorting of a finite set by rank
(`RankedLists`).

**The Dag.** `DagProofs` proves, from `DagAssumption` alone (any set of ids, any K,
any clock), that every reachable Dag is well formed (`TypeCorrect`), ordered along
ancestry (`AncestryOrdered`), keeps its blues (`BluesInherited`), has tips that
cover it (`TipsCover`) and a best tip that outweighs every block
(`BestTipHeaviest`), and that the best weight never falls while derived state
is never rewritten (`WeightGrows`). The inductive invariant `Inv` is the
conjunction of the first four: the order of scores along ancestry needs the
inherited blue sets (a block outweighs its parents because its blue set contains
its selected parent and what that inherited), the blue sets need ancestry to be
irreflexive (the selected parent is new to them), and the weight of the best tip
needs the tips to cover the Dag. `DInv` adds what an insertion computed and left
behind: the past is that of the parents, the selected parent precedes the others,
the blues are the greedy set. From it:

* `OrdersTopological`: the consensus order of every block lists its view, each
  block once, every parent before its child. The recursion goes down the selected
  chain; the view of a block is that of its selected parent and the fresh set,
  which is sorted by height and id, and heights grow along ancestry;
* `BluesLooped`: the greedy set the model states is what the loop of the code
  computes. After each turn the working set of the loop is the inherited blues and
  the greedy ones it has met.

**Two nodes.** `DagReplicasProofs` (from `ReplicasAssumption`, which is
`DagAssumption`) proves that both Dags are well formed (`ReplicasTypeCorrect`), that
nodes that hold a block give it one past, coloring, score and selected parent
(`AnswersAgree`), that best tips differ only while a block is under way
(`ForksAreDelays`), and that a refused block whose parents arrived is acceptable
at some clock (`RefusalsPass`). The invariant `RInv` is `DInv` of both nodes, that
a mined block had parents and height a node accepted (`MinedStands`), and that a
node holds a block as it was mined (`Carries`). Agreement is then not an
induction over steps but over heights: the lowest block on which the two
disagree has parents on which they agree, and the greedy set is a function of
these.

**The store.** `StoreProofs` proves, from `StoreAssumption` (the Dag's, any window,
any bound on the walk), that the store is the reference Dag:

* `AgreesAlways`: every field, tip and fresh set is the reference's. `AInv` says
  that the reference is well formed, the store's entries are its nodes, and the
  mirror, while it lives, is its copy; so the fork path is right because the mirror
  is, and the chain path because a block with one parent has no candidates: its
  blues are the inherited ones, its score the parent's and one. `Materialized`
  says the fresh sets and view sizes are those the reference would list;
* `OrderAlways`: the materialized order is the consensus order of the best tip and
  the positions invert it. `Ordered` needs to know what a chain walk reads: the
  chain of a block climbs by selected parents, and its order is the order of any
  chain block followed by the fresh sets above it (`ChainReads`). An extension is
  then right wherever on the chain the old tip lies, a rebuild is the case of the
  genesis, and no bound on the walk can make the difference;
* `ExtendsByOne`: a new best tip stands directly on the old one, or the old one is
  not on its chain.

**The ledger.** `LedgerProofs` proves, from `LedgerAssumption` (a maturity of at
least one slot, numeric heights, a calendar that covers the slots, finite payloads
of transactions whose flag, fee and amounts are a flag and numbers, which decoding
guarantees, and an order of ids that decides between any two transfers) and
`EmissionAssumption`, for every calendar, every catalogue of payloads and any
number of slots:

* `OutputsOnOneSide`: the unspent and the spent references are disjoint, are
  together every output the order created, and the spent ones are exactly those
  some transfer of the order claims;
* `NoDoubleSpend`: no two transfers of the order, in one block or slots apart,
  claim the same output: the first spender wins;
* `SpendsMature`: what leaves the unspent set is spent for good, and a coinbase
  output leaves it no earlier than `Maturity` slots after the slot its coinbase
  was applied at;
* `SupplyHolds`: what is unspent is worth exactly the rewards of the slots that
  emitted, the counters agree with it, and every eclipse that is over emitted
  its entry of the table: the remainder is one atom more for that many slots;
* `TreasuryIsPaid`: coinbases paid the treasury the share of every slot that owes
  one, and nothing else.

The inductive invariant of the first three is `IInv`. That no output is spent twice
follows from the two sides only if the spent side is *all* that was ever claimed
(`EveryOutputIsOnOneSide`), and the sides stay disjoint only if what a block
makes is new: transfers are, by the collision rule of `validate_transfer`;
coinbases are because `Novel` says so, the condition finding 1 is about.
Maturity needs entries to remember their slot (`EntriesRemember`), a coinbase to
have only one (`OneSlotEach`), and slots to count payloads (`SlotsAreHistory`).
Inside a block the totality of `Before` is what orders two spenders of one
output. The money is `MInv`: entries carry the amount of their output, the two
counters are the values of the two sets of references, and emission is a sum over
slots; a block moves value between the sides, creates what the coinbase may, and
burns nothing because a transfer's fee goes to its coinbase.

**The node.** `EngineProofs` proves the first three of the following from
`EngineAssumption` (the Dag's, and nothing of the calendar, the wallets or the order
of transaction ids; it extends `LedgerProofs` for the lemmas, none of which rests on
`LedgerAssumption`), for any blocks from anywhere, bodies known or not, twins allowed
or not:

* `IncrementalIsRebuilt`: a node that runs stands at the best tip, and its ledger,
  trackers and counters are the replay of the best order from nothing, whatever
  suffixes and rebuilds led there (ADR-024);
* `LedgerIsAPrefix`: in every state, after a breach too, the ledger is the replay of
  the order of some held block up to the frontier;
* `ClaimsExact`: the claims of the pool are the inputs of its transactions, and no
  two of those claim one output;
* `BatteryHolds`: the battery reads true on a node that runs. It needs more, below.

The first two share the invariant `EInv`: every held block has a payload, the ledger
ends at a block of some order, and while the node runs everything it has is what
the replay gives. A replay is written as the list of its intermediate states
(`OkRun`), which the fold over the pages computes (`RunIsTurn`). The suffix is the
right one by an argument about orders alone: the code compares one place of the new
order with the frontier, and that is enough because an order that has a block where
the block's own order ends agrees with that order up to there (`PrefixOrder` of
`DagProofs`). So every place before the frontier holds what was applied there.
So runs join (`RunsJoin`): the replay of the old order, which is a prefix of the
new one, followed by the suffix. A page reads a block's payload and the bodies
kept, of which the first never changes and the second only grow, so what was taken
once would be taken again (`RunPersists`); a rebuild reads what was registered
since, which is why the invariant speaks of the present bodies.

`BatteryHolds` adds `BooksAssumption` (the treasury is nobody's wallet, the minimum
fee is a number, the ids are finitely many, the calendar has a slot for every one
after the genesis, twins are not allowed) and `EmissionAssumption`, and its
conclusion is `Spec /\ []IdsInOrder => []Battery`: as long as no two transactions of
a block share an id, which is what an injective hash gives the code and `Before`,
a constant operator, does not promise (it holds in every state of the instance of
run `engine`). Twins are what finding 1 is about. The
proof adds no induction over steps to `EInv` but the forms of what is carried
(`Shaped`: what the pool holds, what the bodies hold and what the blocks carry are
bills, that is, transfers and coinbases of the wallets in the forms of `wallet.rs`; a
coinbase names the height of its block; no view holds one twice). Since a running
node is a replay, what the battery reads is an induction along that replay
(`RunningIsBooked`) of two accounts of one order (`BooksOf`):

* the ledger's: the two sides and the counters, with the recomputed emission and
  the treasury beside them (`BlockBooked`, from `BlockBalances` of `LedgerProofs`,
  the accounting of one block for any ledger value). The treasury's clause holds
  because it is nobody's wallet, so nothing spends from it;
* the trackers': one credit for each output the order pays a wallet, debited when
  the ledger counts it as spent (`Tracks`). The tracker reads a block transaction
  by transaction in the order of ids, credits before debits, and never looks at the
  ledger. A debit that comes before its credit would be lost. That it does not is
  what the rules of the ledger give: an output a transfer claims was there or was
  made by a transfer with a smaller id (`FollowedTracks`).

Both are then compared (`BooksAreTrue`): the tracker's outputs and the snapshot's
are the same difference of two sets, and the balance is a sum of distinct credits
(`TrackerAddsUp`).

**The Ring.** `ForgeProofs` proves too, from `RingAssumption` (finitely many identities,
any seats and quorum, any messages, seasons in which nobody attests itself, words
enough for the seats), for every behaviour of those who follow no protocol:

* `AForkConvictsAThird`: two final messages of one era and sequence convict at
  least `2 RingQuorum - Seats` seats. A final message needs a set of at least
  `RingQuorum` distinct held seats (`FinalNeedsAQuorum`: the strict order that
  `decode` asks of the seats makes the list injective), two such sets meet in
  that many (`QuorumsMeet`), and in each common seat both signatures verify as
  evidence;
* `HonestSeatsAreSafe`: nobody who signs one message of a sequence is ever
  stripped. The strengthening is `OneVoice`, what an honest node has signed so
  far. It covers every key, seat and era because evidence is judged by the key
  the roster has for the seat;
* `RingTypeCorrect` and `ConvictedStayOut`: scores stay in their bounds through
  accruals, echoes, decay and eras, and nobody convicted is ever drawn again. `KInv`
  adds that a conviction kills the Tenure, which nothing revives, and that a
  dead Tenure weighs nothing, hence is no candidate;
* `DrawsAreFair`: the candidates' weights cut the words below their sum into
  stretches of just these lengths, so a candidate is picked by as many words as it
  weighs; and while somebody is not seated a turn of the draw seats one;
* `EchoesAreEarned`: an Echo grows at the turn of an era only, within the cap, and
  with a witness that is somebody else and has the Deed.

**Forge, Thymus, Senate.** `ForgeProofs` proves, from the three named assumptions
(any reporters, quorum and window; any families and weights with a cap of at most
332 per mille; any ladder of distinct stages, any bands):

* `FrozenOnEvidence`: what froze the upgrades had a proof or a quorum of distinct
  reporters. The strengthening says that every slot was filed by its reporter
  since the last freeze, so agreeing slots are agreeing filings;
* `AgreementIsHeard`: the converse while everything filed agrees. The slots then
  hold every reporter that filed, because there are as many slots as the quorum
  and none was emptied;
* `DetectionComesFirst`: the time to detection of a fault never exceeds its time
  to containment. The strengthening bounds the former by the last height
  seen, which alerts may not fall below;
* `RampClimbed`: the percent of a ramp, frozen or not, is the last stage opened,
  and the stages opened are a prefix of the ladder. It needs the stages to be
  distinct, since nothing but the percent says how far a ramp is;
* `ChangesSpaced`: the last change is the latest one above height zero;
* `FourFamilies`: a tally has at most one slot per family that voted plus the
  overflow slot of families past the table, its total is the sum of the slots,
  and three shares of at most 332 per mille do not add up to the whole.

**Agents, jobs, signing.** `MarketRelayProofs` proves, from `WarrantAssumption` and
`MarketAssumption` (any mandates, batches, rates, windows and bids, with a drain no
shorter than a contest): `BondAccounted`, whose strengthening is that nothing moves
once revoked and hence nothing after the collection; `FlightsLand`, from
submissions that lie in the past and a drain that lies a full delay after the
revocation; `WallStands`, action by action, about the receipts that
were not opened before the wall (finding 4 is about the others); and `AuctionOrderFree`, for any
number of bids: beating is total and transitive over bids, so after every turn of
the loop the bid it keeps beats each bid it has met, and at the end all of them.
From `RelayAssumption` it proves `RetriedSigningHolds`:
signatures present in the sender's hand are marks of keys that signed the message,
which zeroes signatures and is therefore the same in every attempt.

**The words of the relay.** `MarketRelayProofs` proves, for any base, limits,
containers and faults, and any number of them, four theorems of the form
`ASSUME DigestIsIdeal PROVE RelaySpec => []...`, where `DigestIsIdeal` says that the
digest of a word is a field and that no two words share one:

* `OneWordHolds`: what a reader takes is written as the word it came in, whichever of
  the readers tries it;
* `WhatIsSentIsReadHolds`: an untouched word is read exactly when its value has the
  canonical form, and as that value;
* `SubstitutionIsRefusedHolds`: a reader refuses a word with the items of another
  in another order, and a block with another's header and a payload of its own;
* `AcceptedWasSignedHolds`: an accepted transfer is the one in hand but for its
  signatures, the owner of each input signed it, and no two accepted ones differ. It
  is about transfers alone: a coinbase carries no signature, so one that a fault
  made or changed is accepted as readily as one that was sent, and that few faults
  do not reach a second one would only say how small the instance is.

The argument is about words first. A varint has one writing of a value, which ends
at its first group below the base (`VarintWritten`, `VarintRead`): what the reader
that refuses padding takes is that writing, and it takes it wherever it stands
(`VarintTaken`). So a list, which starts with its count,
can stand at a place of a word as one list only (`ListOnce`), and a word
that is a sequence of such parts is cut in one way (`PartsOnce`). A reader is a
chain of steps that stops at its first refusal, so one that gets through has
read part after part, each standing where the one before ended. From that follow,
container by container, `Canonical` (what a reader returns has the form and is
written as the word it read, and it takes every word written from a value in form)
and `WrittenOnce` (two values of a kind are never one word). The state comes second:
the invariant `RelayInv` (`WordsAreWritten`) says that the word under way is one of
numbers and, before the first change, the writer's; that everything ever signed is
the message of what is in hand; and that an accepted transfer has an input and
verifies. So the first key of an accepted transfer signed a message
that is both its own and that of what is in hand, and `WrittenOnce` makes the two
one but for signatures. For the order of items, a list that `Transpose` changed and
the list it was cannot both ascend (`UnorderedOnce`).

## 6. What is only model-checked, and what is not modelled

Only model-checked:

* `EverythingSettles`, which is liveness under fairness and uses ENABLED: the
  prover has no support for either;
* the runs that expect a violation.

Not modelled:

* the Veil (curve arithmetic), and the bytes of hashes, keys, signatures,
  addresses and Base58: the models take hashes as injective, signatures as
  unforgeable and fields as values;
* overflow of the checked additions of the ledger, which the monetary cap keeps
  out of reach;
* `debate.rs` (whether a claim is alive is one comparison of its evidence tick
  with a window, and nothing in the code reads the answer), the bounty formula, the
  prose and labels of invariants and states;
* the counters and the periodic cadence of `run_day`, status, command line,
  scripts, simulations.

## 7. Plan

Done: the ordering layer (`Dag`, `DagOrder`, `DagReplicas`, `Store`), the ledger
(`Emission`, `LedgerRules`, `Ledger`), the node (`Wallet`, `Mempool`, `Engine`), the
Ring and its reputation (`Kleos`, `Ring`), governance and immunity (`Thymus`,
`Senate`, `Forge`), accounts and jobs (`Warrant`, `Market`), the wire (`Wire`,
`Containers`, `Relay`), and the proof modules above.

Left, in this order:

1. **Composition.** A seat of the Ring as the receiver of the relay's
   checkpoints; several warrants under one sponsor.
