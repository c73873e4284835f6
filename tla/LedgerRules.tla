---------------------------- MODULE LedgerRules ----------------------------
(***************************************************************************)
(* The state rules of the ledger (antumbra-state/src/ledger.rs) as         *)
(* operators on a ledger value: what a block must satisfy at a slot, and   *)
(* the ledger it leaves.  A transaction stands for its id, the hash of its *)
(* content; Before is the order of the ids.  An address stands for its     *)
(* spend key.  Amounts are unbounded naturals: the checked additions of    *)
(* the code never overflow under the monetary cap.                         *)
(***************************************************************************)
EXTENDS Emission, FiniteSets, Functions

CONSTANTS
    Before(_, _),    \* the strict order of transaction ids
    Maturity,        \* slots a coinbase output waits
    Treasury         \* the treasury address

\* The creating slot of an output no coinbase created.
NoSlot == -1

\* The empty ledger.
New == [utxos |-> <<>>, spent |-> {}, applied |-> 0,
        created |-> 0, spentValue |-> 0, emitted |-> 0]

----------------------------------------------------------------------------
(* Transactions and the outputs they name: a reference is a transaction    *)
(* with the index of one of its outputs.                                   *)

Transfers(txs) == {t \in txs : ~t.coinbase}
Coinbases(txs) == {t \in txs : t.coinbase}

RefsOf(t) == {<<t, i>> : i \in DOMAIN t.outputs}
Made(txs) == UNION {RefsOf(t) : t \in txs}

Claims(t) == {input.ref : input \in t.inputs}
Consumed(txs) == UNION {Claims(t) : t \in txs}

OutputAt(ref) == ref[1].outputs[ref[2]]

\* What the reader of a transaction hands over: a flag, a fee and a list of outputs
\* with their amounts.
IsPlausible(t) ==
    /\ t.coinbase \in BOOLEAN
    /\ t.fee \in Nat
    /\ IsFiniteSet(DOMAIN t.outputs)
    /\ \A i \in DOMAIN t.outputs : t.outputs[i].amount \in Nat

\* The value of a set of references: an output is part of the transaction
\* its reference names.
ValueOf(refs) == SumFunction([ref \in refs |-> OutputAt(ref).amount])

FeesOf(txs) == SumFunction([t \in Transfers(txs) |-> t.fee])

----------------------------------------------------------------------------
(* The rules of a coinbase.                                                *)

\* The output list of the coinbase of a slot, the miner's address aside.
CoinbaseOutputs(slot, fees, miner) ==
    LET reward == RewardOfSlot(slot)
        share == TreasuryShareOf(reward)
    IN  IF TreasuryActive(slot)
        THEN <<[to |-> miner, amount |-> reward + fees - share],
               [to |-> Treasury, amount |-> share]>>
        ELSE <<[to |-> miner, amount |-> reward + fees]>>

\* Mutant: the count and the total are checked, the treasury output is not.
CoinbaseTotals(t, slot, height, fees) ==
    LET due == CoinbaseOutputs(slot, fees, Treasury)
    IN  /\ t.inputs = {}
        /\ t.fee = 0
        /\ t.height = height
        /\ Len(t.outputs) = Len(due)
        /\ ValueOf(RefsOf(t)) = SumFunction([i \in DOMAIN due |-> due[i].amount])

\* The miner's output may pay anyone.
CoinbaseHolds(t, slot, height, fees) ==
    /\ t.inputs = {}
    /\ t.fee = 0
    /\ t.height = height
    /\ t.outputs # <<>>
    /\ t.outputs = CoinbaseOutputs(slot, fees, t.outputs[1].to)

----------------------------------------------------------------------------
(* The rules of a transfer, over the ledger l and the transfers of the     *)
(* block that come before it (the scratch of the code).                    *)

Exists(l, earlier, ref) == ref \in DOMAIN l.utxos \cup Made(earlier)

\* The ledger's word on the owner and the slot of an output; the outputs of
\* the block itself carry no slot.
OwnerOf(l, ref) == IF ref \in DOMAIN l.utxos THEN l.utxos[ref].to ELSE OutputAt(ref).to

\* Mutant: one slot too early.
IsAlmostMature(l, ref, slot) ==
    ref \in DOMAIN l.utxos =>
        \/ l.utxos[ref].slot = NoSlot
        \/ slot + 1 >= l.utxos[ref].slot + Maturity

IsMature(l, ref, slot) ==
    ref \in DOMAIN l.utxos =>
        \/ l.utxos[ref].slot = NoSlot
        \/ slot >= l.utxos[ref].slot + Maturity

Conserves(t) == ValueOf(Claims(t)) = t.fee + ValueOf(RefsOf(t))

\* Mutant: unspentness inside the block is not asked.
TransferHoldsAlone(l, t, slot, txs) ==
    LET earlier == {u \in Transfers(txs) : Before(u, t)}
    IN  /\ t.inputs # {}
        /\ \A input \in t.inputs :
             /\ Exists(l, earlier, input.ref)
             /\ input.key = OwnerOf(l, input.ref)
             /\ IsMature(l, input.ref, slot)
        /\ Conserves(t)
        /\ RefsOf(t) \cap (DOMAIN l.utxos \cup l.spent) = {}

TransferHolds(l, t, slot, txs) ==
    LET earlier == {u \in Transfers(txs) : Before(u, t)}
    IN  /\ t.inputs # {}
        /\ \A input \in t.inputs :
             /\ Exists(l, earlier, input.ref)
             /\ input.ref \notin Consumed(earlier)
             /\ input.key = OwnerOf(l, input.ref)
             /\ IsMature(l, input.ref, slot)
        /\ Conserves(t)
        /\ RefsOf(t) \cap (DOMAIN l.utxos \cup l.spent) = {}

----------------------------------------------------------------------------
(* A block.  A payload is a set: its ids are strictly ascending.           *)

BlockHolds(l, height, txs) ==
    IF height = 0 THEN txs = {}
    ELSE /\ Cardinality(Coinbases(txs)) = 1
         /\ \A t \in Coinbases(txs) :
                CoinbaseHolds(t, l.applied, height, FeesOf(txs))
         /\ \A t \in Transfers(txs) : TransferHolds(l, t, l.applied, txs)

EntryOf(l, ref) ==
    [to |-> OutputAt(ref).to, amount |-> OutputAt(ref).amount,
     slot |-> IF ref[1].coinbase THEN l.applied ELSE NoSlot]

\* Mutant: what the block consumed goes before what it made comes.
CommitSpendsFirst(l, txs) ==
    LET consumed == Consumed(Transfers(txs))
        kept == (DOMAIN l.utxos \ consumed) \cup Made(txs)
    IN  [utxos |-> [ref \in kept |->
                      IF ref \in Made(txs) THEN EntryOf(l, ref) ELSE l.utxos[ref]],
         spent |-> l.spent \cup consumed,
         applied |-> l.applied + 1,
         created |-> l.created + ValueOf(Made(txs)),
         spentValue |-> l.spentValue + ValueOf(consumed),
         emitted |-> l.emitted
                       + (IF Coinbases(txs) = {} THEN 0 ELSE RewardOfSlot(l.applied))]

\* The commit writes every output of the block, over whatever entry the
\* reference had, and then takes out what the block consumed.
Commit(l, txs) ==
    LET consumed == Consumed(Transfers(txs))
        kept == (DOMAIN l.utxos \cup Made(txs)) \ consumed
    IN  [utxos |-> [ref \in kept |->
                      IF ref \in Made(txs) THEN EntryOf(l, ref) ELSE l.utxos[ref]],
         spent |-> l.spent \cup consumed,
         applied |-> l.applied + 1,
         created |-> l.created + ValueOf(Made(txs)),
         spentValue |-> l.spentValue + ValueOf(consumed),
         emitted |-> l.emitted
                       + (IF Coinbases(txs) = {} THEN 0 ELSE RewardOfSlot(l.applied))]

=============================================================================
