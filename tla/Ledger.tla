------------------------------- MODULE Ledger -------------------------------
(***************************************************************************)
(* The ledger as a machine: blocks are applied one after the other, each   *)
(* at the next slot, the genesis first (apply_order and apply_block of     *)
(* antumbra-state/src/ledger.rs).                                          *)
(*                                                                         *)
(* history is not in the code: the payloads applied so far, kept to say    *)
(* what the ledger should be.                                              *)
(***************************************************************************)
EXTENDS LedgerRules, SequencesExt

CONSTANTS
    Payloads,     \* the transaction sets a block may carry
    Heights,      \* the heights a block may announce
    MaxSlots      \* bound: the slots applied, the genesis included

ASSUME LedgerAssumption ==
    /\ Maturity \in Nat \ {0}
    /\ Heights \subseteq Nat
    /\ MaxSlots \in Nat
    /\ 0 .. MaxSlots - 1 \subseteq Calendar \cup {0}
    /\ \A txs \in Payloads :
         /\ IsFiniteSet(txs)
         /\ \A t \in txs : IsPlausible(t)
         /\ \A t, u \in Transfers(txs) : t # u => Before(t, u) \/ Before(u, t)

VARIABLES state, history

ledgerVars == <<state, history>>

LedgerInit ==
    /\ state = New
    /\ history = <<>>

\* apply_order asks for the genesis first; the heights of the ordering layer
\* leave no other block at zero.
IsInTurn(height) == state.applied = 0 <=> height = 0

\* The blocks offered carry a coinbase of their own each.  That is a condition
\* on the miners: nothing in the ledger enforces it, and module Engine shows
\* what happens without it.
Novel(txs) == \A i \in DOMAIN history : Coinbases(history[i]) \cap Coinbases(txs) = {}

\* A refused block is a stuttering step: every rule runs before any mutation.
ApplyBlock(height, txs) ==
    /\ state.applied < MaxSlots
    /\ IsInTurn(height)
    /\ BlockHolds(state, height, txs)
    /\ state' = Commit(state, txs)
    /\ history' = Append(history, txs)

LedgerNext ==
    \E height \in Heights, txs \in Payloads :
        Novel(txs) /\ ApplyBlock(height, txs)

LedgerSpec == LedgerInit /\ [][LedgerNext]_ledgerVars

----------------------------------------------------------------------------
(* Properties.                                                             *)

Refs == Made(UNION ToSet(history))

LedgerTypeOK ==
    /\ DOMAIN state.utxos \subseteq Refs
    /\ \A ref \in DOMAIN state.utxos :
         state.utxos[ref].slot \in {NoSlot} \cup 1 .. state.applied - 1
    /\ state.spent \subseteq Refs
    /\ {state.applied, state.created, state.spentValue, state.emitted} \subseteq Nat

\* ledger.rs: no output is spent twice, the first spender of the total order
\* wins.  Over the whole applied order, in-block chains included, two
\* transfers never name one output.
FirstSpenderWins ==
    \A i, j \in DOMAIN history :
        \A t \in Transfers(history[i]), u \in Transfers(history[j]) :
            <<i, t>> # <<j, u>> => Claims(t) \cap Claims(u) = {}

\* The ledger and its history agree: unspent and spent outputs together are
\* the outputs ever created, and none is both.
EveryOutputIsOnOneSide ==
    /\ DOMAIN state.utxos \cap state.spent = {}
    /\ DOMAIN state.utxos \cup state.spent = Refs
    /\ state.spent = Consumed(Transfers(UNION ToSet(history)))

\* The moment an eclipse is over, what was emitted is the archived emission
\* of the eclipses so far.
EclipsesClose ==
    \A n \in 0 .. Len(Emissions) :
        state.applied = n * BlocksPerEclipse + 1 =>
            state.emitted = SumFunction([i \in 1 .. n |-> Emissions[i]])

\* The value in circulation is the emission of the calendar, fees recycled
\* and nothing lost: the unspent outputs carry exactly the rewards of the
\* applied slots, the counters say the same, and the calendar closes at the
\* end of every eclipse (ledger.rs commit_block, coinbase.rs reward_of_slot).
SupplyIsTheEmission ==
    /\ state.created = state.spentValue + state.emitted
    /\ SumFunction([ref \in DOMAIN state.utxos |-> state.utxos[ref].amount]) = state.emitted
    /\ state.emitted = SumFunction([slot \in 1 .. state.applied - 1 |-> RewardOfSlot(slot)])
    /\ EclipsesClose

\* The treasury is paid its share of every reward of its eclipses and of no
\* other slot, and the miners cannot keep it.
TreasuryGetsItsShare ==
    ValueOf({ref \in Refs : ref[1].coinbase /\ ref[2] = 2 /\ OutputAt(ref).to = Treasury}) =
        SumFunction([slot \in {s \in 1 .. state.applied - 1 : TreasuryActive(s)} |->
                        TreasuryShareOf(RewardOfSlot(slot))])

\* An output of a coinbase leaves the unspent set no earlier than Maturity
\* slots after its own, and an output never comes back.
SpendsWaitAndLast ==
    [][ /\ state.spent \subseteq state'.spent
        /\ \A ref \in DOMAIN state.utxos \ DOMAIN state'.utxos :
             /\ ref \in state'.spent
             /\ ref[1].coinbase =>
                  state.applied >= Maturity
                    + (CHOOSE i \in DOMAIN history : ref[1] \in history[i]) - 1 ]_ledgerVars

=============================================================================
