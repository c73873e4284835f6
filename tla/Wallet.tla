------------------------------- MODULE Wallet -------------------------------
(***************************************************************************)
(* A devnet wallet (antumbra-node/src/wallet.rs): the coinbase it mints,   *)
(* the transfer it builds and the tracker of its outputs, a sequence of    *)
(* credits in the order the ledger applied them.                           *)
(***************************************************************************)
EXTENDS LedgerRules, SequencesExt

CONSTANTS
    MinFee    \* the schedule minimum fee of a one-input, two-output transfer

CoinbaseOf(wallet, height, slot, fees) ==
    [coinbase |-> TRUE, inputs |-> {}, outputs |-> CoinbaseOutputs(slot, fees, wallet),
     fee |-> 0, height |-> height]

\* Outputs below it are dust the activity script leaves alone.
MinimumSpend == 2 * MinFee

CanSpend(value, toAmount) == value >= toAmount + MinFee

SpendOne(wallet, ref, value, destination, toAmount) ==
    [coinbase |-> FALSE,
     inputs |-> {[ref |-> ref, key |-> wallet]},
     outputs |-> <<[to |-> destination, amount |-> toAmount],
                   [to |-> wallet, amount |-> value - toAmount - MinFee]>>,
     fee |-> MinFee, height |-> 0]

----------------------------------------------------------------------------
(* The tracker.                                                            *)

Knows(tracker, ref) == \E i \in DOMAIN tracker : tracker[i].ref = ref

\* A reference already credited is ignored.
Credit(tracker, ref, slot) ==
    IF Knows(tracker, ref) THEN tracker
    ELSE Append(tracker, [ref |-> ref, amount |-> OutputAt(ref).amount,
                          slot |-> slot, spent |-> FALSE])

Debit(tracker, refs) ==
    [i \in DOMAIN tracker |->
        IF tracker[i].ref \in refs THEN [tracker[i] EXCEPT !.spent = TRUE] ELSE tracker[i]]

\* The credits of one transaction to a wallet, by output index.
CreditAll(tracker, wallet, t, slot) ==
    LET Pays(tr, i) == IF t.outputs[i].to = wallet THEN Credit(tr, <<t, i>>, slot) ELSE tr
    IN  FoldLeft(Pays, tracker, [i \in DOMAIN t.outputs |-> i])

Unspent(tracker) == {tracker[i].ref : i \in {j \in DOMAIN tracker : ~tracker[j].spent}}

\* The balance the tracker adds up, credit by credit.
UnspentValue(tracker) ==
    FoldLeft(LAMBDA sum, credit : IF credit.spent THEN sum ELSE sum + credit.amount, 0, tracker)

IsSpendable(credit, nextSlot) ==
    /\ ~credit.spent
    /\ credit.amount >= MinimumSpend
    /\ credit.slot = NoSlot \/ nextSlot >= credit.slot + Maturity

\* The oldest spendable credit, as a set of at most one.
FirstSpendable(tracker, nextSlot) ==
    {tracker[i] : i \in {j \in DOMAIN tracker :
        /\ IsSpendable(tracker[j], nextSlot)
        /\ \A k \in 1 .. j - 1 : ~IsSpendable(tracker[k], nextSlot)}}

=============================================================================
