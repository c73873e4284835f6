------------------------------ MODULE MCLedger ------------------------------
(* The instance of the ledger that TLC checks: a catalogue of coinbases and *)
(* of transfers, some of which break one rule each.                          *)
EXTENDS Ledger

\* Two eclipses of three slots: rewards 5, 4, 4 then 2, 2, 2; the treasury
\* takes a quarter, rounded down, of the first three.
MCEmissions == <<13, 6>>

Pay(to, amount) == [to |-> to, amount |-> amount]

Coinbase(height, outputs) ==
    [coinbase |-> TRUE, inputs |-> {}, outputs |-> outputs, fee |-> 0, height |-> height]

Transfer(inputs, outputs, fee) ==
    [coinbase |-> FALSE, inputs |-> inputs, outputs |-> outputs, fee |-> fee, height |-> 0]

From(tx, index, key) == [ref |-> <<tx, index>>, key |-> key]

First == Coinbase(1, <<Pay("miner", 4), Pay("treasury", 1)>>)
Split == Transfer({From(First, 1, "miner")}, <<Pay("alice", 2), Pay("miner", 1)>>, 1)
Rival == Transfer({From(First, 1, "miner")}, <<Pay("alice", 3)>>, 1)
Hop   == Transfer({From(Split, 1, "alice")}, <<Pay("bob", 2)>>, 0)
Stray == Transfer({From(Split, 1, "miner")}, <<Pay("miner", 2)>>, 0)
Minter == Transfer({From(Split, 2, "miner")}, <<Pay("miner", 2)>>, 0)
Join  == Transfer({From(Split, 1, "alice"), From(Split, 2, "miner")}, <<Pay("bob", 3)>>, 0)

\* Join comes before the transfer it would chain on, Hop after it.
Ranked == <<Join, Split, Rival, Hop, Stray, Minter>>
Spends == {Ranked[i] : i \in DOMAIN Ranked}

Rank(t) == CHOOSE i \in DOMAIN Ranked : Ranked[i] = t
IsBefore(t, u) == Rank(t) < Rank(u)

\* A coinbase of each kind of slot, with the fees of at most one transfer.
Mints ==
    {Coinbase(height, outputs) : height \in 1 .. 3,
        outputs \in {<<Pay("miner", m), Pay("treasury", 1)>> : m \in 3 .. 5}
                      \cup {<<Pay("miner", 3), Pay("miner", 1)>>}
                      \cup {<<Pay("miner", m)>> : m \in 2 .. 3}}

CoinbaseChoices == {{}} \cup {{c} : c \in Mints} \cup {{First, c} : c \in Mints}

MCPayloads == {cs \cup ts : cs \in CoinbaseChoices,
                            ts \in UNION {kSubset(n, Spends) : n \in 0 .. 2}}

============================================================================
