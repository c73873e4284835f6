------------------------------- MODULE MCRelay ------------------------------
(* What the relay carries in the instance that TLC checks: containers on   *)
(* both sides of every limit, with groups of one bit, three of them at     *)
(* most, and two keys.                                                     *)
EXTENDS Relay

\* Keccak-256: no two of the words the instance hashes have one digest, and
\* no digest is a small field.
MCDigest(word) == FoldLeft(LAMBDA sum, b : 16 * sum + b + 1, 100, word)

MCTokens == {2}

Input(tx, index, key) ==
    [ref |-> [tx |-> tx, index |-> index], key |-> key, signature |-> 0]

Output(address, amount) == [address |-> address, amount |-> amount]

Draft(type, fee, inputs, outputs, extra) ==
    [kind |-> "transaction",
     value |-> [version |-> Version1, type |-> type, fee |-> fee,
                inputs |-> inputs, outputs |-> outputs, extra |-> extra]]

\* Two references in order, of one transaction, twice the same, one, none, one
\* too many; amounts, fees and fields at and past their limits.
Drafts == {
    Draft(Transfer, 5, <<Input(1, 0, 1)>>, <<Output(1, 2)>>, <<2>>),
    Draft(Transfer, 5, <<Input(1, 0, 1), Input(2, 0, 2)>>, <<Output(2, 1)>>, <<>>),
    Draft(Transfer, 5, <<Input(1, 1, 1), Input(1, 2, 1)>>, <<Output(1, 1)>>, <<>>),
    Draft(Transfer, 5, <<Input(1, 0, 1), Input(1, 0, 1)>>, <<Output(2, 1)>>, <<>>),
    Draft(Transfer, 2, <<Input(1, 0, 1)>>, <<Output(1, 2)>>, <<2>>),
    Draft(Transfer, 5, <<>>, <<Output(1, 1)>>, <<>>),
    Draft(Transfer, 5, <<Input(1, 0, 1)>>, <<>>, <<0, 1, 2, 0>>),
    Draft(Transfer, 5, <<Input(1, 0, 1), Input(1, 1, 1), Input(2, 0, 2)>>, <<Output(1, 0)>>, <<>>),
    Draft(Transfer, 7, <<Input(1, 0, 1)>>, <<Output(1, 1)>>, <<0, 1, 2, 0, 1>>),
    Draft(Coinbase, 0, <<>>, <<Output(1, 2)>>, <<1>>) }

HeaderWith(parents, root) ==
    [version |-> Version1, parents |-> parents, height |-> 1, timestamp |-> 2, nonce |-> 5,
     root |-> root]

Headers == {[kind |-> "header", value |-> HeaderWith(parents, 5)] :
              parents \in {<<>>, <<0>>, <<1, 2>>, <<2, 1>>, <<1, 1>>, <<1, 2, 3>>, <<1, 2, 3, 4>>}}

Blocks ==
    {[kind |-> "block", value |-> [header |-> HeaderWith(<<1>>, PayloadRoot(txIds)), txIds |-> txIds]] :
        txIds \in {<<>>, <<1>>, <<1, 2>>, <<2, 1>>, <<1, 2, 5>>}}
    \cup {[kind |-> "block", value |-> [header |-> HeaderWith(<<1, 2>>, 5), txIds |-> <<1>>]]}

Message(era, tip) == [era |-> era, sequence |-> 1, tip |-> tip, orderRoot |-> 5]

Checkpoints == {[kind |-> "checkpoint", value |-> [message |-> Message(1, 2), signatures |-> <<>>]]}

Evidence ==
    {[kind |-> "evidence",
      value |-> [seat |-> 1, first |-> Message(1, 1), firstSignature |-> 2,
                 second |-> Message(1, tip), secondSignature |-> 2]] : tip \in {0, 2}}

MCContainers == Drafts \cup Headers \cup Blocks \cup Checkpoints \cup Evidence
                    \cup {[kind |-> "authority", value |-> 5]}

=============================================================================
