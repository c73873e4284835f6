-------------------------------- MODULE Relay -------------------------------
(***************************************************************************)
(* One container on its way: a sender has it in hand, signs it (a          *)
(* transaction) or collects signatures on it (a checkpoint), writes it to  *)
(* the wire, and a relay may lose it, deliver it several times, or with    *)
(* changes the sender did not make.  The receiver decodes strictly and,    *)
(* for a transaction, validates it and verifies its signatures.            *)
(*                                                                         *)
(* The crates are libraries: no network carries these words yet, so the    *)
(* sending, the delivery and its faults are external.  A signature is      *)
(* ideal: the mark of a key verifies on a message only when that key has   *)
(* signed that message.                                                    *)
(***************************************************************************)
EXTENDS Containers

CONSTANTS
    Containers0,  \* what a sender may have in hand: [kind, value]
    Tokens,       \* the fields a fault may put on the wire
    MaxFaults     \* bound: the changes a relay makes, all told

VARIABLES
    held,      \* the container in the sender's hand
    signed,    \* <<key, message>>: the signatures ever made
    wire,      \* the word under way, empty when there is none
    faults,    \* how many changes the relay has made
    accepted   \* the transactions the receiver has accepted

TxIns == [ref : [tx : Nat, index : Nat], key : Nat, signature : Nat]

TxOuts == [address : Nat, amount : Nat]

Transactions ==
    [version : Nat, type : Nat, fee : Nat,
     inputs : Seq(TxIns), outputs : Seq(TxOuts), extra : Seq(Nat)]

HeaderValues ==
    [version : Nat, parents : Seq(Nat), height : Nat, timestamp : Nat, nonce : Nat, root : Nat]

BlockValues == [header : HeaderValues, txIds : Seq(Nat)]

Messages == [era : Nat, sequence : Nat, tip : Nat, orderRoot : Nat]

SeatSignatures == [seat : Nat, signature : Nat]

CheckpointValues == [message : Messages, signatures : Seq(SeatSignatures)]

EvidenceValues ==
    [seat : Nat, first : Messages, firstSignature : Nat, second : Messages, secondSignature : Nat]

ValuesOf(kind) ==
    CASE kind = "transaction" -> Transactions
      [] kind = "header"      -> HeaderValues
      [] kind = "block"       -> BlockValues
      [] kind = "checkpoint"  -> CheckpointValues
      [] kind = "evidence"    -> EvidenceValues
      [] kind = "authority"   -> Nat

\* The longest lists a reader lets through.
Limits == {MaxInputs, MaxOutputs, MaxExtra, MaxParents, MaxTxs, Seats}

\* A builder hands over unsigned transactions; zero is no key.  The limits are
\* far below the largest varint.
ASSUME RelayAssumption ==
    /\ Points \subseteq Nat \ {0}
    /\ Tokens \subseteq Nat
    /\ Limits \subseteq Nat
    /\ \A limit \in Limits : \A count \in 0 .. limit :
         /\ Len(WriteVarint[count]) <= Groups
         /\ VarintAt(WriteVarint[count], 0, Len(WriteVarint[count]))
    /\ \A c \in Containers0 :
         /\ c = [kind |-> c.kind, value |-> c.value]
         /\ c.kind \in Kinds /\ c.value \in ValuesOf(c.kind)
         /\ c.kind = "transaction" =>
               \A i \in DOMAIN c.value.inputs : c.value.inputs[i].signature = 0

relayVars == <<held, signed, wire, faults, accepted>>

RelayInit ==
    /\ held \in Containers0
    /\ signed = {}
    /\ wire = <<>>
    /\ faults = 0
    /\ accepted = {}

----------------------------------------------------------------------------
(* The sender.                                                             *)

\* The mark of a key; the mark of no key is zero.
Mark(key) == key

\* The inputs before the first whose key is not the one given.
Matching(inputs, keys) ==
    {i \in DOMAIN inputs : \A j \in 1 .. i : keys[j] = inputs[j].key}

\* sign: one key per input, in order.  A wrong key ends the loop with an error
\* and leaves the signatures made so far in place.
Sign(keys) ==
    /\ held.kind = "transaction"
    /\ wire = <<>>
    /\ LET inputs  == held.value.inputs
           message == SigningMessage(held.value)
           signs   == Matching(inputs, keys)
       IN  /\ Len(keys) = Len(inputs)
           /\ held' = [held EXCEPT !.value.inputs =
                         [i \in DOMAIN inputs |->
                            IF i \in signs THEN [inputs[i] EXCEPT !.signature = Mark(keys[i])]
                                           ELSE inputs[i]]]
           /\ signed' = signed \cup {<<keys[i], message>> : i \in signs}
    /\ UNCHANGED <<wire, faults, accepted>>

\* Checkpoint::sign: the signatures are kept in the order they arrive.
Collect(seat, key) ==
    /\ held.kind = "checkpoint"
    /\ wire = <<>>
    /\ LET signatures == held.value.signatures
       IN  /\ Len(signatures) < Seats
           /\ \A i \in DOMAIN signatures : signatures[i].seat # seat
           /\ held' = [held EXCEPT !.value.signatures =
                         Append(@, [seat |-> seat, signature |-> Mark(key)])]
    /\ signed' = signed \cup {<<key, EncodeMessage(held.value.message)>>}
    /\ UNCHANGED <<wire, faults, accepted>>

Send ==
    /\ wire = <<>>
    /\ wire' = Encode(held.kind, held.value)
    /\ UNCHANGED <<held, signed, faults, accepted>>

----------------------------------------------------------------------------
(* The relay.                                                              *)

\* Two neighbouring stretches of n fields change places.
Transpose(word, i, n) ==
    [j \in DOMAIN word |-> CASE j \in i .. i + n - 1         -> word[j + n]
                             [] j \in i + n .. i + 2 * n - 1 -> word[j - n]
                             [] OTHER                        -> word[j]]

\* A group is written as one that continues, and a group of zero after it.
Padded(word, i) == InsertAt([word EXCEPT ![i] = @ + Base], i + 1, 0)

Changed(word) ==
    {[word EXCEPT ![i] = b] : i \in DOMAIN word, b \in Tokens}
        \cup {RemoveAt(word, i) : i \in DOMAIN word}
        \cup {InsertAt(word, i, b) : i \in 1 .. Len(word) + 1, b \in Tokens}
        \cup {Padded(word, i) : i \in {j \in DOMAIN word : word[j] < Base}}
        \cup {Transpose(word, x[1], x[2]) :
                x \in {y \in (DOMAIN word) \X (1 .. 4) : y[1] + 2 * y[2] - 1 <= Len(word)}}

Change ==
    /\ wire # <<>>
    /\ faults < MaxFaults
    /\ wire' \in Changed(wire) \ {wire}
    /\ faults' = faults + 1
    /\ UNCHANGED <<held, signed, accepted>>

Lose ==
    /\ wire # <<>>
    /\ wire' = <<>>
    /\ UNCHANGED <<held, signed, faults, accepted>>

----------------------------------------------------------------------------
(* The receiver.                                                           *)

\* Verified under the ideal signature.
VerifySignature(mark, message, key) == mark = Mark(key) /\ <<key, message>> \in signed

\* Mutant: the first input stands for all.
VerifyFirst(t) ==
    t.inputs # <<>> => VerifySignature(t.inputs[1].signature, SigningMessage(t), t.inputs[1].key)

VerifySignatures(t) ==
    \A i \in DOMAIN t.inputs :
        VerifySignature(t.inputs[i].signature, SigningMessage(t), t.inputs[i].key)

Receive ==
    /\ wire # <<>>
    /\ LET read == DecodeTx(wire)
       IN  /\ read.ok
           /\ Validate(read.val)
           /\ VerifySignatures(read.val)
           /\ accepted' = accepted \cup {read.val}
    /\ wire' = <<>>
    /\ UNCHANGED <<held, signed, faults>>

RelayNext ==
    \/ \E keys \in SeqOf(Points, MaxInputs + 1) : Sign(keys)
    \/ \E seat \in 1 .. Seats, key \in Points : Collect(seat, key)
    \/ Send
    \/ Change
    \/ Lose
    \/ Receive

RelaySpec == RelayInit /\ [][RelayNext]_relayVars

----------------------------------------------------------------------------
(* Properties.                                                             *)

\* Every item with every later one.
Pairs(items) ==
    {<<items[x[1]], items[x[2]]>> : x \in {y \in (DOMAIN items) \X (DOMAIN items) : y[1] < y[2]}}

TxInForm(t) ==
    /\ t.version = Version1
    /\ t.type \in Supported
    /\ Len(t.inputs) <= MaxInputs
    /\ \A pair \in Pairs(t.inputs) : RefBelow(pair[1], pair[2])
    /\ \A i \in DOMAIN t.inputs : IsPoint(t.inputs[i].key)
    /\ Len(t.outputs) <= MaxOutputs
    /\ \A i \in DOMAIN t.outputs : IsAddress(t.outputs[i].address)
    /\ Len(t.extra) <= MaxExtra

HeaderInForm(h) ==
    /\ h.version = Version1
    /\ Len(h.parents) \in 1 .. MaxParents
    /\ \A pair \in Pairs(h.parents) : IdBelow(pair[1], pair[2])

BlockInForm(b) ==
    /\ HeaderInForm(b.header)
    /\ Len(b.txIds) <= MaxTxs
    /\ \A pair \in Pairs(b.txIds) : IdBelow(pair[1], pair[2])
    /\ b.header.root = PayloadRoot(b.txIds)

MessageInForm(m) == 0 \notin {m.era, m.sequence, m.tip}

CheckpointInForm(c) ==
    /\ MessageInForm(c.message)
    /\ Len(c.signatures) <= Seats
    /\ \A pair \in Pairs(c.signatures) : SeatBelow(pair[1], pair[2])

EvidenceInForm(e) == MessageInForm(e.first) /\ MessageInForm(e.second)

\* The form a reader asks for, said of the value.
InForm(kind, value) ==
    CASE kind = "transaction" -> TxInForm(value)
      [] kind = "header"      -> HeaderInForm(value)
      [] kind = "block"       -> BlockInForm(value)
      [] kind = "checkpoint"  -> CheckpointInForm(value)
      [] kind = "evidence"    -> EvidenceInForm(value)
      [] kind = "authority"   -> TRUE

\* A container with the lists whose order is fixed by the form as sets.
Unordered(kind, value) ==
    CASE kind = "transaction" -> [value EXCEPT !.inputs = ToSet(@)]
      [] kind = "header"      -> [value EXCEPT !.parents = ToSet(@)]
      [] kind = "block"       -> [value EXCEPT !.header.parents = ToSet(@), !.txIds = ToSet(@)]
      [] kind = "checkpoint"  -> [value EXCEPT !.signatures = ToSet(@)]
      [] OTHER                -> value

\* Whatever a reader accepts, as whatever container, is the one word the
\* writer makes of what was read: no identifier (the digest of the word) can
\* be changed without changing the value (encode.rs:5-8, varint.rs:3-8).
OneWordPerValue ==
    \A kind \in Kinds :
        LET read == Decode(kind, wire) IN read.ok => Encode(kind, read.val) = wire

\* A word under way that reads as the same items in another order.
Reordered ==
    LET read == Decode(held.kind, wire)
    IN  /\ read.ok /\ InForm(held.kind, held.value)
        /\ Unordered(held.kind, read.val) = Unordered(held.kind, held.value)
        /\ wire # Encode(held.kind, held.value)

\* A block under way with the header that was sent and another payload.
Repackaged ==
    LET read == DecodeBlock(wire)
    IN  /\ held.kind = "block" /\ InForm("block", held.value)
        /\ read.ok /\ read.val.header = held.value.header
        /\ read.val.txIds # held.value.txIds

\* No relay makes a second word, hence a second identifier, out of the same
\* references, parents, transactions or signatures in another order or with
\* one of them repeated (tx.rs:17-20, header.rs:13-15, checkpoint.rs:11-12),
\* and none keeps the identifier of a block, which covers its header alone,
\* under another payload (block.rs:11-19).
SubstitutionIsRefused == ~Reordered /\ ~Repackaged

\* A word nobody touched is read back as the value that was written, exactly
\* when that value has the canonical form.  A checkpoint whose signatures
\* arrived in another order than that of the seats has not: its own decoder
\* refuses it, quorum or not (checkpoint.rs:115-125 against 179-196).
WhatIsSentIsRead ==
    wire # <<>> /\ faults = 0 =>
        LET read == Decode(held.kind, wire)
        IN  /\ read.ok <=> InForm(held.kind, held.value)
            /\ read.ok => read.val = held.value

\* Every transfer the receiver accepts is, but for the signatures, the one in
\* the sender's hand, and the owner of each of its inputs signed it; whatever
\* was changed on the way there is one identifier for it (tx.rs:17-22).
AcceptedWasSigned ==
    LET transfers == {x \in accepted : x.type = Transfer}
    IN  \A t \in transfers :
            /\ held.kind = "transaction" /\ ZeroSigned(t) = ZeroSigned(held.value)
            /\ \A i \in DOMAIN t.inputs : <<t.inputs[i].key, SigningMessage(held.value)>> \in signed
            /\ \A u \in transfers : u = t

\* Once every input carries a signature they all verify, whatever attempts
\* with wrong keys came before and left some inputs signed (tx.rs:492-507).
WhollySignedVerifies ==
    held.kind = "transaction" /\ (\A i \in DOMAIN held.value.inputs :
                                    held.value.inputs[i].signature # 0)
        => VerifySignatures(held.value)

=============================================================================
