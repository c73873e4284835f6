----------------------------- MODULE Containers -----------------------------
(***************************************************************************)
(* The containers that travel, each with its writer and its strict reader: *)
(* transactions (antumbra-tx/src/tx.rs, with their rules and fees),        *)
(* headers and blocks (antumbra-dag/src), checkpoints and the evidence of  *)
(* a fork (antumbra-ring/src), the authority field (antumbra-agents).      *)
(*                                                                         *)
(* The constructors check nothing: a value need not have the form its      *)
(* reader asks for.                                                        *)
(***************************************************************************)
EXTENDS Wire

CONSTANTS
    MaxInputs, MaxOutputs, MaxExtra,  \* of a transaction
    HeightWidth,                      \* the length of a coinbase's extra field
    MaxParents, MaxTxs,               \* of a header, of a block
    Seats,                            \* of the Ring
    Points,                           \* the keys that are points of the curve
    Addresses,                        \* the addresses that are well formed
    Chunk, FeeBase, FeePerChunk,      \* the fee schedule; a chunk is a kibibyte
    MaxAmount,                        \* the largest u64
    Digest(_)                         \* Keccak-256 of a word: no collisions

Version1 == 1

IdBelow(a, b) == a < b

----------------------------------------------------------------------------
(* Transactions.                                                           *)

Transfer == 0
Coinbase == 6

\* Tags 1 to 5 are reserved: known, and refused like the unknown.
Supported == {Transfer, Coinbase}

WriteTxIn(input) == <<input.ref.tx, input.ref.index, input.key, input.signature>>

WriteTxOut(output) == <<output.address, output.amount>>

WriteHashes(hashes) == WriteList([i \in DOMAIN hashes |-> WriteField(hashes[i])])

EncodeTx(t) ==
    <<t.version, t.type, t.fee>>
        \o WriteList([i \in DOMAIN t.inputs |-> WriteTxIn(t.inputs[i])])
        \o WriteList([i \in DOMAIN t.outputs |-> WriteTxOut(t.outputs[i])])
        \o WriteBytes(t.extra)

Unsigned(input) == [input EXCEPT !.signature = 0]

\* Mutant: the message covers the signatures there are.
SigningMessageAsIs(t) == EncodeTx(t)

ZeroSigned(t) == [t EXCEPT !.inputs = [i \in DOMAIN t.inputs |-> Unsigned(t.inputs[i])]]

\* What every signature covers: the encoding with the signatures zeroed.
SigningMessage(t) == EncodeTx(ZeroSigned(t))

\* The encoding of a point; the field an address decodes from, its network
\* byte and keys under their checksum.
IsPoint(field) == field \in Points
IsAddress(field) == field \in Addresses

RefBelow(a, b) == a.ref.tx < b.ref.tx \/ (a.ref.tx = b.ref.tx /\ a.ref.index < b.ref.index)

ReadTxIn(f) == [ref |-> [tx |-> f[1], index |-> f[2]], key |-> f[3], signature |-> f[4]]

ReadTxOut(f) == [address |-> f[1], amount |-> f[2]]

InputsOf(fields) == LET items == Items(fields, 4) IN [i \in DOMAIN items |-> ReadTxIn(items[i])]

OutputsOf(fields) == LET items == Items(fields, 2) IN [i \in DOMAIN items |-> ReadTxOut(items[i])]

InputsInForm(inputs) ==
    /\ \A i \in DOMAIN inputs : IsPoint(inputs[i].key)
    /\ \A pair \in Neighbours(inputs) : RefBelow(pair[1], pair[2])

OutputsInForm(outputs) == \A i \in DOMAIN outputs : IsAddress(outputs[i].address)

ReadInputs(r) == Require(r, InputsInForm(InputsOf(Last(r.vals))))
ReadOutputs(r) == Require(r, OutputsInForm(OutputsOf(Last(r.vals))))
ReadExtra(r) == Require(r, Len(Last(r.vals)) <= MaxExtra)

TxFrom(r) ==
    [ok |-> r.ok,
     val |-> [version |-> r.vals[1], type |-> r.vals[2], fee |-> r.vals[3],
              inputs |-> InputsOf(r.vals[4]), outputs |-> OutputsOf(r.vals[5]),
              extra |-> r.vals[6]]]

DecodeTx(word) ==
    LET version == ReadFieldIn(Open(word), {Version1})
        fee     == ReadField(ReadFieldIn(version, Supported))
        inputs  == ReadInputs(ReadList(fee, MaxInputs, 4))
        outputs == ReadOutputs(ReadList(inputs, MaxOutputs, 2))
        extra   == ReadExtra(ReadBytes(outputs))
    IN  TxFrom(Finish(extra))

\* The started chunks, one at least.
ChunksOf(size) == IF size = 0 THEN 1 ELSE (size + Chunk - 1) \div Chunk

\* A minimum that does not fit is replaced by the largest amount.
MinimumFee(size) ==
    LET minimum == FeeBase + FeePerChunk * ChunksOf(size)
    IN  IF minimum <= MaxAmount THEN minimum ELSE MaxAmount

PaysAll(t) == \A i \in DOMAIN t.outputs : t.outputs[i].amount > 0

ValidateCoinbase(t) ==
    /\ t.inputs = <<>>
    /\ t.fee = 0
    /\ Len(t.outputs) \in 1 .. 2
    /\ PaysAll(t)
    /\ Len(t.extra) = HeightWidth

Validate(t) ==
    IF t.type = Coinbase
    THEN ValidateCoinbase(t)
    ELSE /\ t.inputs # <<>>
         /\ t.outputs # <<>>
         /\ PaysAll(t)
         /\ t.fee >= MinimumFee(Len(EncodeTx(t)))

----------------------------------------------------------------------------
(* Headers and blocks.                                                     *)

EncodeHeader(h) ==
    <<h.version>> \o WriteHashes(h.parents)
        \o <<h.height, h.timestamp, h.nonce, h.root>>

\* Mutant: the parents are counted, their order is not looked at.
ParentsCounted(parents) == Len(parents) > 0

\* At least one parent, strictly ascending.
ParentsInForm(parents) ==
    Len(parents) > 0 /\ \A pair \in Neighbours(parents) : IdBelow(pair[1], pair[2])

ReadParents(r) == Require(r, ParentsInForm(Last(r.vals)))

\* Shared with the block: a reader left after the header.
ReadHeader(r) ==
    LET version == ReadFieldIn(r, {Version1})
        parents == ReadParents(ReadList(version, MaxParents, 1))
        time    == ReadField(ReadField(parents))
    IN  ReadField(ReadField(time))

HeaderFrom(r) ==
    [ok |-> r.ok,
     val |-> [version |-> r.vals[1], parents |-> r.vals[2], height |-> r.vals[3],
              timestamp |-> r.vals[4], nonce |-> r.vals[5], root |-> r.vals[6]]]

DecodeHeader(word) == HeaderFrom(Finish(ReadHeader(Open(word))))

PayloadRoot(txIds) == Digest(WriteHashes(txIds))

EncodeBlock(b) == EncodeHeader(b.header) \o WriteHashes(b.txIds)

Commits(header, txIds) == PayloadRoot(txIds) = header.root

IdsInForm(txIds) == \A pair \in Neighbours(txIds) : IdBelow(pair[1], pair[2])

ReadIds(r) == Require(r, IdsInForm(Last(r.vals)))

\* The last of all rules is that the header commits the payload.
BlockFrom(r) ==
    LET header == HeaderFrom(r).val
    IN  [ok |-> r.ok /\ Commits(header, r.vals[7]),
         val |-> [header |-> header, txIds |-> r.vals[7]]]

DecodeBlock(word) ==
    BlockFrom(Finish(ReadIds(ReadList(ReadHeader(Open(word)), MaxTxs, 1))))

----------------------------------------------------------------------------
(* Checkpoints and evidence.                                               *)

\* Also what a seat signs.
EncodeMessage(m) == <<Version1, m.era, m.sequence, m.tip, m.orderRoot>>

\* Neither the era, nor the sequence, nor the tip is zero.
ReadMessage(r) ==
    LET era      == ReadFieldIn(ReadFieldIn(r, {Version1}), Nat \ {0})
        sequence == ReadFieldIn(era, Nat \ {0})
    IN  ReadField(ReadFieldIn(sequence, Nat \ {0}))

\* The message whose version is the value at a place.
MessageAt(vals, at) ==
    [era |-> vals[at + 1], sequence |-> vals[at + 2], tip |-> vals[at + 3],
     orderRoot |-> vals[at + 4]]

WriteSeatSignature(s) == <<s.seat, s.signature>>

ReadSeatSignature(f) == [seat |-> f[1], signature |-> f[2]]

SignaturesOf(fields) ==
    LET items == Items(fields, 2) IN [i \in DOMAIN items |-> ReadSeatSignature(items[i])]

SeatBelow(a, b) == a.seat < b.seat

EncodeCheckpoint(c) ==
    EncodeMessage(c.message)
        \o WriteList([i \in DOMAIN c.signatures |-> WriteSeatSignature(c.signatures[i])])

\* Mutant: a full Ring is one seat too many.
FewSeats == Seats - 1

MostSeats == Seats

SignaturesInForm(signatures) ==
    \A pair \in Neighbours(signatures) : SeatBelow(pair[1], pair[2])

ReadSignatures(r) == Require(r, SignaturesInForm(SignaturesOf(Last(r.vals))))

CheckpointFrom(r) ==
    [ok |-> r.ok,
     val |-> [message |-> MessageAt(r.vals, 1), signatures |-> SignaturesOf(r.vals[6])]]

DecodeCheckpoint(word) ==
    CheckpointFrom(Finish(ReadSignatures(ReadList(ReadMessage(Open(word)), MostSeats, 2))))

EncodeEvidence(e) ==
    <<e.seat>> \o EncodeMessage(e.first) \o <<e.firstSignature>>
        \o EncodeMessage(e.second) \o <<e.secondSignature>>

EvidenceFrom(r) ==
    [ok |-> r.ok,
     val |-> [seat |-> r.vals[1],
              first |-> MessageAt(r.vals, 2), firstSignature |-> r.vals[7],
              second |-> MessageAt(r.vals, 8), secondSignature |-> r.vals[13]]]

DecodeEvidence(word) ==
    LET first == ReadField(ReadMessage(ReadField(Open(word))))
    IN  EvidenceFrom(Finish(ReadField(ReadMessage(first))))

----------------------------------------------------------------------------
(* The authority of a spend: a payload (the commitment of a human, the     *)
(* warrant root of an agent) and a pad that derives from it in one way.    *)

Pad(payload) == Digest(<<0, payload>>)

EncodeAuthority(payload) == <<payload, Pad(payload)>>

\* The field has a fixed width; its second half must derive from the first.
AuthorityFrom(r) == [ok |-> r.ok /\ r.vals[2] = Pad(r.vals[1]), val |-> r.vals[1]]

WellFormedAuthority(word) == AuthorityFrom(Finish(ReadField(ReadField(Open(word)))))

----------------------------------------------------------------------------

Kinds == {"transaction", "header", "block", "checkpoint", "evidence", "authority"}

Encode(kind, value) ==
    CASE kind = "transaction" -> EncodeTx(value)
      [] kind = "header"      -> EncodeHeader(value)
      [] kind = "block"       -> EncodeBlock(value)
      [] kind = "checkpoint"  -> EncodeCheckpoint(value)
      [] kind = "evidence"    -> EncodeEvidence(value)
      [] kind = "authority"   -> EncodeAuthority(value)

Decode(kind, word) ==
    CASE kind = "transaction" -> DecodeTx(word)
      [] kind = "header"      -> DecodeHeader(word)
      [] kind = "block"       -> DecodeBlock(word)
      [] kind = "checkpoint"  -> DecodeCheckpoint(word)
      [] kind = "evidence"    -> DecodeEvidence(word)
      [] kind = "authority"   -> WellFormedAuthority(word)

=============================================================================
