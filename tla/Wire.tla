-------------------------------- MODULE Wire --------------------------------
(***************************************************************************)
(* The canonical encoding every consensus structure is written in          *)
(* (antumbra-primitives/src/encode.rs and varint.rs): a flat sequence of   *)
(* fixed-width fields, counts as varints, byte strings after their length. *)
(*                                                                         *)
(* A fixed-width field (an integer, a hash, a key, a signature) is one     *)
(* natural number on the wire: no property tells apart the bytes of a      *)
(* field.  Varints keep their groups: a group is a payload below Base,     *)
(* plus Base when another group follows (seven bits and the high bit in    *)
(* the code, Base = 128), Groups is the most there may be (ten), and the   *)
(* last of them has room for one bit.                                      *)
(*                                                                         *)
(* A reader is a record: the word it reads, its position, whether it has   *)
(* refused (the Err the code returns at once) and the values it has read.  *)
(* One that refused reads no further and holds zeros and empty lists.      *)
(***************************************************************************)
EXTENDS Integers, Sequences, SequencesExt

CONSTANTS Base, Groups

ASSUME WireAssumption ==
    /\ Base \in Nat /\ Base > 1
    /\ Groups \in Nat /\ Groups > 1

----------------------------------------------------------------------------
(* The writer.                                                             *)

\* The lowest digit first, and as few groups as hold the value.
WriteVarint[value \in Nat] ==
    IF value < Base THEN <<value>>
                    ELSE <<(value % Base) + Base>> \o WriteVarint[value \div Base]

\* A fixed-width integer or array, without a length.
WriteField(value) == <<value>>

WriteBytes(bytes) == WriteVarint[Len(bytes)] \o bytes

\* A count, then the fields of every item.
WriteList(items) == WriteVarint[Len(items)] \o FlattenSeq(items)

----------------------------------------------------------------------------
(* The reader.                                                             *)

Open(word) == [buf |-> word, pos |-> 0, ok |-> TRUE, vals |-> <<>>]

Refuse(r) == [r EXCEPT !.ok = FALSE]

Require(r, holds) == IF holds THEN r ELSE Refuse(r)

Put(r, value) == [r EXCEPT !.vals = Append(@, value)]

Remaining(r) == Len(r.buf) - r.pos

\* The next n fields are there.
Fits(r, n) == r.ok /\ n <= Remaining(r)

Take(r, n) == [r EXCEPT !.pos = @ + n]

ReadField(r) ==
    IF Fits(r, 1) THEN Put(Take(r, 1), r.buf[r.pos + 1]) ELSE Put(Refuse(r), 0)

\* A field with a rule on its value.
ReadFieldIn(r, S) ==
    IF Fits(r, 1) /\ r.buf[r.pos + 1] \in S THEN ReadField(r) ELSE Put(Refuse(r), 0)

\* The groups that another one follows.  A field that is no group is no part of
\* a varint: a reader that takes a piece of a wider field is not modelled.
Continued == Base .. 2 * Base - 1

\* Mutant: a last group of zero is let through.
PaddedVarintAt(word, at, n) ==
    /\ at + n <= Len(word)
    /\ \A i \in 1 .. n - 1 : word[at + i] \in Continued
    /\ IF n = Groups THEN word[at + n] = 1 ELSE word[at + n] < Base

\* n groups after position at are a varint: all but the last continue, the
\* last is not a superfluous zero, and the one past which nothing fits is a
\* one.  No two n qualify.
VarintAt(word, at, n) ==
    /\ at + n <= Len(word)
    /\ \A i \in 1 .. n - 1 : word[at + i] \in Continued
    /\ IF n = Groups THEN word[at + n] = 1 ELSE word[at + n] < Base /\ (word[at + n] > 0 \/ n = 1)

\* The value whose digits are the payloads of the groups.
ValueOf[groups \in Seq(Nat)] ==
    IF groups = <<>> THEN 0 ELSE (Head(groups) % Base) + Base * ValueOf[Tail(groups)]

ReadVarint(r) ==
    LET lengths == {n \in 1 .. Groups : VarintAt(r.buf, r.pos, n)}
        n       == CHOOSE n \in lengths : TRUE
    IN  IF r.ok /\ lengths # {}
        THEN Put(Take(r, n), ValueOf[SubSeq(r.buf, r.pos + 1, r.pos + n)])
        ELSE Put(Refuse(r), 0)

\* A reader that has just read a count goes on with so many items of a width
\* and holds their fields instead of the count.
ReadItems(r, most, width) ==
    LET n == Last(r.vals) * width
    IN  IF Last(r.vals) <= most /\ Fits(r, n)
        THEN [Take(r, n) EXCEPT !.vals = Append(Front(@), SubSeq(r.buf, r.pos + 1, r.pos + n))]
        ELSE [Refuse(r) EXCEPT !.vals = Append(Front(@), <<>>)]

ReadList(r, most, width) == ReadItems(ReadVarint(r), most, width)

\* The announced length must fit what is left.
ReadBytes(r) == ReadList(r, Remaining(r), 1)

\* The items of a list, from its fields.
Items(fields, width) ==
    [i \in 1 .. Len(fields) \div width |-> SubSeq(fields, (i - 1) * width + 1, i * width)]

\* Nothing may be left.
Finish(r) == Require(r, Remaining(r) = 0)

\* windows(2): each item with the next.
Neighbours(items) == {<<items[i], items[i + 1]>> : i \in 1 .. Len(items) - 1}

=============================================================================
