------------------------------ MODULE Warrant -------------------------------
(***************************************************************************)
(* The machine accounts (antumbra-agents/src): one warrant spending under  *)
(* one mandate, its batches, one stream paid beside it, its receipts, and  *)
(* the sponsor who collects what a revocation leaves.                      *)
(*                                                                         *)
(* The crate is a set of functions without a caller.  The clock, the agent *)
(* who spends, the sponsor who revokes and collects, and the order they    *)
(* arrive in are the environment: any of them at any tick.                 *)
(***************************************************************************)
EXTENDS Integers, Sequences, SequencesExt

CONSTANTS
    Mandates,        \* the mandates offered, well formed or not
    Version,         \* MANDATE_VERSION
    AmountCeiling,   \* MANDATE_MAX_AMOUNT_ATOMIC
    MaxDests,        \* MANDATE_MAX_DESTS, the width of the destination array
    Zero,            \* the zero hash: padding, never a destination
    Dests,           \* the destinations payments name
    Amounts,         \* bound: the amounts of single spends
    Batches,         \* bound: the batches tried, sequences of payments
    BatchMax,        \* BATCH_MAX_PAYMENTS
    NonceSpan,       \* the nonce is a u32: the values before it wraps
    TickMax,         \* ticks are u32: the last one, where sums saturate
    DrainDelay,      \* DRAIN_DELAY_TICKS
    Rate, Cap,       \* the stream
    Facts, Salts     \* what receipts commit to

VARIABLES
    now,             \* the tick every caller passes
    mandate, remaining, nonce, revoked, revocationTick,   \* the warrant
    paid, closed,    \* the stream
    receipts,        \* the commitments published
    opened,          \* those whose fact and salt were shown
    honoured,        \* history: those opened while the warrant lived
    drained, collected,          \* the sponsor's collection
    moved, spends, reached       \* history: what logical spends moved, how
                                 \* many there were, and to whom

bondVars == <<mandate, remaining, nonce, moved, spends, reached>>
streamVars == <<paid, closed>>
receiptVars == <<receipts, opened, honoured>>
drainVars == <<drained, collected>>
wallVars == <<revoked, revocationTick>>
warrantVars == <<now, bondVars, wallVars, streamVars, receiptVars, drainVars>>

Lesser(a, b) == IF a <= b THEN a ELSE b

\* saturating_add on ticks.
Later(tick, delay) == Lesser(tick + delay, TickMax)

----------------------------------------------------------------------------
(* The mandate.                                                            *)

\* What a builder fills in; new refuses what the grammar refuses.
NewMandate(amount, rate, expiry, types, rails, dests, count) ==
    [version |-> Version, max_amount |-> amount, max_rate |-> rate,
     expiry_tick |-> expiry, job_types |-> types, rails |-> rails,
     dests |-> dests, dest_count |-> count]

WellFormed(m) ==
    /\ m.version = Version
    /\ m.max_amount <= AmountCeiling
    /\ m.max_rate <= m.max_amount
    /\ m.rails \subseteq {"A", "B"}
    /\ m.dest_count <= MaxDests
    /\ \A i \in 1 .. MaxDests : i <= m.dest_count <=> m.dests[i] # Zero
    /\ \A i, j \in 1 .. m.dest_count : m.dests[i] = m.dests[j] => i = j

PermitsDest(m, dest) ==
    \E i \in 1 .. Lesser(m.dest_count, MaxDests) : m.dests[i] = dest

PermitsJob(m, kind) == kind \in m.job_types

----------------------------------------------------------------------------
(* Spending: every check of one logical spend, of a payment or of a batch. *)

Moves(dest, amount, given) ==
    /\ ~revoked
    /\ now < mandate.expiry_tick
    /\ amount > 0
    /\ given = (nonce + 1) % NonceSpan
    /\ PermitsDest(mandate, dest)
    /\ amount <= mandate.max_rate
    /\ amount <= remaining
    /\ remaining' = remaining - amount
    /\ nonce' = given
    /\ moved' = moved + amount
    /\ spends' = spends + 1
    /\ UNCHANGED <<mandate, now, wallVars, streamVars, receiptVars, drainVars>>

Spend(dest, amount, given) ==
    /\ Moves(dest, amount, given)
    /\ reached' = reached \cup {dest}

\* A total above u64 is refused like any total above what remains.
Total(batch) == FoldLeft(LAMBDA sum, payment : sum + payment.amount, 0, batch)

\* Mutant: only the destination the spend is booked on is checked.
FirstPayable(batch) ==
    /\ \A i \in DOMAIN batch : batch[i].amount > 0
    /\ PermitsDest(mandate, batch[1].dest)

Payable(batch) ==
    \A i \in DOMAIN batch :
        batch[i].amount > 0 /\ PermitsDest(mandate, batch[i].dest)

Batch(batch, given) ==
    /\ Len(batch) \in 1 .. BatchMax
    /\ Payable(batch)
    /\ Moves(batch[1].dest, Total(batch), given)
    /\ reached' = reached \cup {batch[i].dest : i \in DOMAIN batch}

----------------------------------------------------------------------------
(* The wall and the drain.                                                 *)

\* Mutant: every revocation is recorded, not the first.
RevokeAgain ==
    /\ revoked' = TRUE
    /\ revocationTick' = now
    /\ UNCHANGED <<now, bondVars, streamVars, receiptVars, drainVars>>

\* A second revocation changes nothing.
Revoke ==
    /\ ~revoked
    /\ revoked' = TRUE
    /\ revocationTick' = now
    /\ UNCHANGED <<now, bondVars, streamVars, receiptVars, drainVars>>

\* Mutant: the tick before the delay is over.
DrainReadyOnTheEve == revoked /\ now + 1 >= Later(revocationTick, DrainDelay)

\* Mutant: the sum does not saturate.
DrainReadyUnbounded == revoked /\ now >= revocationTick + DrainDelay

DrainReady == revoked /\ now >= Later(revocationTick, DrainDelay)

\* The sponsor collects, once, what remains.
Drain ==
    /\ DrainReady
    /\ ~drained
    /\ drained' = TRUE
    /\ collected' = remaining
    /\ UNCHANGED <<now, bondVars, wallVars, streamVars, receiptVars>>

----------------------------------------------------------------------------
(* The stream: one call per tick, told whether the warrant is revoked.  It *)
(* reads neither the mandate's expiry nor the warrant's remaining amount.  *)

StreamPays == IF closed \/ revoked THEN 0 ELSE Lesser(Rate, Cap - paid)

Tick ==
    /\ now < TickMax
    /\ now' = now + 1
    /\ paid' = paid + StreamPays
    /\ UNCHANGED <<bondVars, wallVars, closed, receiptVars, drainVars>>

Close ==
    /\ closed' = TRUE
    /\ UNCHANGED <<now, bondVars, wallVars, paid, receiptVars, drainVars>>

----------------------------------------------------------------------------
(* Receipts.  A commitment is a hash of a fact and a salt: their pair.     *)

Commitment(fact, salt) == <<fact, salt>>

Commit(fact, salt) ==
    /\ receipts' = receipts \cup {Commitment(fact, salt)}
    /\ UNCHANGED <<now, bondVars, wallVars, streamVars, opened, honoured, drainVars>>

Verify(commitment, fact, salt) ==
    /\ commitment = Commitment(fact, salt)
    /\ opened' = opened \cup {commitment}
    /\ honoured' = IF revoked THEN honoured ELSE opened'
    /\ UNCHANGED <<now, bondVars, wallVars, streamVars, receipts, drainVars>>

Status(commitment) ==
    IF revoked THEN "failed" ELSE IF commitment \in opened THEN "paid" ELSE "open"

----------------------------------------------------------------------------

ASSUME WarrantAssumption ==
    /\ AmountCeiling \in Nat /\ MaxDests \in Nat /\ BatchMax \in Nat
    /\ TickMax \in Nat /\ DrainDelay \in Nat /\ Rate \in Nat /\ Cap \in Nat
    /\ NonceSpan \in Nat \ {0}
    /\ \A m \in Mandates :
           /\ m.max_amount \in Nat /\ m.max_rate \in Nat
           /\ m.expiry_tick \in Nat /\ m.dest_count \in Nat
           /\ DOMAIN m.dests = 1 .. MaxDests
    /\ Amounts \subseteq Nat
    /\ \A batch \in Batches : Total(batch) \in Nat /\ DOMAIN batch = 1 .. Len(batch)

\* A warrant opens at full capacity, on a mandate the grammar accepts.
WarrantInit ==
    /\ mandate \in {m \in Mandates : WellFormed(m)}
    /\ remaining = mandate.max_amount
    /\ nonce = 0
    /\ revoked = FALSE /\ revocationTick = 0
    /\ now = 0
    /\ paid = 0 /\ closed = FALSE
    /\ receipts = {} /\ opened = {} /\ honoured = {}
    /\ drained = FALSE /\ collected = 0
    /\ moved = 0 /\ spends = 0 /\ reached = {}

Spending ==
    \E given \in 0 .. NonceSpan - 1 :
        \/ \E dest \in Dests, amount \in Amounts : Spend(dest, amount, given)
        \/ \E batch \in Batches : Batch(batch, given)

Promising ==
    \E fact \in Facts, salt \in Salts :
        \/ Commit(fact, salt)
        \/ \E commitment \in receipts : Verify(commitment, fact, salt)

WarrantNext == Spending \/ Revoke \/ Drain \/ Close \/ Promising

----------------------------------------------------------------------------

\* The type of a warrant.
WarrantTypeOK ==
    /\ now \in 0 .. TickMax
    /\ mandate \in Mandates /\ WellFormed(mandate)
    /\ remaining \in Nat /\ nonce \in Nat /\ collected \in Nat
    /\ moved \in Nat /\ spends \in Nat
    /\ revoked \in BOOLEAN /\ revocationTick \in 0 .. now
    /\ paid \in 0 .. Cap /\ closed \in BOOLEAN
    /\ drained \in BOOLEAN

\* What was granted is what moved and what remains, and once the sponsor has
\* collected nothing else can move; what moved went inside the perimeter, in
\* logical spends that each kept the rate and took the next nonce, though a
\* batch books its whole total on its first destination (warrant.rs spend,
\* batch.rs batch).
BondIsAccounted ==
    /\ moved + remaining = mandate.max_amount
    /\ drained => moved + collected = mandate.max_amount
    /\ reached \subseteq {mandate.dests[i] : i \in 1 .. mandate.dest_count}
    /\ Zero \notin reached
    /\ moved <= spends * mandate.max_rate
    /\ nonce = spends % NonceSpan

\* Once revoked, the wall stands: its tick never moves, nothing more is
\* spent or streamed, every receipt that was not opened before it reads
\* failed for good, opened behind it or not, and the sponsor collects only
\* when the delay from the first revocation is over, or at the last tick
\* there is (warrant.rs revoke and drain_ready, stream.rs tick, receipt.rs
\* status).
WallHolds ==
    [][revoked =>
           /\ revoked' /\ revocationTick' = revocationTick
           /\ UNCHANGED <<moved, spends, reached, paid>>
           /\ \A commitment \in receipts' \ honoured' : Status(commitment)' = "failed"
           /\ drained' # drained =>
                  now >= revocationTick + DrainDelay \/ now = TickMax]_warrantVars

\* A receipt reads paid once it was "opened and settled while the warrant
\* lived"; failed is for the promise whose warrant "was revoked before the
\* opening" (receipt.rs:59-62).
PaidIsForGood == \A commitment \in honoured : Status(commitment) = "paid"

=============================================================================
