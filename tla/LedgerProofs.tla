----------------------------- MODULE LedgerProofs -----------------------------
(***************************************************************************)
(* Proofs about the ledger.  First what its rules say of one block, for    *)
(* any ledger value: values of sets of references, what a valid block      *)
(* claims and makes, what its commit leaves and what its coinbase pays;    *)
(* the proofs about the engine rest on these too.  Then the ledger as a    *)
(* machine, for every calendar, every maturity, every order of transaction *)
(* ids and every set of payloads.                                          *)
(***************************************************************************)
EXTENDS Ledger, Induction, TLAPS

\* A payload as it is read: finite, its transactions in form, its ids ordered.
IsPayload(txs) ==
    /\ IsFiniteSet(txs)
    /\ \A t \in txs : IsPlausible(t)
    /\ \A t, u \in Transfers(txs) : t # u => Before(t, u) \/ Before(u, t)

----------------------------------------------------------------------------
(* The references of sets of transactions.                                 *)

\* References and claims of a union are those of its parts.
LEMMA Distribute ==
  ASSUME NEW S, NEW T
  PROVE  /\ Made(S \cup T) = Made(S) \cup Made(T)
         /\ Transfers(S \cup T) = Transfers(S) \cup Transfers(T)
         /\ Consumed(S \cup T) = Consumed(S) \cup Consumed(T)
  BY DEF Made, Transfers, Consumed

\* A reference names its transaction.
LEMMA RefNames ==
  ASSUME NEW S, NEW ref
  PROVE  ref \in Made(S) <=> \E t \in S : ref \in RefsOf(t) /\ ref[1] = t
  BY DEF Made, RefsOf

----------------------------------------------------------------------------
(* One block.                                                              *)

\* What the commit leaves in the parts of the ledger the invariant is about.
LEMMA Committed ==
  ASSUME NEW l, NEW txs, NEW m, m = Commit(l, txs)
  PROVE  /\ m.applied = l.applied + 1
         /\ m.spent = l.spent \cup Consumed(Transfers(txs))
         /\ DOMAIN m.utxos = (DOMAIN l.utxos \cup Made(txs)) \ Consumed(Transfers(txs))
         /\ \A ref \in DOMAIN m.utxos :
              m.utxos[ref] = IF ref \in Made(txs) THEN EntryOf(l, ref) ELSE l.utxos[ref]
  BY DEF Commit

\* Every transfer of a valid block claims outputs that are unspent or made by
\* an earlier transfer of the block, makes outputs that are new, and obeys the
\* maturity of what it claims.  The genesis has no transfer.
LEMMA ValidTransfers ==
  ASSUME NEW l, NEW height, NEW txs, BlockHolds(l, height, txs),
         NEW t \in Transfers(txs)
  PROVE  /\ \A ref \in Claims(t) :
              /\ ref \in DOMAIN l.utxos
                   \/ \E u \in Transfers(txs) : Before(u, t) /\ ref \in RefsOf(u)
              /\ \A u \in Transfers(txs) : Before(u, t) => ref \notin Claims(u)
              /\ IsMature(l, ref, l.applied)
         /\ RefsOf(t) \cap (DOMAIN l.utxos \cup l.spent) = {}
<1>1. TransferHolds(l, t, l.applied, txs)
  BY DEF BlockHolds, Transfers
<1> DEFINE earlier == {u \in Transfers(txs) : Before(u, t)}
<1>2. RefsOf(t) \cap (DOMAIN l.utxos \cup l.spent) = {}
  BY <1>1 DEF TransferHolds
<1>3. ASSUME NEW ref \in Claims(t)
      PROVE  /\ Exists(l, earlier, ref)
             /\ ref \notin Consumed(earlier)
             /\ IsMature(l, ref, l.applied)
  <2>1. PICK input \in t.inputs : ref = input.ref
    BY <1>3 DEF Claims
  <2>2. QED
    BY <1>1, <2>1 DEF TransferHolds
<1>4. ASSUME NEW ref \in Claims(t)
      PROVE  ref \in DOMAIN l.utxos
                \/ \E u \in Transfers(txs) : Before(u, t) /\ ref \in RefsOf(u)
  BY <1>3, <1>4 DEF Exists, Made
<1>5. ASSUME NEW ref \in Claims(t), NEW u \in Transfers(txs), Before(u, t)
      PROVE  ref \notin Claims(u)
  BY <1>3, <1>5 DEF Consumed
<1>6. QED
  BY <1>2, <1>3, <1>4, <1>5

\* The sides of a ledger that applied the transactions A: the unspent and the
\* spent references are disjoint, are together what A makes, and the spent
\* ones are what its transfers claim.
OneSide(l, A) ==
    /\ DOMAIN l.utxos \cap l.spent = {}
    /\ DOMAIN l.utxos \cup l.spent = Made(A)
    /\ l.spent = Consumed(Transfers(A))

\* What a valid block makes was neither unspent nor spent: transfers by the
\* collision rule, coinbases because they are new.
LEMMA MadeIsNew ==
  ASSUME NEW l, NEW A, OneSide(l, A),
         NEW height, NEW txs, BlockHolds(l, height, txs), A \cap Coinbases(txs) = {}
  PROVE  Made(txs) \cap Made(A) = {}
<1> SUFFICES ASSUME NEW ref \in Made(txs), ref \in Made(A)
             PROVE  FALSE
  OBVIOUS
<1>1. PICK t \in txs : ref \in RefsOf(t) /\ ref[1] = t
  BY RefNames
<1>2. CASE t \in Transfers(txs)
  BY <1>1, <1>2, ValidTransfers DEF OneSide
<1>3. CASE t \notin Transfers(txs)
  <2>1. t \in Coinbases(txs)
    BY <1>3 DEF Transfers, Coinbases
  <2>2. t \in A
    BY <1>1, RefNames
  <2>3. QED
    BY <2>1, <2>2
<1>4. QED
  BY <1>2, <1>3

\* Nothing a transfer of a valid block claims is on the spent side.
LEMMA ClaimsAreFresh ==
  ASSUME NEW l, DOMAIN l.utxos \cap l.spent = {},
         NEW height, NEW txs, BlockHolds(l, height, txs),
         NEW t \in Transfers(txs)
  PROVE  Claims(t) \cap l.spent = {}
<1> SUFFICES ASSUME NEW ref \in Claims(t), ref \in l.spent PROVE FALSE
  OBVIOUS
<1>1. ref \notin DOMAIN l.utxos
  OBVIOUS
<1>2. PICK u \in Transfers(txs) : ref \in RefsOf(u)
  BY <1>1, ValidTransfers
<1>3. QED
  BY <1>2, ValidTransfers

\* What the transfers of a valid block claim is unspent or made by the block,
\* and was not spent.
LEMMA ConsumedIsThere ==
  ASSUME NEW l, DOMAIN l.utxos \cap l.spent = {},
         NEW height, NEW txs, BlockHolds(l, height, txs)
  PROVE  /\ Consumed(Transfers(txs)) \subseteq DOMAIN l.utxos \cup Made(txs)
         /\ Consumed(Transfers(txs)) \cap l.spent = {}
<1>1. ASSUME NEW ref \in Consumed(Transfers(txs))
      PROVE  ref \in DOMAIN l.utxos \cup Made(txs) /\ ref \notin l.spent
  <2>1. PICK t \in Transfers(txs) : ref \in Claims(t)
    BY DEF Consumed
  <2>2. ref \in DOMAIN l.utxos \/ \E u \in Transfers(txs) : ref \in RefsOf(u)
    BY <2>1, ValidTransfers
  <2>3. ref \notin l.spent
    BY <2>1, ClaimsAreFresh
  <2>4. QED
    BY <2>2, <2>3 DEF Made, Transfers
<1>2. QED
  BY <1>1

\* Of two transfers of a valid block the one that comes later claims nothing
\* the earlier one does.
LEMMA OneSpenderInBlock ==
  ASSUME NEW l, NEW height, NEW txs, IsPayload(txs), BlockHolds(l, height, txs),
         NEW t \in Transfers(txs), NEW u \in Transfers(txs), t # u
  PROVE  Claims(t) \cap Claims(u) = {}
<1>1. Before(t, u) \/ Before(u, t)
  BY DEF IsPayload
<1>2. QED
  BY <1>1, ValidTransfers

\* A valid block with a new coinbase keeps the sides.
LEMMA SidesHold ==
  ASSUME NEW l, NEW A, OneSide(l, A),
         NEW height, NEW txs, BlockHolds(l, height, txs), A \cap Coinbases(txs) = {},
         NEW m, m = Commit(l, txs)
  PROVE  OneSide(m, A \cup txs)
<1> DEFINE consumed == Consumed(Transfers(txs))
<1>1. Made(txs) \cap (DOMAIN l.utxos \cup l.spent) = {}
  BY MadeIsNew DEF OneSide
<1>2. consumed \subseteq DOMAIN l.utxos \cup Made(txs)
  BY ConsumedIsThere DEF OneSide
<1>3. /\ DOMAIN l.utxos \cap l.spent = {}
      /\ DOMAIN l.utxos \cup l.spent = Made(A)
      /\ l.spent = Consumed(Transfers(A))
  BY DEF OneSide
<1>4. Made(A \cup txs) = Made(A) \cup Made(txs)
  BY Distribute, Zenon
<1>5. Consumed(Transfers(A \cup txs)) = Consumed(Transfers(A)) \cup consumed
  <2>1. Transfers(A \cup txs) = Transfers(A) \cup Transfers(txs)
    BY Distribute, Zenon
  <2>2. Consumed(Transfers(A) \cup Transfers(txs))
          = Consumed(Transfers(A)) \cup Consumed(Transfers(txs))
    BY Distribute, Zenon
  <2>3. QED
    BY <2>1, <2>2
<1>6. /\ m.spent = l.spent \cup consumed
      /\ DOMAIN m.utxos = (DOMAIN l.utxos \cup Made(txs)) \ consumed
  BY Committed
<1>7. QED
  BY <1>1, <1>2, <1>3, <1>4, <1>5, <1>6 DEF OneSide

----------------------------------------------------------------------------
(* Values.                                                                 *)

\* A set of references that can be added up.
Countable(refs) == IsFiniteSet(refs) /\ \A ref \in refs : OutputAt(ref).amount \in Nat

\* The value of a set of references is that of any table that agrees with it.
LEMMA ValueByTable ==
  ASSUME NEW refs, Countable(refs), NEW amounts, \A ref \in refs : amounts[ref] = OutputAt(ref).amount
  PROVE  ValueOf(refs) = SumFunctionOnSet(amounts, refs)
<1> DEFINE f == [ref \in refs |-> OutputAt(ref).amount]
<1>1. IsFiniteSet(refs) /\ \A ref \in refs : f[ref] \in Int /\ f[ref] = amounts[ref]
  BY DEF Countable
<1>2. ValueOf(refs) = SumFunctionOnSet(f, DOMAIN f)
  BY DEF ValueOf, SumFunction
<1>3. DOMAIN f = refs
  OBVIOUS
<1> HIDE DEF f
<1>4. SumFunctionOnSet(f, refs) = SumFunctionOnSet(amounts, refs)
  BY <1>1, SumEqual
<1>5. QED
  BY <1>2, <1>3, <1>4

\* The value of a set of references is a natural number, none for no reference.
LEMMA ValueType ==
  ASSUME NEW refs, Countable(refs)
  PROVE  ValueOf(refs) \in Nat /\ (refs = {} => ValueOf(refs) = 0)
<1> DEFINE amounts == [ref \in refs |-> OutputAt(ref).amount]
<1>1. \A ref \in refs : amounts[ref] = OutputAt(ref).amount /\ amounts[ref] \in Nat
  BY DEF Countable
<1>2. IsFiniteSet(refs) /\ Nat \in {Nat, Int}
  BY DEF Countable
<1> HIDE DEF amounts
<1>3. ValueOf(refs) = SumFunctionOnSet(amounts, refs)
  BY <1>1, ValueByTable
<1>4. QED
  BY <1>1, <1>2, <1>3, SumType

\* Values of disjoint sets add up.
LEMMA ValueOfUnion ==
  ASSUME NEW R, Countable(R), NEW S, Countable(S), R \cap S = {}
  PROVE  Countable(R \cup S) /\ ValueOf(R \cup S) = ValueOf(R) + ValueOf(S)
<1> DEFINE T == R \cup S
           amounts == [ref \in T |-> OutputAt(ref).amount]
<1>1. Countable(T) /\ IsFiniteSet(R) /\ IsFiniteSet(S)
  BY FS_Union DEF Countable
<1>2. \A ref \in T : amounts[ref] = OutputAt(ref).amount /\ amounts[ref] \in Int
  BY <1>1 DEF Countable
<1>3. R \subseteq T /\ S \subseteq T
  OBVIOUS
<1> HIDE DEF amounts, T
<1>4. /\ ValueOf(T) = SumFunctionOnSet(amounts, T)
      /\ ValueOf(R) = SumFunctionOnSet(amounts, R)
      /\ ValueOf(S) = SumFunctionOnSet(amounts, S)
  BY <1>1, <1>2, <1>3, ValueByTable
<1>5. SumFunctionOnSet(amounts, R \cup S) = SumFunctionOnSet(amounts, R) + SumFunctionOnSet(amounts, S)
  BY <1>1, <1>2, <1>3, SumUnion
<1>6. QED
  BY <1>1, <1>4, <1>5 DEF T

\* Part of a set that can be added up can be added up.
LEMMA PartCounts ==
  ASSUME NEW S, Countable(S), NEW R \in SUBSET S
  PROVE  Countable(R)
BY FS_Subset DEF Countable

\* A reference and its amount.
LEMMA ValueOfOne ==
  ASSUME NEW ref, OutputAt(ref).amount \in Nat
  PROVE  Countable({ref}) /\ ValueOf({ref}) = OutputAt(ref).amount
<1>1. Countable({ref})
  BY FS_Singleton DEF Countable
<1> DEFINE amounts == [r \in {ref} |-> OutputAt(r).amount]
<1>2. \A r \in {ref} : amounts[r] = OutputAt(r).amount /\ amounts[r] \in Nat
  OBVIOUS
<1> HIDE DEF amounts
<1>3. ValueOf({ref}) = SumFunctionOnSet(amounts, {ref})
  BY <1>1, <1>2, ValueByTable
<1>4. IsFiniteSet({}) /\ ref \notin {} /\ {} \cup {ref} = {ref} /\ Int \in {Nat, Int}
  BY FS_EmptySet
<1>5. \A r \in {} \cup {ref} : amounts[r] \in Int
  BY <1>2
<1>6. SumFunctionOnSet(amounts, {} \cup {ref}) = amounts[ref] + SumFunctionOnSet(amounts, {})
  BY <1>4, <1>5, SumAdd
<1>7. SumFunctionOnSet(amounts, {}) = 0
  BY <1>4, SumType
<1>8. QED
  BY <1>1, <1>2, <1>3, <1>4, <1>6, <1>7

\* The outputs of a payload can be added up.
LEMMA PayloadCounts ==
  ASSUME NEW txs, IsPayload(txs)
  PROVE  Countable(Made(txs))
<1>1. IsFiniteSet(txs) /\ \A t \in txs : IsPlausible(t)
  BY DEF IsPayload
<1>2. ASSUME NEW t \in txs PROVE IsFiniteSet(RefsOf(t))
  <2> DEFINE f == [i \in DOMAIN t.outputs |-> <<t, i>>]
  <2>1. f \in Surjection(DOMAIN t.outputs, RefsOf(t))
    BY DEF Surjection, RefsOf
  <2>2. IsFiniteSet(DOMAIN t.outputs)
    BY <1>1 DEF IsPlausible
  <2> HIDE DEF f
  <2>3. QED
    BY <2>1, <2>2, FS_Surjection
<1> DEFINE P == {T \in SUBSET txs : IsFiniteSet(Made(T))}
<1>3. {} \in P
  <2>1. Made({}) = {}
    BY DEF Made
  <2>2. QED
    BY <2>1, FS_EmptySet
<1>4. ASSUME NEW T \in SUBSET txs, NEW t \in txs, T \in P PROVE T \cup {t} \in P
  <2>1. Made(T \cup {t}) = Made(T) \cup RefsOf(t)
    BY DEF Made
  <2>2. QED
    BY <1>2, <1>4, <2>1, FS_Union
<1>5. IsFiniteSet(Made(txs))
  <2>1. txs \in P
    <3> HIDE DEF P
    <3>1. QED
      BY <1>1, <1>3, <1>4, OverFinite
  <2>2. QED
    BY <2>1
<1>6. ASSUME NEW ref \in Made(txs) PROVE OutputAt(ref).amount \in Nat
  <2>1. PICK t \in txs : \E i \in DOMAIN t.outputs : ref = <<t, i>>
    BY DEF Made, RefsOf
  <2>2. QED
    BY <1>1, <2>1 DEF IsPlausible, OutputAt
<1>7. QED
  BY <1>5, <1>6 DEF Countable

----------------------------------------------------------------------------
(* What a block adds.                                                      *)

\* The outputs of a block are worth what its transfers claim, the fees aside.
LEMMA TransfersConserve ==
  ASSUME NEW l, NEW R, Countable(R), DOMAIN l.utxos \cup l.spent = R,
         NEW height, NEW txs, IsPayload(txs), BlockHolds(l, height, txs),
         R \cap Made(txs) = {}
  PROVE  /\ Countable(R \cup Made(txs))
         /\ Consumed(Transfers(txs)) \subseteq R \cup Made(txs)
         /\ FeesOf(txs) \in Nat
         /\ ValueOf(Consumed(Transfers(txs))) = FeesOf(txs) + ValueOf(Made(Transfers(txs)))
<1> DEFINE all == R \cup Made(txs)
           fees == [t \in Transfers(txs) |-> t.fee]
           P == {T \in SUBSET Transfers(txs) :
                   ValueOf(Consumed(T)) = SumFunctionOnSet(fees, T) + ValueOf(Made(T))}
<1>2. Countable(all) /\ IsFiniteSet(Transfers(txs)) /\ \A t \in Transfers(txs) : IsPlausible(t)
  <2>1. Countable(all)
    BY PayloadCounts, ValueOfUnion
  <2>2. IsFiniteSet(txs) /\ Transfers(txs) \in SUBSET txs /\ \A t \in txs : IsPlausible(t)
    BY DEF Transfers, IsPayload
  <2>3. QED
    BY <2>1, <2>2, FS_Subset
<1>3. ASSUME NEW t \in Transfers(txs)
      PROVE  /\ Claims(t) \subseteq all
             /\ RefsOf(t) \subseteq all
             /\ ValueOf(Claims(t)) = t.fee + ValueOf(RefsOf(t))
             /\ fees[t] = t.fee /\ t.fee \in Nat
  <2>1. RefsOf(t) \subseteq Made(txs)
    BY DEF Made, Transfers
  <2>2. Claims(t) \subseteq DOMAIN l.utxos \cup Made(txs)
    <3>1. \A ref \in Claims(t) :
            ref \in DOMAIN l.utxos \/ \E u \in Transfers(txs) : ref \in RefsOf(u)
      BY ValidTransfers
    <3>2. QED
      BY <3>1 DEF Made, Transfers
  <2>3. TransferHolds(l, t, l.applied, txs)
    BY DEF BlockHolds, Transfers
  <2>4. ValueOf(Claims(t)) = t.fee + ValueOf(RefsOf(t))
    BY <2>3 DEF TransferHolds, Conserves
  <2>5. t.fee \in Nat
    BY <1>2 DEF IsPlausible
  <2>6. QED
    BY <2>1, <2>2, <2>4, <2>5
<1>4. ASSUME NEW t \in Transfers(txs), NEW u \in Transfers(txs), t # u
      PROVE  Claims(t) \cap Claims(u) = {} /\ RefsOf(t) \cap RefsOf(u) = {}
  <2>1. Claims(t) \cap Claims(u) = {}
    BY <1>4, OneSpenderInBlock
  <2>2. QED
    BY <1>4, <2>1 DEF RefsOf
<1>5. {} \in P
  <2>1. Consumed({}) = {} /\ Made({}) = {}
    BY DEF Consumed, Made
  <2>2. Countable({}) /\ IsFiniteSet({}) /\ Nat \in {Nat, Int} /\ \A t \in {} : fees[t] \in Nat
    BY FS_EmptySet DEF Countable
  <2> HIDE DEF fees
  <2>3. SumFunctionOnSet(fees, {}) = 0 /\ ValueOf({}) = 0
    BY <2>2, SumType, ValueType
  <2>4. QED
    BY <2>1, <2>3
<1>6. ASSUME NEW T \in SUBSET Transfers(txs), NEW t \in Transfers(txs), T \in P
      PROVE  T \cup {t} \in P
  <2>1. CASE t \in T
    <3>1. T \cup {t} = T
      BY <2>1
    <3>2. QED
      BY <1>6, <3>1
  <2>2. CASE t \notin T
    <3>1. Consumed(T \cup {t}) = Consumed(T) \cup Claims(t) /\ Made(T \cup {t}) = Made(T) \cup RefsOf(t)
      BY DEF Consumed, Made
    <3>2. Consumed(T) \subseteq all /\ Made(T) \subseteq all
      BY <1>3 DEF Consumed, Made
    <3>3. Consumed(T) \cap Claims(t) = {} /\ Made(T) \cap RefsOf(t) = {}
      BY <1>4, <2>2 DEF Consumed, Made
    <3> HIDE DEF all
    <3>4. Countable(Consumed(T)) /\ Countable(Claims(t)) /\ Countable(Made(T)) /\ Countable(RefsOf(t))
      BY <1>2, <1>3, <3>2, PartCounts
    <3>5. /\ ValueOf(Consumed(T \cup {t})) = ValueOf(Consumed(T)) + ValueOf(Claims(t))
          /\ ValueOf(Made(T \cup {t})) = ValueOf(Made(T)) + ValueOf(RefsOf(t))
      BY <3>1, <3>3, <3>4, ValueOfUnion
    <3>6. SumFunctionOnSet(fees, T \cup {t}) = fees[t] + SumFunctionOnSet(fees, T)
      <4>1. IsFiniteSet(T) /\ \A u \in T \cup {t} : fees[u] \in Int
        BY <1>2, <1>3, FS_Subset
      <4> HIDE DEF fees
      <4>2. QED
        BY <2>2, <4>1, SumAdd
    <3>7. SumFunctionOnSet(fees, T) \in Nat
      <4>1. IsFiniteSet(T) /\ Nat \in {Nat, Int} /\ \A u \in T : fees[u] \in Nat
        BY <1>2, <1>3, FS_Subset
      <4> HIDE DEF fees
      <4>2. QED
        BY <4>1, SumType
    <3>8. ValueOf(Consumed(T)) \in Nat /\ ValueOf(Made(T)) \in Nat /\ ValueOf(RefsOf(t)) \in Nat
      BY <3>4, ValueType
    <3>9. ValueOf(Consumed(T \cup {t})) = SumFunctionOnSet(fees, T \cup {t}) + ValueOf(Made(T \cup {t}))
      <4>1. ValueOf(Consumed(T)) = SumFunctionOnSet(fees, T) + ValueOf(Made(T))
        BY <1>6
      <4>2. ValueOf(Claims(t)) = fees[t] + ValueOf(RefsOf(t)) /\ fees[t] \in Nat
        BY <1>3
      <4> HIDE DEF fees
      <4>3. QED
        BY <3>5, <3>6, <3>7, <3>8, <4>1, <4>2
    <3>10. QED
      BY <3>9
  <2>3. QED
    BY <2>1, <2>2
<1>7. ValueOf(Consumed(Transfers(txs))) = SumFunctionOnSet(fees, Transfers(txs)) + ValueOf(Made(Transfers(txs)))
  <2>1. Transfers(txs) \in P
    <3> HIDE DEF P
    <3>1. QED
      BY <1>2, <1>5, <1>6, OverFinite
  <2>2. QED
    BY <2>1
<1>8. FeesOf(txs) = SumFunctionOnSet(fees, Transfers(txs))
  BY DEF FeesOf, SumFunction
<1>9. SumFunctionOnSet(fees, Transfers(txs)) \in Nat
  <2>1. Nat \in {Nat, Int} /\ \A t \in Transfers(txs) : fees[t] \in Nat
    BY <1>3
  <2> HIDE DEF fees
  <2>2. QED
    BY <1>2, <2>1, SumType
<1>10. Consumed(Transfers(txs)) \subseteq all
  BY <1>3 DEF Consumed
<1>11. QED
  BY <1>2, <1>7, <1>8, <1>9, <1>10

\* The reward of a slot of the calendar and the share of it.
LEMMA RewardType ==
  ASSUME NEW slot \in Calendar
  PROVE  /\ EclipseOfSlot(slot) + 1 \in 1 .. Len(Emissions)
         /\ RewardOfSlot(slot) \in Nat
         /\ TreasuryShareOf(RewardOfSlot(slot)) \in 0 .. RewardOfSlot(slot)
<1>1. /\ slot \in Nat \ {0} /\ BlocksPerEclipse \in Nat \ {0}
      /\ Len(Emissions) \in Nat /\ slot - 1 < Len(Emissions) * BlocksPerEclipse
  BY EmissionAssumption DEF Calendar
<1>2. (slot - 1) \div BlocksPerEclipse \in 0 .. Len(Emissions) - 1
  BY <1>1
<1>3. EclipseOfSlot(slot) + 1 \in 1 .. Len(Emissions)
  BY <1>1, <1>2 DEF EclipseOfSlot
<1>4. Emissions[EclipseOfSlot(slot) + 1] \in Nat
  BY <1>3, EmissionAssumption
<1> DEFINE emission == Emissions[EclipseOfSlot(slot) + 1]
           position == (slot - 1) % BlocksPerEclipse
<1>5. RewardOfSlot(slot) = (emission \div BlocksPerEclipse)
                             + (IF position < emission % BlocksPerEclipse THEN 1 ELSE 0)
  BY <1>1 DEF RewardOfSlot
<1> HIDE DEF emission, position
<1>6. emission \div BlocksPerEclipse \in Nat
  BY <1>1, <1>4 DEF emission
<1>7. RewardOfSlot(slot) \in Nat
  BY <1>5, <1>6
<1>8. TreasuryShareOf(RewardOfSlot(slot)) \in 0 .. RewardOfSlot(slot)
  <2> DEFINE reward == RewardOfSlot(slot)
  <2>1. /\ TreasuryNumerator \in Nat /\ TreasuryDenominator \in Nat \ {0}
        /\ TreasuryNumerator <= TreasuryDenominator
    BY EmissionAssumption
  <2>2. reward \in Nat
    BY <1>7
  <2> HIDE DEF reward
  <2>3. (reward * TreasuryNumerator) \div TreasuryDenominator \in 0 .. reward
    BY <2>1, <2>2
  <2>4. QED
    BY <2>3 DEF TreasuryShareOf, reward
<1>9. QED
  BY <1>3, <1>7, <1>8

\* The treasury outputs among the outputs refs.
ToTreasury(refs) == {ref \in refs : ref[1].coinbase /\ ref[2] = 2 /\ OutputAt(ref).to = Treasury}

\* The coinbase of a block makes the reward of its slot and the fees, and pays
\* the treasury its share in the slots that owe it.
LEMMA CoinbasePays ==
  ASSUME NEW l, NEW height, height # 0, NEW txs, IsPayload(txs), BlockHolds(l, height, txs),
         l.applied \in Calendar, FeesOf(txs) \in Nat
  PROVE  /\ Coinbases(txs) # {}
         /\ ValueOf(Made(Coinbases(txs))) = RewardOfSlot(l.applied) + FeesOf(txs)
         /\ ValueOf(ToTreasury(Made(txs))) =
              IF TreasuryActive(l.applied)
              THEN TreasuryShareOf(RewardOfSlot(l.applied)) ELSE 0
<1> DEFINE slot == l.applied
           reward == RewardOfSlot(slot)
           share == TreasuryShareOf(reward)
           fees == FeesOf(txs)
<1>1. reward \in Nat /\ share \in 0 .. reward
  BY RewardType
<1>2. \A t \in txs : t.coinbase \in BOOLEAN /\ \A i \in DOMAIN t.outputs : t.outputs[i].amount \in Nat
  BY DEF IsPayload, IsPlausible
<1>3. PICK c : Coinbases(txs) = {c}
  <2>1. IsFiniteSet(txs) /\ Coinbases(txs) \in SUBSET txs
    BY DEF IsPayload, Coinbases
  <2>2. IsFiniteSet(Coinbases(txs)) /\ Cardinality(Coinbases(txs)) = 1
    BY <2>1, FS_Subset DEF BlockHolds
  <2>3. QED
    BY <2>2, FS_Singleton
<1>4. c \in txs /\ c.coinbase /\ CoinbaseHolds(c, slot, height, fees)
  BY <1>3 DEF BlockHolds, Coinbases
<1>5. Made(Coinbases(txs)) = RefsOf(c)
  BY <1>3 DEF Made
<1>6. ToTreasury(Made(txs)) = ToTreasury(RefsOf(c))
  <2>1. ASSUME NEW ref \in Made(txs), ref[1].coinbase PROVE ref \in RefsOf(c)
    <3>1. PICK t \in txs : ref \in RefsOf(t) /\ ref[1] = t
      BY RefNames
    <3>2. t \in Coinbases(txs)
      BY <2>1, <3>1 DEF Coinbases
    <3>3. QED
      BY <1>3, <3>1, <3>2
  <2>2. RefsOf(c) \subseteq Made(txs)
    BY <1>4 DEF Made
  <2>3. QED
    BY <2>1, <2>2 DEF ToTreasury
<1>7. c.outputs = CoinbaseOutputs(slot, fees, c.outputs[1].to)
  BY <1>4 DEF CoinbaseHolds
<1>8. CASE TreasuryActive(slot)
  <2>1. c.outputs = <<[to |-> c.outputs[1].to, amount |-> reward + fees - share],
                      [to |-> Treasury, amount |-> share]>>
    BY <1>7, <1>8 DEF CoinbaseOutputs
  <2>2. /\ DOMAIN c.outputs = {1, 2}
        /\ c.outputs[1].amount = reward + fees - share
        /\ c.outputs[2].amount = share /\ c.outputs[2].to = Treasury
    <3> DEFINE miner == c.outputs[1].to
               pay == <<[to |-> miner, amount |-> reward + fees - share],
                        [to |-> Treasury, amount |-> share]>>
    <3>1. /\ DOMAIN pay = {1, 2} /\ pay[1].amount = reward + fees - share
          /\ pay[2].amount = share /\ pay[2].to = Treasury
      <4> HIDE DEF reward, fees, share, miner
      <4>1. DOMAIN pay = 1 .. 2 /\ 1 .. 2 = {1, 2}
        OBVIOUS
      <4>2. QED
        BY <4>1
    <3> HIDE DEF pay
    <3>2. QED
      BY <2>1, <3>1 DEF pay
  <2> DEFINE one == <<c, 1>>
             two == <<c, 2>>
  <2>3. RefsOf(c) = {one} \cup {two} /\ {one} \cap {two} = {}
    BY <2>2 DEF RefsOf
  <2>4. OutputAt(one).amount = reward + fees - share /\ OutputAt(two).amount = share /\ OutputAt(two).to = Treasury
    BY <2>2 DEF OutputAt
  <2>5. OutputAt(one).amount \in Nat /\ OutputAt(two).amount \in Nat
    BY <1>1, <2>4
  <2>6. ToTreasury(RefsOf(c)) = {two}
    BY <1>4, <2>3, <2>4 DEF ToTreasury
  <2> HIDE DEF one, two
  <2>7. /\ Countable({one}) /\ ValueOf({one}) = reward + fees - share
        /\ Countable({two}) /\ ValueOf({two}) = share
    BY <2>4, <2>5, ValueOfOne
  <2>8. ValueOf(RefsOf(c)) = (reward + fees - share) + share
    BY <2>3, <2>7, ValueOfUnion
  <2> HIDE DEF reward, fees, share
  <2>9. (reward + fees - share) + share = reward + fees
    BY <1>1 DEF fees
  <2>10. QED
    BY <1>3, <1>5, <1>6, <1>8, <2>6, <2>7, <2>8, <2>9 DEF reward, fees, share
<1>9. CASE ~TreasuryActive(slot)
  <2>1. c.outputs = <<[to |-> c.outputs[1].to, amount |-> reward + fees]>>
    BY <1>7, <1>9 DEF CoinbaseOutputs
  <2>2. DOMAIN c.outputs = {1} /\ c.outputs[1].amount = reward + fees
    <3> DEFINE miner == c.outputs[1].to
               pay == <<[to |-> miner, amount |-> reward + fees]>>
    <3>1. DOMAIN pay = {1} /\ pay[1].amount = reward + fees
      <4> HIDE DEF reward, fees, share, miner
      <4>1. DOMAIN pay = 1 .. 1 /\ 1 .. 1 = {1}
        OBVIOUS
      <4>2. QED
        BY <4>1
    <3> HIDE DEF pay
    <3>2. QED
      BY <2>1, <3>1 DEF pay
  <2> DEFINE one == <<c, 1>>
  <2>3. RefsOf(c) = {one}
    BY <2>2 DEF RefsOf
  <2>4. OutputAt(one).amount = reward + fees /\ OutputAt(one).amount \in Nat
    BY <1>1, <2>2 DEF OutputAt
  <2>5. ToTreasury(RefsOf(c)) = {}
    BY <2>3 DEF ToTreasury
  <2> HIDE DEF one
  <2>6. ValueOf(RefsOf(c)) = reward + fees
    BY <2>3, <2>4, ValueOfOne
  <2>7. ValueOf({}) = 0
    <3>1. Countable({})
      BY FS_EmptySet DEF Countable
    <3>2. QED
      BY <3>1, ValueType
  <2>8. QED
    BY <1>3, <1>5, <1>6, <1>9, <2>5, <2>6, <2>7
<1>10. QED
  BY <1>8, <1>9

\* What a block emits.
Earned(l, txs) == IF Coinbases(txs) = {} THEN 0 ELSE RewardOfSlot(l.applied)

\* The genesis is the block of the first slot, and has no payload.
InTurn(l, height) ==
    /\ l.applied \in Nat
    /\ l.applied = 0 <=> height = 0
    /\ l.applied # 0 => l.applied \in Calendar

\* What a valid block makes is worth what it claims and what it emits, and of
\* that the treasury gets its share.
LEMMA BlockBalances ==
  ASSUME NEW l, NEW R, Countable(R), DOMAIN l.utxos \cup l.spent = R,
         NEW height, NEW txs, IsPayload(txs), BlockHolds(l, height, txs),
         R \cap Made(txs) = {}, InTurn(l, height)
  PROVE  /\ Earned(l, txs) \in Nat
         /\ Earned(l, txs) = IF l.applied = 0 THEN 0 ELSE RewardOfSlot(l.applied)
         /\ ValueOf(Consumed(Transfers(txs))) \in Nat
         /\ ValueOf(Made(txs)) = Earned(l, txs) + ValueOf(Consumed(Transfers(txs)))
         /\ ValueOf(ToTreasury(Made(txs))) =
              IF l.applied # 0 /\ TreasuryActive(l.applied)
              THEN TreasuryShareOf(RewardOfSlot(l.applied)) ELSE 0
<1> DEFINE consumed == Consumed(Transfers(txs))
           slot == l.applied
           earned == Earned(l, txs)
           owed == IF TreasuryActive(slot) THEN TreasuryShareOf(RewardOfSlot(slot)) ELSE 0
<1>1. slot \in Nat /\ (slot = 0 <=> height = 0) /\ (slot # 0 => slot \in Calendar)
  BY DEF InTurn
<1>4. /\ Countable(R \cup Made(txs)) /\ Countable(Made(txs))
      /\ consumed \subseteq R \cup Made(txs)
      /\ FeesOf(txs) \in Nat
      /\ ValueOf(consumed) = FeesOf(txs) + ValueOf(Made(Transfers(txs)))
  BY TransfersConserve, PayloadCounts
<1>5. /\ Made(txs) = Made(Coinbases(txs)) \cup Made(Transfers(txs))
      /\ Made(Coinbases(txs)) \cap Made(Transfers(txs)) = {}
  <2>1. txs = Coinbases(txs) \cup Transfers(txs)
    BY DEF Coinbases, Transfers
  <2>2. Made(Coinbases(txs) \cup Transfers(txs)) = Made(Coinbases(txs)) \cup Made(Transfers(txs))
    BY Distribute
  <2>3. ASSUME NEW ref \in Made(Coinbases(txs)), ref \in Made(Transfers(txs)) PROVE FALSE
    <3>1. ref[1] \in Coinbases(txs) /\ ref[1] \in Transfers(txs)
      BY <2>3, RefNames
    <3>2. QED
      BY <3>1 DEF Coinbases, Transfers
  <2>4. QED
    BY <2>1, <2>2, <2>3
<1>6. /\ earned \in Nat
      /\ ValueOf(Made(Coinbases(txs))) = earned + FeesOf(txs)
      /\ earned = IF slot = 0 THEN 0 ELSE RewardOfSlot(slot)
      /\ ValueOf(ToTreasury(Made(txs))) = IF slot = 0 THEN 0 ELSE owed
  <2>1. CASE slot = 0
    <3>1. txs = {}
      BY <1>1, <2>1 DEF BlockHolds
    <3>2. Coinbases(txs) = {} /\ Made(txs) = {} /\ Made({}) = {} /\ ToTreasury({}) = {} /\ Transfers(txs) = {}
      BY <3>1 DEF Coinbases, Made, ToTreasury, Transfers
    <3>3. Countable({}) /\ IsFiniteSet({}) /\ Nat \in {Nat, Int}
      BY FS_EmptySet DEF Countable
    <3>4. ValueOf({}) = 0
      BY <3>3, ValueType
    <3>5. FeesOf(txs) = 0
      <4> DEFINE f == [t \in Transfers(txs) |-> t.fee]
      <4>1. FeesOf(txs) = SumFunctionOnSet(f, {})
        BY <3>2, Zenon DEF FeesOf, SumFunction
      <4> HIDE DEF f
      <4>2. \A t \in {} : f[t] \in Nat
        OBVIOUS
      <4>3. QED
        BY <3>3, <4>1, <4>2, SumType
    <3>6. QED
      BY <2>1, <3>2, <3>4, <3>5 DEF Earned
  <2>2. CASE slot # 0
    <3>1. /\ Coinbases(txs) # {}
          /\ ValueOf(Made(Coinbases(txs))) = RewardOfSlot(slot) + FeesOf(txs)
          /\ ValueOf(ToTreasury(Made(txs))) = owed
      BY <1>1, <1>4, <2>2, CoinbasePays
    <3>2. RewardOfSlot(slot) \in Nat
      BY <1>1, <2>2, RewardType
    <3>3. QED
      BY <2>2, <3>1, <3>2 DEF Earned
  <2>3. QED
    BY <2>1, <2>2
<1>7. ValueOf(consumed) \in Nat
  BY <1>4, PartCounts, ValueType
<1> HIDE DEF earned, owed
<1>8. ValueOf(Made(txs)) = earned + ValueOf(consumed)
  <2>1. Countable(Made(Coinbases(txs))) /\ Countable(Made(Transfers(txs)))
    BY <1>4, <1>5, PartCounts
  <2>2. ValueOf(Made(txs)) = ValueOf(Made(Coinbases(txs))) + ValueOf(Made(Transfers(txs)))
    BY <1>5, <2>1, ValueOfUnion
  <2>3. ValueOf(Made(Transfers(txs))) \in Nat
    BY <2>1, ValueType
  <2>4. QED
    BY <1>4, <1>6, <2>2, <2>3
<1>9. QED
  BY <1>6, <1>7, <1>8 DEF earned, owed

----------------------------------------------------------------------------
(* The machine.                                                            *)

\* Every transaction applied so far.
Applied == UNION ToSet(history)

\* The slots that have been given out are the payloads applied.
SlotsAreHistory ==
    /\ history \in Seq(Payloads)
    /\ state.applied = Len(history)

\* A coinbase belongs to one slot of the order.
OneSlotEach ==
    \A i, j \in DOMAIN history : Coinbases(history[i]) \cap Coinbases(history[j]) # {} => i = j

\* The entry of a coinbase output remembers the slot its coinbase was applied
\* at.
EntriesRemember ==
    \A ref \in DOMAIN state.utxos : ref[1].coinbase =>
        /\ state.utxos[ref].slot \in Nat
        /\ state.utxos[ref].slot + 1 \in DOMAIN history
        /\ ref[1] \in history[state.utxos[ref].slot + 1]

\* The inductive invariant.  That no output is spent twice needs the two sides
\* of the ledger to be disjoint and the spent side to be all that was claimed;
\* that an output of the block is new needs coinbases to be new.
IInv ==
    /\ SlotsAreHistory
    /\ OneSlotEach
    /\ EveryOutputIsOnOneSide
    /\ FirstSpenderWins
    /\ EntriesRemember

----------------------------------------------------------------------------
(* The references of sets of transactions.                                 *)

\* The elements of a sequence and of its extension.
LEMMA AppendToSet ==
  ASSUME NEW S, NEW s \in Seq(S), NEW e \in S
  PROVE  /\ Append(s, e) \in Seq(S)
         /\ Len(Append(s, e)) = Len(s) + 1
         /\ DOMAIN Append(s, e) = DOMAIN s \cup {Len(s) + 1}
         /\ Len(s) + 1 \notin DOMAIN s
         /\ Append(s, e)[Len(s) + 1] = e
         /\ \A i \in DOMAIN s : Append(s, e)[i] = s[i]
         /\ ToSet(Append(s, e)) = ToSet(s) \cup {e}
<1> DEFINE r == Append(s, e)
<1>1. /\ r \in Seq(S)
      /\ Len(r) = Len(s) + 1
      /\ DOMAIN r = DOMAIN s \cup {Len(s) + 1}
      /\ Len(s) + 1 \notin DOMAIN s
      /\ r[Len(s) + 1] = e
      /\ \A i \in DOMAIN s : r[i] = s[i]
  OBVIOUS
<1> HIDE DEF r
<1>2. ToSet(r) = ToSet(s) \cup {e}
  <2>1. ASSUME NEW x \in ToSet(r) PROVE x \in ToSet(s) \cup {e}
    BY <1>1 DEF ToSet
  <2>2. ASSUME NEW x \in ToSet(s) PROVE x \in ToSet(r)
    BY <1>1 DEF ToSet
  <2>3. e \in ToSet(r)
    BY <1>1 DEF ToSet
  <2>4. QED
    BY <2>1, <2>2, <2>3
<1>3. QED
  BY <1>1, <1>2 DEF r

\* What a payload adds to the history.
LEMMA Appended ==
  ASSUME SlotsAreHistory, NEW txs \in Payloads, history' = Append(history, txs)
  PROVE  /\ history' \in Seq(Payloads)
         /\ Len(history') = Len(history) + 1
         /\ DOMAIN history' = DOMAIN history \cup {Len(history) + 1}
         /\ Len(history) + 1 \notin DOMAIN history
         /\ history'[Len(history) + 1] = txs
         /\ \A i \in DOMAIN history : history'[i] = history[i]
         /\ Applied' = Applied \cup txs
<1>1. history \in Seq(Payloads)
  BY DEF SlotsAreHistory
<1>2. ToSet(Append(history, txs)) = ToSet(history) \cup {txs}
  BY <1>1, AppendToSet
<1>3. Applied' = Applied \cup txs
  BY <1>2 DEF Applied
<1>4. QED
  BY <1>1, <1>3, AppendToSet

----------------------------------------------------------------------------
(* The invariant.                                                          *)

\* The empty ledger satisfies the invariant.
LEMMA InitIInv == LedgerInit => IInv
<1> SUFFICES ASSUME LedgerInit PROVE IInv
  OBVIOUS
<1>1. /\ history \in Seq(Payloads) /\ Len(history) = 0 /\ DOMAIN history = {}
      /\ state.applied = 0 /\ DOMAIN state.utxos = {} /\ state.spent = {}
  BY DEF LedgerInit, New
<1>2. UNION ToSet(history) = {}
  BY <1>1 DEF ToSet
<1>3. Refs = {} /\ Consumed(Transfers(UNION ToSet(history))) = {}
  BY <1>2 DEF Refs, Made, Consumed, Transfers
<1>4. EveryOutputIsOnOneSide
  BY <1>1, <1>3 DEF EveryOutputIsOnOneSide
<1>5. QED
  BY <1>1, <1>4 DEF IInv, SlotsAreHistory, OneSlotEach, FirstSpenderWins, EntriesRemember

\* What is offered to a ledger that keeps it: a payload in form, its coinbase
\* a new one.
LEMMA Offered ==
  ASSUME IInv, NEW txs \in Payloads, Novel(txs)
  PROVE  OneSide(state, Applied) /\ Applied \cap Coinbases(txs) = {} /\ IsPayload(txs)
<1>1. OneSide(state, Applied)
  BY DEF IInv, EveryOutputIsOnOneSide, OneSide, Refs, Applied
<1>2. Applied \cap Coinbases(txs) = {}
  BY DEF Novel, Applied, Coinbases, ToSet
<1>3. IsPayload(txs)
  BY LedgerAssumption DEF IsPayload
<1>4. QED
  BY <1>1, <1>2, <1>3

\* A valid block preserves the invariant.
LEMMA ApplyIInv ==
  ASSUME IInv, NEW height \in Heights, NEW txs \in Payloads,
         Novel(txs), ApplyBlock(height, txs)
  PROVE  IInv'
<1> DEFINE n == Len(history) + 1
<1> DEFINE consumed == Consumed(Transfers(txs))
<1>1. /\ BlockHolds(state, height, txs)
      /\ state' = Commit(state, txs)
      /\ history' = Append(history, txs)
  BY DEF ApplyBlock
<1>2. /\ history' \in Seq(Payloads) /\ Len(history') = n
      /\ DOMAIN history' = DOMAIN history \cup {n} /\ n \notin DOMAIN history
      /\ history'[n] = txs
      /\ \A i \in DOMAIN history : history'[i] = history[i]
      /\ Applied' = Applied \cup txs
  BY <1>1, Appended DEF IInv
<1>3. /\ state'.applied = state.applied + 1
      /\ state'.spent = state.spent \cup consumed
      /\ DOMAIN state'.utxos = (DOMAIN state.utxos \cup Made(txs)) \ consumed
      /\ \A ref \in DOMAIN state'.utxos :
           state'.utxos[ref] = IF ref \in Made(txs) THEN EntryOf(state, ref)
                                                     ELSE state.utxos[ref]
  BY <1>1, Committed
<1>4. /\ Refs = Made(Applied) /\ Refs' = Made(Applied')
      /\ OneSide(state, Applied) /\ Applied \cap Coinbases(txs) = {} /\ IsPayload(txs)
  BY Offered DEF Refs, Applied
<1>5. state.applied = Len(history) /\ Len(history) \in Nat
  BY DEF IInv, SlotsAreHistory
<1>6. SlotsAreHistory'
  BY <1>2, <1>3, <1>5 DEF SlotsAreHistory
<1>7. OneSlotEach'
  <2> SUFFICES ASSUME NEW i \in DOMAIN history', NEW j \in DOMAIN history',
                      Coinbases(history'[i]) \cap Coinbases(history'[j]) # {}
               PROVE  i = j
    BY DEF OneSlotEach
  <2>1. CASE i = n \/ j = n
    BY <1>2, <2>1 DEF Novel
  <2>2. CASE i # n /\ j # n
    BY <1>2, <2>2 DEF IInv, OneSlotEach
  <2>3. QED
    BY <2>1, <2>2
<1>8. EveryOutputIsOnOneSide'
  <2>1. OneSide(state', Applied')
    BY <1>1, <1>2, <1>4, SidesHold
  <2>2. QED
    BY <1>4, <2>1 DEF EveryOutputIsOnOneSide, OneSide, Applied
<1>9. FirstSpenderWins'
  <2>1. ASSUME NEW t \in Transfers(txs), NEW i \in DOMAIN history,
               NEW u \in Transfers(history[i])
        PROVE  Claims(t) \cap Claims(u) = {}
    <3>1. u \in Transfers(Applied)
      BY DEF Transfers, Applied, ToSet
    <3>2. Claims(u) \subseteq state.spent /\ DOMAIN state.utxos \cap state.spent = {}
      BY <1>4, <3>1 DEF OneSide, Consumed
    <3>3. QED
      BY <1>1, <3>2, ClaimsAreFresh
  <2>2. ASSUME NEW t \in Transfers(txs), NEW u \in Transfers(txs), t # u
        PROVE  Claims(t) \cap Claims(u) = {}
    BY <1>1, <1>4, <2>2, OneSpenderInBlock
  <2> SUFFICES ASSUME NEW i \in DOMAIN history', NEW j \in DOMAIN history',
                      NEW t \in Transfers(history'[i]), NEW u \in Transfers(history'[j]),
                      <<i, t>> # <<j, u>>
               PROVE  Claims(t) \cap Claims(u) = {}
    BY DEF FirstSpenderWins
  <2>3. CASE i = n /\ j = n
    BY <1>2, <2>2, <2>3
  <2>4. CASE i = n /\ j # n
    BY <1>2, <2>1, <2>4
  <2>5. CASE i # n /\ j = n
    BY <1>2, <2>1, <2>5
  <2>6. CASE i # n /\ j # n
    BY <1>2, <2>6 DEF IInv, FirstSpenderWins
  <2>7. QED
    BY <2>3, <2>4, <2>5, <2>6
<1>10. EntriesRemember'
  <2> SUFFICES ASSUME NEW ref \in DOMAIN state'.utxos, ref[1].coinbase
               PROVE  /\ state'.utxos[ref].slot \in Nat
                      /\ state'.utxos[ref].slot + 1 \in DOMAIN history'
                      /\ ref[1] \in history'[state'.utxos[ref].slot + 1]
    BY DEF EntriesRemember
  <2>1. CASE ref \in Made(txs)
    <3>1. state'.utxos[ref].slot = Len(history)
      <4>1. state'.utxos[ref] = EntryOf(state, ref)
        BY <1>3, <2>1, Zenon
      <4>2. EntryOf(state, ref).slot = state.applied
        BY DEF EntryOf
      <4>3. QED
        BY <1>5, <4>1, <4>2, Zenon
    <3>2. ref[1] \in txs
      BY <2>1, RefNames
    <3>3. QED
      BY <1>2, <1>5, <3>1, <3>2
  <2>2. CASE ref \notin Made(txs)
    BY <1>2, <1>3, <2>2 DEF IInv, EntriesRemember
  <2>3. QED
    BY <2>1, <2>2
<1>11. QED
  BY <1>6, <1>7, <1>8, <1>9, <1>10 DEF IInv

\* The ledger keeps its invariant.
LEMMA Invariance == LedgerSpec => []IInv
<1>1. ASSUME IInv, [LedgerNext]_ledgerVars PROVE IInv'
  <2>1. CASE LedgerNext
    BY <1>1, <2>1, ApplyIInv DEF LedgerNext
  <2>2. CASE UNCHANGED ledgerVars
    <3>1. state' = state /\ history' = history
      BY <2>2 DEF ledgerVars
    <3>2. SlotsAreHistory' /\ OneSlotEach' /\ EntriesRemember'
      BY <1>1, <3>1 DEF IInv, SlotsAreHistory, OneSlotEach, EntriesRemember
    <3>3. EveryOutputIsOnOneSide'
      BY <1>1, <3>1, Zenon DEF IInv, EveryOutputIsOnOneSide, Refs
    <3>4. FirstSpenderWins'
      BY <1>1, <3>1 DEF IInv, FirstSpenderWins
    <3>5. QED
      BY <3>2, <3>3, <3>4 DEF IInv
  <2>3. QED
    BY <1>1, <2>1, <2>2
<1>2. QED
  BY <1>1, InitIInv, PTL DEF LedgerSpec

----------------------------------------------------------------------------
(* The calendar.                                                           *)

\* The slots up to one of the calendar are in it.
LEMMA CalendarPrefix ==
  ASSUME NEW slot \in Calendar
  PROVE  slot - 1 \in Nat /\ (slot - 1) + 1 = slot /\ 1 .. (slot - 1) + 1 \subseteq Calendar
<1> DEFINE last == Len(Emissions) * BlocksPerEclipse
<1>1. last \in Nat /\ Calendar = 1 .. last
  BY EmissionAssumption DEF Calendar
<1> HIDE DEF last
<1>2. QED
  BY <1>1

\* What the slots up to the n-th emit.
Rewards(n) == SumFunction([slot \in 1 .. n |-> RewardOfSlot(slot)])

\* One more slot.
LEMMA NextReward ==
  ASSUME NEW n \in Nat, 1 .. n + 1 \subseteq Calendar
  PROVE  /\ Rewards(0) = 0
         /\ Rewards(n) \in Nat
         /\ RewardOfSlot(n + 1) \in Nat
         /\ Rewards(n + 1) = Rewards(n) + RewardOfSlot(n + 1)
<1> DEFINE f == [slot \in 1 .. n |-> RewardOfSlot(slot)]
           g == [slot \in 1 .. n + 1 |-> RewardOfSlot(slot)]
           z == [slot \in 1 .. 0 |-> RewardOfSlot(slot)]
           next == n + 1
<1>1. /\ \A slot \in 1 .. n + 1 : RewardOfSlot(slot) \in Nat
      /\ 1 .. n + 1 = (1 .. n) \cup {next} /\ next \notin 1 .. n
      /\ IsFiniteSet(1 .. n) /\ IsFiniteSet(1 .. 0) /\ 1 .. 0 = {}
      /\ Nat \in {Nat, Int}
  <2>1. IsFiniteSet(1 .. n) /\ IsFiniteSet(1 .. 0)
    BY FirstNumbers
  <2>2. 1 .. n + 1 = (1 .. n) \cup {next} /\ next \notin 1 .. n /\ 1 .. 0 = {}
    OBVIOUS
  <2>3. QED
    BY <2>1, <2>2, RewardType
<1>2. /\ Rewards(n) = SumFunctionOnSet(f, 1 .. n)
      /\ Rewards(n + 1) = SumFunctionOnSet(g, (1 .. n) \cup {next})
      /\ Rewards(0) = SumFunctionOnSet(z, 1 .. 0)
  BY <1>1, Zenon DEF Rewards, SumFunction
<1>3. /\ \A slot \in (1 .. n) \cup {next} : g[slot] \in Int /\ g[slot] = RewardOfSlot(slot)
      /\ \A slot \in 1 .. n : f[slot] \in Nat /\ g[slot] \in Int /\ g[slot] = f[slot]
      /\ \A slot \in 1 .. 0 : z[slot] \in Nat
      /\ g[next] = RewardOfSlot(n + 1)
  BY <1>1
<1> HIDE DEF f, g, z, next
<1>4. SumFunctionOnSet(g, (1 .. n) \cup {next}) = g[next] + SumFunctionOnSet(g, 1 .. n)
  BY <1>1, <1>3, SumAdd
<1>5. SumFunctionOnSet(g, 1 .. n) = SumFunctionOnSet(f, 1 .. n)
  BY <1>1, <1>3, SumEqual
<1>6. SumFunctionOnSet(f, 1 .. n) \in Nat /\ SumFunctionOnSet(z, 1 .. 0) = 0
  BY <1>1, <1>3, SumType
<1>7. RewardOfSlot(n + 1) \in Nat
  BY <1>1 DEF next
<1>8. QED
  BY <1>2, <1>3, <1>4, <1>5, <1>6, <1>7

\* What the first n eclipses of the table are to emit.
Archived(n) == SumFunction([i \in 1 .. n |-> Emissions[i]])

\* One more eclipse.
LEMMA NextEclipse ==
  ASSUME NEW n \in Nat, n < Len(Emissions)
  PROVE  /\ Archived(0) = 0
         /\ Archived(n) \in Nat
         /\ Emissions[n + 1] \in Nat
         /\ Archived(n + 1) = Archived(n) + Emissions[n + 1]
<1> DEFINE f == [i \in 1 .. n |-> Emissions[i]]
           g == [i \in 1 .. n + 1 |-> Emissions[i]]
           z == [i \in 1 .. 0 |-> Emissions[i]]
           next == n + 1
<1>1. /\ \A i \in 1 .. n + 1 : Emissions[i] \in Nat
      /\ 1 .. n + 1 = (1 .. n) \cup {next} /\ next \notin 1 .. n
      /\ IsFiniteSet(1 .. n) /\ IsFiniteSet(1 .. 0) /\ 1 .. 0 = {}
      /\ Nat \in {Nat, Int}
  <2>1. IsFiniteSet(1 .. n) /\ IsFiniteSet(1 .. 0)
    BY FirstNumbers
  <2>2. 1 .. n + 1 = (1 .. n) \cup {next} /\ next \notin 1 .. n /\ 1 .. 0 = {}
    OBVIOUS
  <2>3. \A i \in 1 .. n + 1 : Emissions[i] \in Nat
    BY EmissionAssumption
  <2>4. QED
    BY <2>1, <2>2, <2>3
<1>2. /\ Archived(n) = SumFunctionOnSet(f, 1 .. n)
      /\ Archived(n + 1) = SumFunctionOnSet(g, (1 .. n) \cup {next})
      /\ Archived(0) = SumFunctionOnSet(z, 1 .. 0)
  BY <1>1, Zenon DEF Archived, SumFunction
<1>3. /\ \A i \in (1 .. n) \cup {next} : g[i] \in Int /\ g[i] = Emissions[i]
      /\ \A i \in 1 .. n : f[i] \in Nat /\ g[i] \in Int /\ g[i] = f[i]
      /\ \A i \in 1 .. 0 : z[i] \in Nat
      /\ g[next] = Emissions[n + 1]
  <2>1. \A i \in 1 .. n + 1 : g[i] = Emissions[i] /\ g[i] \in Nat
    BY <1>1
  <2>2. \A i \in 1 .. n : f[i] = Emissions[i]
    OBVIOUS
  <2> HIDE DEF f, g, z
  <2>3. \A i \in 1 .. n : i \in 1 .. n + 1
    OBVIOUS
  <2>4. \A i \in 1 .. n : f[i] \in Nat /\ g[i] \in Int /\ g[i] = f[i]
    BY <2>1, <2>2, <2>3
  <2>5. \A i \in (1 .. n) \cup {next} : g[i] \in Int /\ g[i] = Emissions[i]
    BY <1>1, <2>1
  <2>6. n + 1 \in 1 .. n + 1
    OBVIOUS
  <2>7. QED
    BY <1>1, <2>1, <2>4, <2>5, <2>6
<1> HIDE DEF f, g, z, next
<1>4. SumFunctionOnSet(g, (1 .. n) \cup {next}) = g[next] + SumFunctionOnSet(g, 1 .. n)
  BY <1>1, <1>3, SumAdd
<1>5. SumFunctionOnSet(g, 1 .. n) = SumFunctionOnSet(f, 1 .. n)
  BY <1>1, <1>3, SumEqual
<1>6. SumFunctionOnSet(f, 1 .. n) \in Nat /\ SumFunctionOnSet(z, 1 .. 0) = 0
  BY <1>1, <1>3, SumType
<1>7. Emissions[n + 1] \in Nat
  BY <1>1 DEF next
<1>8. QED
  BY <1>2, <1>3, <1>4, <1>5, <1>6, <1>7

\* The reward of the k-th slot of an eclipse: an even share of its emission,
\* and an atom of the remainder for the first slots.
LEMMA RewardInEclipse ==
  ASSUME NEW n \in Nat, n < Len(Emissions), NEW k \in 0 .. BlocksPerEclipse - 1
  PROVE  RewardOfSlot(n * BlocksPerEclipse + k + 1) =
           (Emissions[n + 1] \div BlocksPerEclipse)
             + (IF k < Emissions[n + 1] % BlocksPerEclipse THEN 1 ELSE 0)
<1> DEFINE slot == n * BlocksPerEclipse + k + 1
<1>1. BlocksPerEclipse \in Nat \ {0}
  BY EmissionAssumption
<1>2. slot \in Nat /\ slot # 0 /\ slot - 1 = n * BlocksPerEclipse + k
  BY <1>1
<1>3. (n * BlocksPerEclipse + k) \div BlocksPerEclipse = n /\ (n * BlocksPerEclipse + k) % BlocksPerEclipse = k
  BY <1>1
<1> HIDE DEF slot
<1>4. EclipseOfSlot(slot) = n /\ (slot - 1) % BlocksPerEclipse = k
  BY <1>2, <1>3 DEF EclipseOfSlot
<1>5. RewardOfSlot(slot) = (Emissions[n + 1] \div BlocksPerEclipse)
                             + (IF k < Emissions[n + 1] % BlocksPerEclipse THEN 1 ELSE 0)
  BY <1>2, <1>4 DEF RewardOfSlot
<1>6. QED
  BY <1>5 DEF slot

\* Whatever the emission of an eclipse, its slots emit all of it and no more.
LEMMA CalendarCloses ==
  ASSUME NEW n \in 0 .. Len(Emissions)
  PROVE  Rewards(n * BlocksPerEclipse) = Archived(n)
<1> DEFINE B == BlocksPerEclipse
           P == {m \in Nat : m <= Len(Emissions) => Rewards(m * B) = Archived(m)}
<1>1. B \in Nat \ {0} /\ Len(Emissions) \in Nat
  BY EmissionAssumption
<1>2. ASSUME NEW m \in Nat, m < Len(Emissions), NEW k \in 0 .. B - 1
      PROVE  /\ m * B \in Nat /\ m * B + k \in Nat
             /\ 1 .. (m * B + k) + 1 \subseteq Calendar
  <2>1. m * B + k + 1 <= Len(Emissions) * B
    BY <1>1, <1>2
  <2>2. QED
    BY <1>1, <2>1 DEF Calendar
<1>3. 0 \in P
  <2>1. 0 * B = 0
    BY <1>1
  <2>2. ASSUME 0 < Len(Emissions) PROVE Rewards(0) = 0 /\ Archived(0) = 0
    <3>1. 0 \in Nat /\ 0 \in 0 .. B - 1 /\ (0 * B + 0) + 1 = 0 + 1
      BY <1>1
    <3>2. 1 .. 0 + 1 \subseteq Calendar
      BY <1>2, <2>2, <3>1
    <3>3. Rewards(0) = 0
      BY <3>1, <3>2, NextReward
    <3>4. QED
      BY <2>2, <3>1, <3>3, NextEclipse
  <2>3. ASSUME Len(Emissions) = 0 PROVE Rewards(0) = Archived(0)
    <3> DEFINE f == [slot \in 1 .. 0 |-> RewardOfSlot(slot)]
               g == [i \in 1 .. 0 |-> Emissions[i]]
    <3>1. Rewards(0) = SumFunctionOnSet(f, {}) /\ Archived(0) = SumFunctionOnSet(g, {})
      <4>1. 1 .. 0 = {}
        OBVIOUS
      <4>2. QED
        BY <4>1, Zenon DEF Rewards, Archived, SumFunction
    <3> HIDE DEF f, g
    <3>2. IsFiniteSet({}) /\ Nat \in {Nat, Int} /\ \A x \in {} : f[x] \in Nat /\ g[x] \in Nat
      BY FS_EmptySet
    <3>3. SumFunctionOnSet(f, {}) = 0 /\ SumFunctionOnSet(g, {}) = 0
      BY <3>2, SumType
    <3>4. QED
      BY <3>1, <3>3
  <2>4. QED
    BY <1>1, <2>1, <2>2, <2>3
<1>4. ASSUME NEW m \in Nat, m \in P PROVE m + 1 \in P
  <2> SUFFICES ASSUME m < Len(Emissions) PROVE Rewards((m + 1) * B) = Archived(m + 1)
    BY <1>1
  <2> DEFINE share == Emissions[m + 1] \div B
             rest == Emissions[m + 1] % B
             Least(k) == IF k < rest THEN k ELSE rest
             Q == {k \in Nat : k <= B => Rewards(m * B + k) = Archived(m) + share * k + Least(k)}
  <2>1. Archived(m) \in Nat /\ Emissions[m + 1] \in Nat /\ Archived(m + 1) = Archived(m) + Emissions[m + 1]
    BY NextEclipse
  <2>2. /\ Emissions[m + 1] = share * B + rest /\ share \in Nat /\ rest \in 0 .. B - 1
    <3> DEFINE emission == Emissions[m + 1]
    <3>1. emission \in Nat
      BY <2>1
    <3> HIDE DEF emission, B
    <3>2. /\ emission = (emission \div B) * B + (emission % B)
          /\ emission \div B \in Nat /\ emission % B \in 0 .. B - 1
      BY <1>1, <3>1
    <3>3. QED
      BY <3>2 DEF emission
  <2>3. 0 \in Q
    <3>1. m * B + 0 = m * B /\ share * 0 = 0 /\ Least(0) = 0
      <4> HIDE DEF share, rest, B
      <4>1. QED
        BY <1>1, <2>2
    <3>2. Rewards(m * B) = Archived(m)
      BY <1>4
    <3>3. QED
      BY <2>1, <3>1, <3>2
  <2>4. ASSUME NEW k \in Nat, k \in Q PROVE k + 1 \in Q
    <3> SUFFICES ASSUME k < B
                 PROVE  Rewards(m * B + (k + 1)) = Archived(m) + share * (k + 1) + Least(k + 1)
      BY <1>1
    <3>1. k \in 0 .. B - 1 /\ m * B + (k + 1) = (m * B + k) + 1 /\ m * B + k \in Nat
      BY <1>1
    <3>2. 1 .. (m * B + k) + 1 \subseteq Calendar
      BY <1>2, <3>1
    <3>3. Rewards((m * B + k) + 1) = Rewards(m * B + k) + RewardOfSlot((m * B + k) + 1)
      BY <3>1, <3>2, NextReward
    <3>4. RewardOfSlot((m * B + k) + 1) = share + (IF k < rest THEN 1 ELSE 0)
      BY <3>1, RewardInEclipse
    <3>5. Rewards(m * B + k) = Archived(m) + share * k + Least(k)
      <4>1. k <= B
        BY <1>1, <3>1
      <4> HIDE DEF share, rest, B, Least
      <4>2. QED
        BY <2>4, <4>1
    <3> HIDE DEF share, rest, B
    <3>6. share * (k + 1) = share * k + share /\ share * k \in Nat
      BY <2>2
    <3>7. Least(k + 1) = Least(k) + (IF k < rest THEN 1 ELSE 0) /\ Least(k) \in Nat
      BY <1>1, <2>2
    <3> DEFINE one == IF k < rest THEN 1 ELSE 0
    <3>8. one \in Nat
      OBVIOUS
    <3>9. /\ Rewards(m * B + (k + 1)) = Rewards(m * B + k) + (share + one)
          /\ Least(k + 1) = Least(k) + one
      BY <3>1, <3>3, <3>4, <3>7
    <3> HIDE DEF Least, one
    <3> DEFINE sum == share * k
    <3>10. /\ sum \in Nat /\ share * (k + 1) = sum + share
           /\ Rewards(m * B + k) = Archived(m) + sum + Least(k)
      BY <3>5, <3>6
    <3> HIDE DEF sum
    <3>11. Rewards(m * B + (k + 1)) = (Archived(m) + sum + Least(k)) + (share + one)
      BY <3>9, <3>10
    <3>12. Archived(m) + share * (k + 1) + Least(k + 1) = Archived(m) + (sum + share) + (Least(k) + one)
      BY <3>9, <3>10
    <3>13. ASSUME NEW a \in Nat, NEW b \in Nat, NEW c \in Nat, NEW d \in Nat, NEW e \in Nat
           PROVE  (a + b + c) + (d + e) = a + (b + d) + (c + e)
      OBVIOUS
    <3>14. (Archived(m) + sum + Least(k)) + (share + one) = Archived(m) + (sum + share) + (Least(k) + one)
      <4>1. Archived(m) \in Nat
        BY <2>1
      <4>2. sum \in Nat
        BY <3>10
      <4>3. Least(k) \in Nat
        BY <3>7
      <4>4. share \in Nat
        BY <2>2
      <4>5. one \in Nat
        BY <3>8
      <4>6. QED
        BY <3>13, <4>1, <4>2, <4>3, <4>4, <4>5
    <3>15. QED
      BY <3>11, <3>12, <3>14
  <2>5. B \in Q
    <3>1. Nat \subseteq Q
      <4> HIDE DEF Q
      <4>1. QED
        BY <2>3, <2>4, OverNat
    <3>2. QED
      BY <1>1, <3>1
  <2>6. Rewards(m * B + B) = Archived(m) + share * B + Least(B)
    BY <1>1, <2>5
  <2>7. Least(B) = rest /\ (m + 1) * B = m * B + B
    BY <1>1, <2>2
  <2> HIDE DEF share, rest, B, Least
  <2>8. QED
    BY <1>1, <2>1, <2>2, <2>6, <2>7
<1>5. n \in P
  <2>1. Nat \subseteq P
    <3> HIDE DEF P
    <3>1. QED
      BY <1>3, <1>4, OverNat
  <2>2. QED
    BY <1>1, <2>1
<1>6. QED
  BY <1>5

----------------------------------------------------------------------------

\* The unspent and the spent references are disjoint and together are every
\* output the order created, and the spent ones are exactly those some
\* transfer of the order claims (apply_block and commit_block).
THEOREM OutputsOnOneSide == LedgerSpec => []EveryOutputIsOnOneSide
<1>1. IInv => EveryOutputIsOnOneSide
  BY DEF IInv
<1>2. QED
  BY <1>1, Invariance, PTL

\* No two transfers of the order claim the same output, whether they are in
\* one block or slots apart (validate_transfer).
THEOREM NoDoubleSpend == LedgerSpec => []FirstSpenderWins
<1>1. IInv => FirstSpenderWins
  BY DEF IInv
<1>2. QED
  BY <1>1, Invariance, PTL

\* An output that leaves the unspent set is spent for good, and a coinbase
\* output leaves it no earlier than Maturity slots after its own.
THEOREM SpendsMature == LedgerSpec => SpendsWaitAndLast
<1>1. ASSUME IInv, NEW height \in Heights, NEW txs \in Payloads, ApplyBlock(height, txs)
      PROVE  /\ state.spent \subseteq state'.spent
             /\ \A ref \in DOMAIN state.utxos \ DOMAIN state'.utxos :
                  /\ ref \in state'.spent
                  /\ ref[1].coinbase =>
                       state.applied >= Maturity
                         + (CHOOSE i \in DOMAIN history : ref[1] \in history[i]) - 1
  <2>1. BlockHolds(state, height, txs) /\ state' = Commit(state, txs)
    BY <1>1 DEF ApplyBlock
  <2>2. /\ state'.spent = state.spent \cup Consumed(Transfers(txs))
        /\ DOMAIN state'.utxos =
             (DOMAIN state.utxos \cup Made(txs)) \ Consumed(Transfers(txs))
    BY <2>1, Committed
  <2>3. ASSUME NEW ref \in DOMAIN state.utxos \ DOMAIN state'.utxos, ref[1].coinbase
        PROVE  state.applied >= Maturity
                 + (CHOOSE i \in DOMAIN history : ref[1] \in history[i]) - 1
    <3> DEFINE slot == state.utxos[ref].slot
    <3>1. PICK t \in Transfers(txs) : ref \in Claims(t)
      BY <2>2, <2>3 DEF Consumed
    <3>2. IsMature(state, ref, state.applied)
      BY <2>1, <3>1, ValidTransfers
    <3>3. slot \in Nat /\ slot + 1 \in DOMAIN history /\ ref[1] \in history[slot + 1]
      BY <1>1, <2>3 DEF IInv, EntriesRemember
    <3>4. state.applied >= slot + Maturity
      BY <2>3, <3>2, <3>3 DEF IsMature, NoSlot
    <3>5. \A i \in DOMAIN history : ref[1] \in history[i] => i = slot + 1
      BY <1>1, <2>3, <3>3 DEF IInv, OneSlotEach, Coinbases
    <3>6. (CHOOSE i \in DOMAIN history : ref[1] \in history[i]) = slot + 1
      BY <3>3, <3>5
    <3>7. state.applied \in Nat /\ Maturity \in Nat
      BY <1>1, LedgerAssumption DEF IInv, SlotsAreHistory
    <3>8. (slot + 1) - 1 = slot
      BY <3>3
    <3> HIDE DEF slot
    <3>9. state.applied >= Maturity + (slot + 1) - 1
      BY <3>3, <3>4, <3>7
    <3>10. QED
      BY <3>6, <3>9, Zenon
  <2>4. state.spent \subseteq state'.spent
    BY <2>2, Zenon
  <2>5. \A ref \in DOMAIN state.utxos \ DOMAIN state'.utxos : ref \in state'.spent
    BY <2>2, Zenon
  <2>6. QED
    BY <2>3, <2>4, <2>5, Zenon
<1>2. ASSUME IInv, [LedgerNext]_ledgerVars
      PROVE  [/\ state.spent \subseteq state'.spent
              /\ \A ref \in DOMAIN state.utxos \ DOMAIN state'.utxos :
                   /\ ref \in state'.spent
                   /\ ref[1].coinbase =>
                        state.applied >= Maturity
                          + (CHOOSE i \in DOMAIN history : ref[1] \in history[i]) - 1]_ledgerVars
  BY <1>1, <1>2, Zenon DEF LedgerNext
<1>3. QED
  BY <1>2, Invariance, PTL DEF LedgerSpec, SpendsWaitAndLast

----------------------------------------------------------------------------
(* The money.                                                              *)

\* The entry of an output carries the amount it was created with.
EntriesCarry ==
    \A ref \in DOMAIN state.utxos : state.utxos[ref].amount = OutputAt(ref).amount

\* The inductive invariant of the money.  The counters are the values of the
\* two sides of the ledger, which is what relates them to the unspent set.
MInv ==
    /\ Countable(Refs)
    /\ EntriesCarry
    /\ state.created = ValueOf(Refs)
    /\ state.spentValue = ValueOf(state.spent)
    /\ state.created = state.spentValue + state.emitted
    /\ state.emitted = Rewards(state.applied - 1)
    /\ state.applied \in 0 .. MaxSlots
    /\ TreasuryGetsItsShare

\* What the treasury is owed up to the n-th slot.
Shares(n) ==
    SumFunction([slot \in {s \in 1 .. n : TreasuryActive(s)} |-> TreasuryShareOf(RewardOfSlot(slot))])

\* One more slot.
LEMMA NextShare ==
  ASSUME NEW n \in Nat, 1 .. n + 1 \subseteq Calendar
  PROVE  Shares(n + 1) = Shares(n)
           + (IF TreasuryActive(n + 1) THEN TreasuryShareOf(RewardOfSlot(n + 1)) ELSE 0)
         /\ Shares(n) \in Nat
<1> DEFINE S == {s \in 1 .. n : TreasuryActive(s)}
           T == {s \in 1 .. n + 1 : TreasuryActive(s)}
           f == [slot \in S |-> TreasuryShareOf(RewardOfSlot(slot))]
           g == [slot \in T |-> TreasuryShareOf(RewardOfSlot(slot))]
           next == n + 1
<1>1. IsFiniteSet(1 .. n) /\ IsFiniteSet(S) /\ Nat \in {Nat, Int}
  <2>1. IsFiniteSet(1 .. n) /\ S \in SUBSET (1 .. n)
    BY FirstNumbers
  <2>2. QED
    BY <2>1, FS_Subset
<1>2. \A slot \in T : TreasuryShareOf(RewardOfSlot(slot)) \in Nat
  <2>1. \A slot \in T : slot \in Calendar
    OBVIOUS
  <2>2. QED
    BY <2>1, RewardType
<1>3. next \notin S /\ T = IF TreasuryActive(next) THEN S \cup {next} ELSE S
  OBVIOUS
<1>4. Shares(n) = SumFunctionOnSet(f, S) /\ Shares(n + 1) = SumFunctionOnSet(g, T)
  BY Zenon DEF Shares, SumFunction
<1>5. /\ \A slot \in S : f[slot] \in Nat /\ g[slot] \in Int /\ f[slot] = g[slot]
      /\ \A slot \in T : g[slot] \in Int
      /\ next \in T => g[next] = TreasuryShareOf(RewardOfSlot(next))
  BY <1>2, <1>3
<1> HIDE DEF S, T, f, g, next
<1>6. SumFunctionOnSet(f, S) \in Nat
  BY <1>1, <1>5, SumType
<1>7. SumFunctionOnSet(g, S) = SumFunctionOnSet(f, S)
  BY <1>1, <1>5, SumEqual
<1>8. CASE TreasuryActive(next)
  <2>1. T = S \cup {next}
    BY <1>3, <1>8
  <2>2. SumFunctionOnSet(g, S \cup {next}) = g[next] + SumFunctionOnSet(g, S)
    BY <1>1, <1>3, <1>5, <2>1, SumAdd
  <2>3. g[next] = TreasuryShareOf(RewardOfSlot(next)) /\ g[next] \in Int
    BY <1>5, <2>1
  <2>4. QED
    BY <1>4, <1>6, <1>7, <1>8, <2>1, <2>2, <2>3 DEF next
<1>9. CASE ~TreasuryActive(next)
  BY <1>3, <1>4, <1>6, <1>7, <1>9 DEF next
<1>10. QED
  BY <1>8, <1>9

\* No slot, nothing emitted.
LEMMA NoReward == Rewards(0) = 0 /\ Rewards(-1) = 0 /\ Shares(0) = 0 /\ Shares(-1) = 0
<1>1. IsFiniteSet({}) /\ Nat \in {Nat, Int} /\ 1 .. 0 = {} /\ 1 .. -1 = {}
  BY FS_EmptySet
<1> DEFINE f == [slot \in {} |-> RewardOfSlot(slot)]
           g == [slot \in {} |-> TreasuryShareOf(RewardOfSlot(slot))]
<1>2. Rewards(0) = SumFunctionOnSet(f, {}) /\ Rewards(-1) = SumFunctionOnSet(f, {})
  BY <1>1, Zenon DEF Rewards, SumFunction
<1>3. Shares(0) = SumFunctionOnSet(g, {}) /\ Shares(-1) = SumFunctionOnSet(g, {})
  <2>1. {s \in 1 .. 0 : TreasuryActive(s)} = {} /\ {s \in 1 .. -1 : TreasuryActive(s)} = {}
    BY <1>1
  <2>2. QED
    BY <2>1, Zenon DEF Shares, SumFunction
<1> HIDE DEF f, g
<1>4. \A x \in {} : f[x] \in Nat /\ g[x] \in Nat
  OBVIOUS
<1>5. SumFunctionOnSet(f, {}) = 0 /\ SumFunctionOnSet(g, {}) = 0
  BY <1>1, <1>4, SumType
<1>6. QED
  BY <1>2, <1>3, <1>5

\* What the treasury holds is what it was owed.
LEMMA TreasuryForm == TreasuryGetsItsShare <=> ValueOf(ToTreasury(Refs)) = Shares(state.applied - 1)
  BY Zenon DEF TreasuryGetsItsShare, ToTreasury, Shares

\* The empty ledger satisfies the invariant of the money.
LEMMA InitMInv == LedgerInit => MInv
<1> SUFFICES ASSUME LedgerInit PROVE MInv
  OBVIOUS
<1>1. Refs = {}
  BY DEF LedgerInit, Refs, Made, ToSet
<1>2. /\ state.created = 0 /\ state.spentValue = 0 /\ state.emitted = 0
      /\ state.applied = 0 /\ state.spent = {} /\ DOMAIN state.utxos = {}
  BY DEF LedgerInit, New
<1>3. Countable({})
  BY FS_EmptySet DEF Countable
<1>4. ValueOf({}) = 0
  BY <1>3, ValueType
<1>5. ToTreasury({}) = {}
  BY DEF ToTreasury
<1>6. 0 - 1 = -1 /\ 0 \in 0 .. MaxSlots
  BY LedgerAssumption
<1>7. TreasuryGetsItsShare
  BY <1>1, <1>2, <1>4, <1>5, <1>6, NoReward, TreasuryForm
<1>8. state.emitted = Rewards(state.applied - 1)
  BY <1>2, <1>6, NoReward
<1>9. EntriesCarry
  BY <1>2 DEF EntriesCarry
<1>10. QED
  BY <1>1, <1>2, <1>3, <1>4, <1>6, <1>7, <1>8, <1>9 DEF MInv

\* A valid block preserves it.
LEMMA ApplyMInv ==
  ASSUME IInv, MInv, NEW height \in Heights, NEW txs \in Payloads,
         Novel(txs), ApplyBlock(height, txs)
  PROVE  MInv'
<1> DEFINE consumed == Consumed(Transfers(txs))
           slot == state.applied
           earned == Earned(state, txs)
           owed == IF TreasuryActive(slot) THEN TreasuryShareOf(RewardOfSlot(slot)) ELSE 0
<1>1. /\ slot < MaxSlots /\ (slot = 0 <=> height = 0)
      /\ BlockHolds(state, height, txs)
      /\ state' = Commit(state, txs)
      /\ history' = Append(history, txs)
  BY DEF ApplyBlock, IsInTurn
<1>2. /\ slot \in Nat /\ slot \in 0 .. MaxSlots - 1 /\ state'.applied = slot + 1
      /\ slot # 0 => slot \in Calendar
      /\ state'.applied \in 0 .. MaxSlots
  <2>1. slot \in Nat /\ MaxSlots \in Nat
    BY LedgerAssumption DEF MInv
  <2>2. slot \in 0 .. MaxSlots - 1
    BY <1>1, <2>1
  <2>3. slot # 0 => slot \in Calendar
    BY <2>2, LedgerAssumption
  <2>4. state'.applied = slot + 1
    BY <1>1, Committed
  <2>5. QED
    BY <1>1, <2>1, <2>2, <2>3, <2>4
<1>3. Refs' = Refs \cup Made(txs)
  <2>1. Applied' = Applied \cup txs
    BY <1>1, Appended DEF IInv
  <2>2. Refs = Made(Applied) /\ Refs' = Made(Applied')
    BY DEF Refs, Applied
  <2>3. QED
    BY <2>1, <2>2, Distribute, Zenon
<1>4. /\ OneSide(state, Applied) /\ Applied \cap Coinbases(txs) = {} /\ IsPayload(txs)
      /\ Refs = Made(Applied)
  BY Offered DEF Refs, Applied
<1>5. /\ Countable(Refs) /\ Refs \cap Made(txs) = {}
      /\ DOMAIN state.utxos \cup state.spent = Refs /\ InTurn(state, height)
  <2>1. Made(Applied) \cap Made(txs) = {}
    BY <1>1, <1>4, MadeIsNew
  <2>2. QED
    BY <1>1, <1>2, <1>4, <2>1 DEF MInv, OneSide, InTurn
<1>6. /\ earned \in Nat
      /\ earned = IF slot = 0 THEN 0 ELSE RewardOfSlot(slot)
      /\ ValueOf(Made(txs)) = earned + ValueOf(consumed)
      /\ ValueOf(ToTreasury(Made(txs))) = IF slot = 0 THEN 0 ELSE owed
  BY <1>1, <1>4, <1>5, BlockBalances
<1>7. Countable(Refs') /\ Countable(Made(txs)) /\ consumed \subseteq Refs'
  BY <1>1, <1>3, <1>4, <1>5, TransfersConserve, PayloadCounts
<1> HIDE DEF earned, owed
<1>8. consumed \cap state.spent = {} /\ state.spent \subseteq Refs'
  <2>1. DOMAIN state.utxos \cap state.spent = {}
    BY <1>4 DEF OneSide
  <2>2. QED
    BY <1>1, <1>3, <1>5, <2>1, ConsumedIsThere
<1>9. Countable(consumed) /\ Countable(state.spent) /\ ValueOf(consumed) \in Nat
  BY <1>7, <1>8, PartCounts, ValueType
<1>10. /\ state'.created = state.created + ValueOf(Made(txs))
       /\ state'.spentValue = state.spentValue + ValueOf(consumed)
       /\ state'.emitted = state.emitted + earned
       /\ state'.spent = state.spent \cup consumed
  BY <1>1 DEF Commit, Earned, earned
<1>11. /\ state'.created = ValueOf(Refs')
       /\ state'.spentValue = ValueOf(state'.spent)
  <2>1. ValueOf(Refs') = ValueOf(Refs) + ValueOf(Made(txs))
    BY <1>3, <1>5, <1>7, ValueOfUnion
  <2>2. ValueOf(state.spent \cup consumed) = ValueOf(state.spent) + ValueOf(consumed)
    BY <1>8, <1>9, ValueOfUnion
  <2>3. QED
    BY <1>10, <2>1, <2>2 DEF MInv
<1>12. state'.created = state'.spentValue + state'.emitted
  <2>1. /\ state.created = state.spentValue + state.emitted
        /\ state.created \in Nat /\ state.spentValue \in Nat
    BY <1>5, <1>9, ValueType DEF MInv
  <2>2. state.emitted \in Nat
    <3>1. CASE slot = 0
      <4>1. state.emitted = Rewards(-1)
        BY <3>1 DEF MInv
      <4>2. QED
        BY <4>1, NoReward
    <3>2. CASE slot # 0
      <4>1. slot - 1 \in Nat /\ 1 .. (slot - 1) + 1 \subseteq Calendar
        BY <1>2, <3>2, CalendarPrefix
      <4>2. QED
        BY <4>1, NextReward DEF MInv
    <3>3. QED
      BY <3>1, <3>2
  <2>3. QED
    BY <1>6, <1>9, <1>10, <2>1, <2>2
<1>13. /\ state'.emitted = Rewards(state'.applied - 1)
       /\ ValueOf(ToTreasury(Refs')) = Shares(state'.applied - 1)
  <2>0. ValueOf(ToTreasury(Refs')) = ValueOf(ToTreasury(Refs)) + ValueOf(ToTreasury(Made(txs)))
    <3>1. /\ ToTreasury(Refs') = ToTreasury(Refs) \cup ToTreasury(Made(txs))
          /\ ToTreasury(Refs) \cap ToTreasury(Made(txs)) = {}
          /\ ToTreasury(Refs) \subseteq Refs /\ ToTreasury(Made(txs)) \subseteq Made(txs)
      BY <1>3, <1>5 DEF ToTreasury
    <3>2. Countable(ToTreasury(Refs)) /\ Countable(ToTreasury(Made(txs)))
      BY <1>5, <1>7, <3>1, PartCounts
    <3>3. QED
      BY <3>1, <3>2, ValueOfUnion
  <2>1. ValueOf(ToTreasury(Refs)) = Shares(slot - 1)
    BY TreasuryForm DEF MInv
  <2>2. state.emitted = Rewards(slot - 1)
    BY DEF MInv
  <2>3. state'.applied - 1 = slot
    BY <1>2
  <2>4. CASE slot = 0
    <3>1. slot - 1 = -1
      BY <2>4
    <3>2. QED
      BY <1>6, <1>10, <2>0, <2>1, <2>2, <2>3, <2>4, <3>1, NoReward
  <2>5. CASE slot # 0
    <3> DEFINE n == slot - 1
    <3>1. n \in Nat /\ n + 1 = slot /\ 1 .. n + 1 \subseteq Calendar
      BY <1>2, <2>5, CalendarPrefix
    <3> HIDE DEF n
    <3>2. Rewards(n + 1) = Rewards(n) + RewardOfSlot(n + 1)
      BY <3>1, NextReward
    <3>3. Shares(n + 1) = Shares(n)
            + (IF TreasuryActive(n + 1) THEN TreasuryShareOf(RewardOfSlot(n + 1)) ELSE 0)
      BY <3>1, NextShare
    <3>4. Rewards(slot) = state.emitted + earned /\ Shares(slot) = Shares(slot - 1) + owed
      BY <1>6, <2>2, <2>5, <3>1, <3>2, <3>3 DEF owed, n
    <3>5. QED
      BY <1>6, <1>10, <2>0, <2>1, <2>3, <2>5, <3>4
  <2>6. QED
    BY <2>4, <2>5
<1>14. EntriesCarry'
  <2> SUFFICES ASSUME NEW ref \in DOMAIN state'.utxos
               PROVE  state'.utxos[ref].amount = OutputAt(ref).amount
    BY DEF EntriesCarry
  <2>1. state'.utxos[ref] = IF ref \in Made(txs) THEN EntryOf(state, ref) ELSE state.utxos[ref]
    BY <1>1, Committed
  <2>2. ref \in DOMAIN state.utxos \cup Made(txs)
    BY <1>1, Committed
  <2>3. EntryOf(state, ref).amount = OutputAt(ref).amount
    BY DEF EntryOf
  <2>4. QED
    BY <2>1, <2>2, <2>3 DEF MInv, EntriesCarry
<1>15. TreasuryGetsItsShare'
  <2>1. TreasuryGetsItsShare' <=> ValueOf(ToTreasury(Refs')) = Shares(state'.applied - 1)
    BY Zenon DEF TreasuryGetsItsShare, ToTreasury, Shares
  <2>2. QED
    BY <1>13, <2>1
<1>16. QED
  BY <1>2, <1>7, <1>11, <1>12, <1>13, <1>14, <1>15 DEF MInv

\* The money of every reachable ledger.
LEMMA MoneyInvariance == LedgerSpec => [](IInv /\ MInv)
<1>1. IInv /\ MInv /\ [LedgerNext]_ledgerVars => MInv'
  <2> SUFFICES ASSUME IInv, MInv, [LedgerNext]_ledgerVars PROVE MInv'
    OBVIOUS
  <2>1. CASE LedgerNext
    BY <2>1, ApplyMInv DEF LedgerNext
  <2>2. CASE UNCHANGED ledgerVars
    <3>1. state' = state /\ history' = history
      BY <2>2 DEF ledgerVars
    <3>2. Refs' = Refs /\ (EntriesCarry' <=> EntriesCarry)
      BY <3>1, Zenon DEF Refs, EntriesCarry
    <3>3. TreasuryGetsItsShare' <=> TreasuryGetsItsShare
      BY <3>1, <3>2, Zenon DEF TreasuryGetsItsShare
    <3>4. QED
      BY <3>1, <3>2, <3>3, Zenon DEF MInv
  <2>3. QED
    BY <2>1, <2>2
<1>2. QED
  BY <1>1, InitMInv, Invariance, PTL DEF LedgerSpec

\* The unspent outputs carry what was emitted, the counters agree with them,
\* and what was emitted is the calendar: the reward of every slot given out,
\* and the archived emission of every eclipse that is over (commit_block,
\* reward_of_slot).
THEOREM SupplyHolds == LedgerSpec => []SupplyIsTheEmission
<1>1. ASSUME IInv, MInv PROVE SupplyIsTheEmission
  <2> DEFINE unspent == DOMAIN state.utxos
             amounts == [ref \in unspent |-> state.utxos[ref].amount]
  <2>1. /\ unspent \cap state.spent = {} /\ unspent \cup state.spent = Refs
        /\ Countable(Refs)
    BY <1>1 DEF IInv, EveryOutputIsOnOneSide, MInv
  <2>2. Countable(unspent) /\ Countable(state.spent)
    <3>1. unspent \in SUBSET Refs /\ state.spent \in SUBSET Refs
      BY <2>1
    <3> HIDE DEF unspent
    <3>2. QED
      BY <2>1, <3>1, PartCounts
  <2>3. \A ref \in unspent : amounts[ref] = OutputAt(ref).amount
    BY <1>1 DEF MInv, EntriesCarry
  <2>4. SumFunction(amounts) = SumFunctionOnSet(amounts, unspent)
    BY Zenon DEF SumFunction
  <2>5. state.created = ValueOf(Refs) /\ state.spentValue = ValueOf(state.spent)
        /\ state.created = state.spentValue + state.emitted
        /\ state.emitted = Rewards(state.applied - 1)
    BY <1>1 DEF MInv
  <2>6. state.emitted \in Int
    <3>1. state.applied \in 0 .. MaxSlots /\ MaxSlots \in Nat
      BY <1>1, LedgerAssumption DEF MInv
    <3>2. CASE state.applied \in {0, 1}
      <4>1. state.applied - 1 \in {-1, 0}
        BY <3>2
      <4>2. QED
        BY <2>5, <4>1, NoReward
    <3>3. CASE state.applied \notin {0, 1}
      <4> DEFINE n == state.applied - 2
      <4>1. n \in Nat /\ n + 1 = state.applied - 1
        BY <3>1, <3>3
      <4>2. 1 .. n + 1 \subseteq Calendar
        <5>1. \A s \in 1 .. n + 1 : s \in 0 .. MaxSlots - 1 /\ s # 0
          BY <3>1, <4>1
        <5>2. QED
          BY <5>1, LedgerAssumption
      <4> HIDE DEF n
      <4>3. Rewards(n + 1) \in Nat
        BY <4>1, <4>2, NextReward
      <4>4. QED
        BY <2>5, <4>1, <4>3
    <3>4. QED
      BY <3>2, <3>3
  <2>7. SumFunction(amounts) = state.emitted
    <3> HIDE DEF unspent, amounts
    <3>1. ValueOf(unspent) = SumFunctionOnSet(amounts, unspent)
      BY <2>2, <2>3, ValueByTable
    <3>2. ValueOf(Refs) = ValueOf(unspent) + ValueOf(state.spent)
      BY <2>1, <2>2, ValueOfUnion
    <3>3. ValueOf(unspent) \in Nat /\ ValueOf(state.spent) \in Nat
      BY <2>2, ValueType
    <3>4. ValueOf(unspent) = state.emitted
      <4>1. ValueOf(unspent) + ValueOf(state.spent) = ValueOf(state.spent) + state.emitted
        BY <2>5, <3>2
      <4>2. ASSUME NEW a \in Int, NEW b \in Int, NEW c \in Int, a + b = b + c PROVE a = c
        BY <4>2
      <4>3. QED
        BY <2>6, <3>3, <4>1, <4>2
    <3>5. QED
      BY <2>4, <3>1, <3>4
  <2>8. EclipsesClose
    <3> SUFFICES ASSUME NEW n \in 0 .. Len(Emissions), state.applied = n * BlocksPerEclipse + 1
                 PROVE  state.emitted = Archived(n)
      BY Zenon DEF EclipsesClose, Archived
    <3>1. n * BlocksPerEclipse \in Nat
      BY EmissionAssumption
    <3>2. state.applied - 1 = n * BlocksPerEclipse
      BY <3>1
    <3>3. QED
      BY <2>5, <3>2, CalendarCloses
  <2>9. state.emitted = SumFunction([slot \in 1 .. state.applied - 1 |-> RewardOfSlot(slot)])
    BY <2>5 DEF Rewards
  <2>10. QED
    BY <2>5, <2>7, <2>8, <2>9 DEF SupplyIsTheEmission
<1>2. QED
  BY <1>1, MoneyInvariance, PTL

\* The treasury outputs of the coinbases applied so far are worth the shares of
\* the slots that owe it, whatever the miners offer (verify_coinbase).
THEOREM TreasuryIsPaid == LedgerSpec => []TreasuryGetsItsShare
<1>1. MInv => TreasuryGetsItsShare
  BY DEF MInv
<1>2. QED
  BY <1>1, MoneyInvariance, PTL

=============================================================================
