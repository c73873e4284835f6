------------------------------ MODULE Mempool ------------------------------
(***************************************************************************)
(* The mempool (antumbra-node/src/mempool.rs): admitted transactions and   *)
(* the outputs they claim.  The signature of every offered transaction is  *)
(* taken as valid.  The ledger it admits against is a parameter.           *)
(***************************************************************************)
EXTENDS Wallet

VARIABLES pool, claimed

\* The container rules of the transaction layer (antumbra-tx/src/tx.rs).  A
\* coinbase passes them too.
IsWellFormed(t) ==
    /\ t.outputs # <<>>
    /\ \A i \in DOMAIN t.outputs : t.outputs[i].amount > 0
    /\ IF t.coinbase
       THEN t.inputs = {} /\ t.fee = 0 /\ Len(t.outputs) <= 2
       ELSE t.inputs # {} /\ t.fee >= MinFee

Admits(t, l, nextSlot) ==
    /\ IsWellFormed(t)
    /\ \A input \in t.inputs :
         /\ input.ref \notin claimed
         /\ input.ref \notin l.spent
         /\ input.ref \in DOMAIN l.utxos
         /\ IsMature(l, input.ref, nextSlot)
         /\ input.key = l.utxos[input.ref].to

Admit(t) ==
    /\ pool' = pool \cup {t}
    /\ claimed' = claimed \cup Claims(t)

\* What a block takes: at most max transactions, the smallest ids first.
IsTaken(taken, max) ==
    /\ taken \subseteq pool
    /\ Cardinality(taken) <= max
    /\ Cardinality(taken) < max => taken = pool
    /\ \A t \in taken, u \in pool \ taken : Before(t, u)

\* Mutant: the claims stay behind.
TakeWithoutRelease(taken) ==
    /\ pool' = pool \ taken
    /\ UNCHANGED claimed

\* The claims are released with the transactions that made them.
Take(taken) ==
    /\ pool' = pool \ taken
    /\ claimed' = claimed \ Consumed(taken)

=============================================================================
