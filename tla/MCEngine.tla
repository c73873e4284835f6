----------------------------- MODULE MCEngine -----------------------------
(* The instance of the engine that TLC checks. *)
EXTENDS Engine

\* Eclipses of two slots: rewards 12, 11, then 8, 8, then 4, 4.
MCEmissions == <<23, 16, 8>>

\* Rewards 8, 8, 8, 8, 7, 7: the third of an early coinbase is twice the fee.
DustEmissions == <<16, 16, 14>>

\* One reward for every slot.
FlatEmissions == <<16, 16, 16>>

\* An order of the transactions this instance meets: coinbases by height and
\* value, transfers by what they spend and pay.
RECURSIVE Rank(_)
Rank(t) ==
    IF t.coinbase
    THEN 32 * t.height + 3 * t.outputs[1].amount
           + (IF Len(t.outputs) = 2 THEN t.outputs[2].amount ELSE 0)
    ELSE LET ref == (CHOOSE input \in t.inputs : TRUE).ref
         IN  20 * (10 + Rank(ref[1])) + 10 * (ref[2] - 1) + t.outputs[1].amount

IsBefore(t, u) == Rank(t) < Rank(u)

=============================================================================
