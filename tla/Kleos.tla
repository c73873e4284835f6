------------------------------- MODULE Kleos -------------------------------
(***************************************************************************)
(* The reputation machine (antumbra-kleos/src/score.rs) and the draw of    *)
(* the Ring (draw.rs), as operators.  A score counts millipoints in three  *)
(* layers; the sums stay far below 2^32.  The word stream of the draw, a   *)
(* hash of the entropy and a counter, is a sequence of naturals.           *)
(***************************************************************************)
EXTENDS Integers, FiniteSets, SequencesExt, Functions

CONSTANTS
    DeedMax, EchoMax, TenureMax,      \* the bounds of the layers
    DeedDecay, EchoDecay,             \* what an era takes from a layer
    EchoBudget, EchoTargetCap,        \* one attestation; the gain of a target
    WMin, WitnessMinDeed,             \* the weight of a witness (R2)
    RingThreshold, RingMinTenure,     \* the candidacy (R1)
    WitnessPenalty, SponsorPenalty    \* the liabilities (R3)

ASSUME KleosAssumption ==
    /\ {DeedMax, EchoMax, TenureMax, DeedDecay, EchoDecay, EchoBudget, EchoTargetCap,
        WMin, WitnessMinDeed, RingMinTenure, WitnessPenalty, SponsorPenalty} \subseteq Nat
    /\ RingThreshold \in Nat \ {0}
    /\ WitnessMinDeed < DeedMax

Score == [deed : 0 .. DeedMax, echo : 0 .. EchoMax, tenure : 0 .. TenureMax, dead : BOOLEAN]

Fresh == [deed |-> 0, echo |-> 0, tenure |-> 0, dead |-> FALSE]

Total(k) == k.deed + k.echo + k.tenure

Clamped(n, max) == IF n < 0 THEN 0 ELSE IF n > max THEN max ELSE n

----------------------------------------------------------------------------
(* Queries.                                                                *)

\* Mutant: the floor weight below the floor.
WitnessWeightOfAll(k) ==
    IF k.deed < WitnessMinDeed THEN WMin
    ELSE WMin + (850 * (k.deed - WitnessMinDeed)) \div (DeedMax - WitnessMinDeed)

WitnessWeight(k) ==
    IF k.deed < WitnessMinDeed THEN 0
    ELSE WMin + (850 * (k.deed - WitnessMinDeed)) \div (DeedMax - WitnessMinDeed)

IsRingCandidate(k) ==
    /\ Total(k) >= RingThreshold
    /\ k.tenure >= RingMinTenure
    /\ ~k.dead

PooledDeed(accrual) == accrual \div 4

MutualEcho(budget) == budget \div 10

EchoContribution(witness, budget) == (budget * WitnessWeight(witness)) \div 1000

\* contributions: witness -> what its attestation is worth.
CappedEchoGain(contributions) ==
    LET sum == SumFunction(contributions)
    IN  IF sum > EchoTargetCap THEN EchoTargetCap ELSE sum

----------------------------------------------------------------------------
(* Transitions.                                                            *)

AdvanceEra(k, deedGain, echoGain) ==
    [deed |-> Clamped(k.deed + deedGain - DeedDecay, DeedMax),
     echo |-> Clamped(k.echo + echoGain - EchoDecay, EchoMax),
     tenure |-> IF k.dead THEN k.tenure ELSE Clamped(k.tenure + 1, TenureMax),
     dead |-> k.dead]

ConvictFraud(k) == [deed |-> k.deed \div 2, echo |-> 0, tenure |-> 0, dead |-> TRUE]

PenalizeWitness(k) == [k EXCEPT !.deed = Clamped(@ - WitnessPenalty, DeedMax)]

PenalizeSponsor(k) == [k EXCEPT !.deed = Clamped(@ - SponsorPenalty, DeedMax)]

\* Mutant: the layers are emptied, the Tenure lives.
StripLayers(k) == [k EXCEPT !.deed = 0, !.echo = 0, !.tenure = 0]

Strip(k) == [deed |-> 0, echo |-> 0, tenure |-> 0, dead |-> TRUE]

----------------------------------------------------------------------------
(* The draw.                                                               *)

WeightOf(pool, weight) == SumFunction([x \in pool |-> weight[x]])

\* Mutant: the bound of a candidate belongs to it as well.
PickAtTheBound(pool, weight, r) ==
    CHOOSE x \in pool :
        LET before == WeightOf({y \in pool : y < x}, weight)
        IN  before <= r /\ r <= before + weight[x]

\* The candidate whose cumulative weight covers r: a candidate without weight
\* covers nothing.
Pick(pool, weight, r) ==
    CHOOSE x \in pool :
        LET before == WeightOf({y \in pool : y < x}, weight)
        IN  before <= r /\ r < before + weight[x]

\* One word a seat, without replacement, until the seats, the candidates or
\* their weight run out.  A pool without weight is refused by the code before
\* the first word: nobody is drawn either way.
Draw(pool, weight, words, seats) ==
    LET Seat(drawn, word) ==
            LET left == pool \ ToSet(drawn)
                total == WeightOf(left, weight)
            IN  IF total = 0 THEN drawn
                ELSE Append(drawn, Pick(left, weight, word % total))
    IN  FoldLeft(Seat, <<>>, SubSeq(words, 1, seats))

============================================================================
