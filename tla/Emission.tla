------------------------------ MODULE Emission ------------------------------
(***************************************************************************)
(* The emission calendar (antumbra-state/src/coinbase.rs): the emission of *)
(* an eclipse spread over its slots, the first remainder slots carrying    *)
(* one atom more, and the treasury share of a reward.                      *)
(*                                                                         *)
(* Past the last eclipse of the table the code indexes out of bounds and   *)
(* panics; Calendar is the set of slots it answers for.                    *)
(***************************************************************************)
EXTENDS Integers, Sequences

CONSTANTS
    Emissions,             \* ECLIPSE_EMISSIONS_ATU, in atoms
    BlocksPerEclipse,
    TreasuryNumerator, TreasuryDenominator,
    TreasuryEclipses       \* how many eclipses pay the treasury

ASSUME EmissionAssumption ==
    /\ Emissions \in Seq(Nat)
    /\ BlocksPerEclipse \in Nat \ {0}
    /\ TreasuryNumerator \in Nat
    /\ TreasuryDenominator \in Nat \ {0}
    /\ TreasuryNumerator <= TreasuryDenominator
    /\ TreasuryEclipses \in Nat

Calendar == 1 .. Len(Emissions) * BlocksPerEclipse

EclipseOfSlot(slot) == (slot - 1) \div BlocksPerEclipse

\* Mutant: one slot too many takes the extra atom.
RewardOffByOne(slot) ==
    IF slot = 0 THEN 0
    ELSE LET emission == Emissions[EclipseOfSlot(slot) + 1]
             position == (slot - 1) % BlocksPerEclipse
         IN  (emission \div BlocksPerEclipse)
               + (IF position <= emission % BlocksPerEclipse THEN 1 ELSE 0)

RewardOfSlot(slot) ==
    IF slot = 0 THEN 0
    ELSE LET emission == Emissions[EclipseOfSlot(slot) + 1]
             position == (slot - 1) % BlocksPerEclipse
         IN  (emission \div BlocksPerEclipse)
               + (IF position < emission % BlocksPerEclipse THEN 1 ELSE 0)

TreasuryShareOf(reward) == (reward * TreasuryNumerator) \div TreasuryDenominator

TreasuryActive(slot) == slot >= 1 /\ EclipseOfSlot(slot) < TreasuryEclipses

=============================================================================
