------------------------------ MODULE MCForge ------------------------------
(* Parts that meet in one variable or none are explored side by side, not  *)
(* in their product: what the Thymus keeps of alerts without a proof, its  *)
(* clocks, the proposals and the Senate beside a Thymus that freezes and   *)
(* resolves, the registry.                                                 *)
EXTENDS Forge, TLC

VARIABLE part

CONSTANTS r1, r2, r3, canary, i1, i2, f1, f2, f3, f4, overflow, p1

Green == [rail |-> "C", files_match_rail |-> TRUE, fuzz_seconds |-> 14400,
          nix_builders |-> 2, open_critical_findings |-> 0, operator_share |-> 80,
          bond_locked |-> TRUE, human_gate |-> TRUE]
MCFactSets ==
    {Green,
     [Green EXCEPT !.rail = "A", !.fuzz_seconds = 3600],
     [Green EXCEPT !.rail = "D", !.fuzz_seconds = 0],
     [Green EXCEPT !.files_match_rail = FALSE, !.bond_locked = FALSE],
     [Green EXCEPT !.fuzz_seconds = 14399, !.human_gate = FALSE],
     [Green EXCEPT !.nix_builders = 1, !.operator_share = 81],
     [Green EXCEPT !.open_critical_findings = 1],
     [Green EXCEPT !.operator_share = 81],
     [Green EXCEPT !.bond_locked = FALSE],
     [Green EXCEPT !.human_gate = FALSE]}

MCRampStages == <<1, 10, 100>>

MCInit == Init /\ part \in {"quorum", "clocks", "upgrades", "senate", "registry"}

\* The Thymus as the other parts see it.
FreezesOrResolves == Immunity /\ frozen' # frozen /\ lastHeight' = 0 /\ filed' = {}

MCNext ==
    /\ \/ part = "quorum" /\ Immunity /\ faultHeight' = faultHeight
       \/ part = "clocks" /\ Immunity /\ filed' = filed
       \/ part = "upgrades" /\ (FreezesOrResolves \/ Upgrades)
       \/ part = "senate" /\ (FreezesOrResolves \/ Ballots)
       \/ part = "registry" /\ Changes
    /\ UNCHANGED part

MCSpec == MCInit /\ [][MCNext]_<<vars, part>>

MCKinds == {[crit |-> TRUE, upgrade |-> TRUE, proof |-> FALSE],
            [crit |-> TRUE, upgrade |-> TRUE, proof |-> TRUE],
            [crit |-> FALSE, upgrade |-> TRUE, proof |-> FALSE]}

Symmetry == Permutations({r1, r2, r3}) \cup Permutations({i1, i2})

\* What the properties and the guards read, and the history as far as the
\* properties are about it.
View == <<part, frozen, faultHeight, detected, lastHeight, mttd, slots, filed,
          checked, FreezeHasEvidence, upgradeVars, registryVars,
          acks, distinct, acked, ThreeAreABloc>>
=============================================================================
