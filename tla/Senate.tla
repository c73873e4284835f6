------------------------------- MODULE Senate -------------------------------
(***************************************************************************)
(* The Senate and the merge predicate (antumbra-forge/src/vote.rs,         *)
(* merge.rs, rail.rs): votes in their order of arrival, damped by family,  *)
(* the quorum over the tally, and the clauses a merge has to pass.         *)
(*                                                                         *)
(* The tally is kept vote by vote instead of being recomputed from a list. *)
(* The predicate takes facts; the families that acked and the greatest     *)
(* share are those of the tally here, the other facts are any of a set.    *)
(***************************************************************************)
EXTENDS Integers, FiniteSets, Sequences

CONSTANTS
    Families,        \* the model families
    FamilySlots,     \* the families the tally keeps apart: 64
    Overflow,        \* the slot of the families beyond
    Weights,         \* the weights of the voters
    MaxVotes,        \* bound: the votes of one family
    QuorumFamilies,  \* QUORUM_FAMILIES
    QuorumWeight,    \* QUORUM_WEIGHT_MP
    FamilyCap,       \* QUORUM_FAMILY_CAP_PM and FAMILY_CAP_PM
    OperatorCap,     \* OPERATOR_CAP_PM
    MinBuilders,     \* MIN_BUILDERS
    FactSets         \* the facts of a merge the tally does not give

VARIABLES
    acks,            \* family slot -> its weight and votes
    distinct, total, \* the families and the weight of the tally
    acked,           \* history: the families that voted
    decision         \* the last answer of the predicate, for which families

tallyVars == <<acks, distinct, total, acked>>
senateVars == <<tallyVars, decision>>

SenateInit ==
    /\ acks = [s \in {} |-> 0]
    /\ distinct = 0 /\ total = 0 /\ acked = {}
    /\ decision = [answer |-> "none", families |-> {}]

----------------------------------------------------------------------------

\* dampen_pm: a million over the integer root of a million times 1 + k.
RootOf(n) == CHOOSE r \in 1000 .. 1000 * (MaxVotes + 1) :
                 r * r <= n /\ (r + 1) * (r + 1) > n
Step(k) == 1000000 \div RootOf(1000000 * (1 + k))

\* The slot of a family: its own, a new one, or the one past the table.
SlotOf(family) ==
    IF \/ family \in DOMAIN acks
       \/ Cardinality(DOMAIN acks \ {Overflow}) < FamilySlots
    THEN family ELSE Overflow

SlotAt(s) == IF s \in DOMAIN acks THEN acks[s] ELSE [weight |-> 0, votes |-> 0]

Dampened(s, weight) == (weight * Step(SlotAt(s).votes)) \div 1000

\* One turn of the loop of tally.  A family past the table counts as a new
\* one with each of its votes.
CastVote(family, weight) ==
    LET s == SlotOf(family)
        w == Dampened(s, weight)
    IN  /\ acks' = [x \in DOMAIN acks \cup {s} |->
                       IF x = s
                       THEN [weight |-> SlotAt(s).weight + w, votes |-> SlotAt(s).votes + 1]
                       ELSE acks[x]]
        /\ distinct' = IF family \in DOMAIN acks THEN distinct ELSE distinct + 1
        /\ total' = total + w
        /\ acked' = acked \cup {family}
        /\ UNCHANGED decision

ShareOf(s) == (acks[s].weight * 1000) \div total

\* Mutant: a third, instead of the per mille below it.
WithinAThird == \A s \in DOMAIN acks : 3 * acks[s].weight <= total

\* The heaviest family is under the cap when all are.
WithinCap == \A s \in DOMAIN acks : ShareOf(s) <= FamilyCap

\* quorum_ok.
QuorumOk ==
    /\ distinct >= QuorumFamilies
    /\ total >= QuorumWeight
    /\ total # 0
    /\ WithinCap

----------------------------------------------------------------------------

\* Rail: the floors of the four rails.
Rails == {"A", "B", "C", "D"}
FMin(rail) == IF rail \in {"A", "B"} THEN 2 ELSE 3
MinFuzzSeconds(rail) ==
    CASE rail \in {"A", "B"} -> 3600 [] rail = "C" -> 14400 [] OTHER -> 0

Facts == [rail : Rails, files_match_rail : BOOLEAN, fuzz_seconds : Nat,
          nix_builders : Nat, open_critical_findings : Nat, operator_share : Nat,
          bond_locked : BOOLEAN, human_gate : BOOLEAN]

ASSUME SenateAssumption ==
    /\ FamilySlots \in Nat \ {0} /\ MaxVotes \in Nat
    /\ QuorumFamilies \in Nat /\ QuorumWeight \in Nat
    /\ FamilyCap \in 0 .. 332
    /\ Weights \subseteq Nat /\ FactSets \subseteq Facts
    /\ IsFiniteSet(Families) /\ Overflow \notin Families
    /\ \A k \in 0 .. MaxVotes : Step(k) \in 0 .. 1000

\* merge_ok: the clauses in their order, each with whether it stands.
Clauses(f, frozenNow) ==
    << <<"files_do_not_match_rail", f.files_match_rail>>,
       <<"fuzz_under_floor",        f.fuzz_seconds >= MinFuzzSeconds(f.rail)>>,
       <<"single_builder",          f.nix_builders >= MinBuilders>>,
       <<"family_floor",            distinct >= FMin(f.rail)>>,
       <<"open_critical_findings",  f.open_critical_findings = 0>>,
       <<"family_cap",              WithinCap>>,
       <<"operator_cap",            f.operator_share <= OperatorCap>>,
       <<"bond_unlocked",           f.bond_locked>>,
       <<"human_gate",              f.human_gate>>,
       <<"thymus_frozen",           ~frozenNow>> >>

\* The first clause that refuses names the answer.
Answers(f, frozenNow, answer) ==
    LET clauses == Clauses(f, frozenNow)
    IN  \/ /\ answer = "merge"
           /\ \A i \in DOMAIN clauses : clauses[i][2]
        \/ \E i \in DOMAIN clauses :
               /\ answer = clauses[i][1] /\ ~clauses[i][2]
               /\ \A j \in 1 .. i - 1 : clauses[j][2]

\* Without a weight there is no share to give to the predicate.
Decide(f, frozenNow) ==
    /\ total # 0
    /\ \E answer \in {"merge"} \cup {Clauses(f, frozenNow)[i][1] : i \in 1 .. 10} :
           /\ Answers(f, frozenNow, answer)
           /\ decision' = [answer |-> answer, families |-> acked]
    /\ UNCHANGED tallyVars

MayVote(family) == SlotAt(SlotOf(family)).votes < MaxVotes

SenateNext(frozenNow) ==
    \/ \E family \in Families, weight \in Weights :
           MayVote(family) /\ CastVote(family, weight)
    \/ \E f \in FactSets : Decide(f, frozenNow)

\* Every variable has its type.
SenateTypeOK ==
    /\ DOMAIN acks \subseteq Families \cup {Overflow}
    /\ acks \in [DOMAIN acks -> [weight : Nat, votes : Nat]]
    /\ distinct \in Nat /\ total \in Nat
    /\ acked \subseteq Families

\* A third of the weight is more than 330 per mille: although a quorum asks
\* for three families and a merge for two or three, neither passes with
\* fewer than four, as long as the families and the greatest share a merge is
\* judged by are those of one tally (vote.rs quorum_ok, merge.rs merge_ok).
ThreeAreABloc ==
    /\ QuorumOk => Cardinality(acked) >= 4
    /\ decision.answer = "merge" => Cardinality(decision.families) >= 4

=============================================================================
