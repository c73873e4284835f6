-------------------------------- MODULE Forge -------------------------------
(***************************************************************************)
(* The forge (antumbra-forge/src) beside the Thymus and the Senate: the    *)
(* proposals walking from draft to active, the bounded parameters of rail  *)
(* A, and the composition of the three.                                    *)
(*                                                                         *)
(* The repository has no caller of these functions yet, so the caller is   *)
(* any: every event may reach every proposal at any time, and the machine  *)
(* refuses the illegal ones.  Two events are the Thymus' own and arrive    *)
(* only when it is, or is no longer, frozen.                               *)
(***************************************************************************)
EXTENDS Thymus, Senate

CONSTANTS
    Proposals,
    RampStages,      \* RAMP_STAGES, percents of the nodes
    Params,          \* the bounded parameters
    Bands,           \* parameter -> [min, max, value]
    Cooldown,        \* PARAM_COOLDOWN_HEIGHTS
    Values,          \* bound: the values a change tries
    MaxChanges       \* bound: the changes of one parameter

VARIABLES
    state,           \* proposal -> its state, with the percent of a ramp
    opened,          \* history: proposal -> the ramp stages opened, in order
    params,          \* parameter -> its live value and last change
    changes          \* history: parameter -> the heights of its changes

upgradeVars == <<state, opened>>
registryVars == <<params, changes>>
vars == <<thymusVars, upgradeVars, registryVars, senateVars>>

----------------------------------------------------------------------------
(* Proposals.                                                              *)

At(label) == [at |-> label, pct |-> 0]
Ramp(pct) == [at |-> "ramp", pct |-> pct]

Labels == {"draft", "bonded", "redteam", "specdiff", "arena", "humangate",
           "antechamber", "canary", "ramp", "active", "rejected", "expired",
           "frozen", "rolledback"}

\* The events whose arrow depends on the state alone.
Road ==
    {<<"draft", "bond_locked", "bonded">>,
     <<"specdiff", "spec_diff_done", "arena">>,
     <<"arena", "arena_green", "humangate">>,
     <<"humangate", "human_gate_passed", "antechamber">>,
     <<"antechamber", "antechamber_green", "canary">>,
     <<"canary", "invariant_broke", "rolledback">>,
     <<"ramp", "invariant_broke", "rolledback">>,
     <<"active", "invariant_broke", "rolledback">>,
     <<"bonded", "abandoned", "expired">>,
     <<"redteam", "abandoned", "expired">>,
     <<"specdiff", "abandoned", "expired">>,
     <<"arena", "abandoned", "expired">>}

Moves(p, next) == state' = [state EXCEPT ![p] = next]

Walk(p, event) ==
    /\ \E arrow \in Road :
           arrow[1] = state[p].at /\ arrow[2] = event /\ Moves(p, At(arrow[3]))
    /\ UNCHANGED opened

RedTeamDone(p, findings) ==
    /\ state[p].at = "bonded"
    /\ Moves(p, At(IF findings > 0 THEN "rejected" ELSE "specdiff"))
    /\ UNCHANGED opened

Opens(p, pct) ==
    /\ Moves(p, Ramp(pct))
    /\ opened' = [opened EXCEPT ![p] = Append(@, pct)]

CanaryHeld(p) == state[p].at = "canary" /\ Opens(p, RampStages[1])

\* Nothing but the percent says how far a ramp is; one that is no stage has
\* no next.
RampStage(p) ==
    /\ state[p].at = "ramp"
    /\ \E i \in DOMAIN RampStages :
           /\ RampStages[i] = state[p].pct
           /\ IF i < Len(RampStages)
              THEN Opens(p, RampStages[i + 1])
              ELSE Moves(p, At("active")) /\ UNCHANGED opened

\* A freeze remembers the stage it caught: zero in the canary, which has
\* not opened any.
ThymusFreeze(p) ==
    /\ state[p].at \in {"ramp", "canary"}
    /\ Moves(p, [at |-> "frozen", pct |-> state[p].pct])
    /\ UNCHANGED opened

\* Mutant: the resolved ramp starts again.
ThymusResolveRestarts(p) ==
    /\ state[p].at = "frozen"
    /\ Opens(p, RampStages[1])

ThymusResolve(p) ==
    /\ state[p].at = "frozen"
    /\ Moves(p, Ramp(state[p].pct))
    /\ UNCHANGED opened

Transition(p) ==
    \/ \E arrow \in Road : Walk(p, arrow[2])
    \/ \E findings \in {0, 1} : RedTeamDone(p, findings)
    \/ CanaryHeld(p)
    \/ RampStage(p)
    \/ frozen /\ ThymusFreeze(p)
    \/ ~frozen /\ ThymusResolve(p)

----------------------------------------------------------------------------
(* The registry.  A change of an unknown key is refused and left out.      *)

Parameter(min, max, value) == [min |-> min, max |-> max, value |-> value]

\* The four parameters there are, with the whitepaper's defaults.
Genesis ==
    [ghostdag_k |-> Parameter(4, 16, 8),
     fee_floor_atomic |-> Parameter(100000, 10000000, 1000000),
     ring_size |-> Parameter(11, 24, 16),
     treasury_immunity_share_pm |-> Parameter(200000, 500000, 400000)]

InBand(k, value) == value \in Bands[k].min .. Bands[k].max

\* Mutant: a change past the first cooldown of all is not compared.
CooledFromZero(k, height) ==
    \/ height >= Cooldown
    \/ params[k].last = 0 \/ height >= params[k].last + Cooldown

\* Zero is also how the registry says that a parameter never changed.
Cooled(k, height) == params[k].last = 0 \/ height >= params[k].last + Cooldown

Change(k, value, height) ==
    /\ InBand(k, value)
    /\ Cooled(k, height)
    /\ params' = [params EXCEPT ![k] = [value |-> value, last |-> height]]
    /\ changes' = [changes EXCEPT ![k] = Append(@, height)]

----------------------------------------------------------------------------

ASSUME ForgeAssumption ==
    /\ RampStages \in Seq(Nat \ {0}) /\ Len(RampStages) > 0
    /\ \A i, j \in DOMAIN RampStages : RampStages[i] = RampStages[j] => i = j
    /\ Cooldown \in Nat
    /\ \A k \in Params : /\ Bands[k].min \in Nat /\ Bands[k].max \in Nat
                         /\ Bands[k].value \in Bands[k].min .. Bands[k].max

Init ==
    /\ ThymusInit /\ SenateInit
    /\ state = [p \in Proposals |-> At("draft")]
    /\ opened = [p \in Proposals |-> << >>]
    /\ params = [k \in Params |-> [value |-> Bands[k].value, last |-> 0]]
    /\ changes = [k \in Params |-> << >>]

Immunity == ThymusNext /\ UNCHANGED <<upgradeVars, registryVars, senateVars>>

Upgrades == /\ \E p \in Proposals : Transition(p)
            /\ UNCHANGED <<thymusVars, registryVars, senateVars>>

Changes ==
    /\ \E k \in Params, value \in Values, height \in Heights :
           Len(changes[k]) < MaxChanges /\ Change(k, value, height)
    /\ UNCHANGED <<thymusVars, upgradeVars, senateVars>>

Ballots == SenateNext(frozen) /\ UNCHANGED <<thymusVars, upgradeVars, registryVars>>

Next == Immunity \/ Upgrades \/ Changes \/ Ballots

Spec == Init /\ [][Next]_vars

----------------------------------------------------------------------------

\* Every variable has its type.
TypeOK ==
    /\ ThymusTypeOK /\ SenateTypeOK
    /\ state \in [Proposals -> [at : Labels, pct : Nat]]
    /\ opened \in [Proposals -> Seq(Nat \ {0})]
    /\ params \in [Params -> [value : Nat, last : Nat]]
    /\ changes \in [Params -> Seq(Nat)]

\* A ramp is climbed stage by stage, whatever freezes and resolves between,
\* and what is active climbed all of it; a change frozen in the canary comes
\* back to a ramp of no stage and never gets further (proposal.rs transition).
RampIsClimbed ==
    \A p \in Proposals :
        /\ Len(opened[p]) <= Len(RampStages)
        /\ \A i \in DOMAIN opened[p] : opened[p][i] = RampStages[i]
        /\ state[p].at \in {"ramp", "frozen"} =>
               state[p].pct = IF opened[p] = << >> THEN 0
                              ELSE RampStages[Len(opened[p])]
        /\ state[p].at = "active" => Len(opened[p]) = Len(RampStages)

\* The live values stay in their bands, and any two changes of a parameter
\* at heights above zero are a cooldown apart, in whatever order the heights
\* are offered; only height zero escapes it (registry.rs change).
ChangesAreSpaced ==
    \A k \in Params :
        /\ InBand(k, params[k].value)
        /\ \A i, j \in DOMAIN changes[k] :
               i < j /\ changes[k][i] # 0 => changes[k][j] >= changes[k][i] + Cooldown

=============================================================================
