------------------------------- MODULE Thymus -------------------------------
(***************************************************************************)
(* The immune system (antumbra-immune/src): alerts about the invariants of *)
(* the chain, some with a replayable proof, the slots that corroborate     *)
(* those without one, the freeze of the upgrades and its resolve, and the  *)
(* canaries that raise alerts of their own.                                *)
(*                                                                         *)
(* The slots are a function of the reporters, which is what the search of  *)
(* record_corroboration makes of the array: one slot a reporter.  Only     *)
(* whether a severity is critical, an alert is about an upgrade and        *)
(* carries a proof matters to the machine.  Who may file is up to the      *)
(* caller: any alert, inject and resolve may come at any time and height.  *)
(***************************************************************************)
EXTENDS Integers, FiniteSets

CONSTANTS
    Reporters,       \* the identities that file alerts
    Canaries,        \* the canaries among them
    Invariants,      \* what alerts are about
    Quorum,          \* SENTINEL_QUORUM
    Window,          \* SENTINEL_WINDOW, in heights
    Kinds,           \* bound: the kinds of alerts filed
    Top,             \* bound: the greatest height of a call
    MaxAlerts,       \* bound: the alerts kept, and the critical ones open
    MaxChecks        \* bound: the canary checks

ASSUME ThymusAssumption ==
    /\ Quorum \in Nat /\ Window \in Nat /\ Top \in Nat
    /\ Canaries \subseteq Reporters
    /\ Kinds \subseteq [crit : BOOLEAN, upgrade : BOOLEAN, proof : BOOLEAN]
    /\ IsFiniteSet(Reporters)

Heights == 0 .. Top
NoFault == -1

Alerts == [invariant : Invariants, crit : BOOLEAN, upgrade : BOOLEAN,
           proof : BOOLEAN, reporter : Reporters, height : Nat]
Slots == [invariant : Invariants, height : Nat]
NoAlert == [proof |-> FALSE, upgrade |-> FALSE]

VARIABLES
    frozen, freezeHeight, faultHeight, detected, lastHeight,
    openCrits, mttd, mttc, mttr,
    slots,           \* reporter -> what it last flagged, and when
    checked, failed, \* the canary suite
    filed,           \* history: the observations accepted since the last freeze
    cause            \* history: the last alert that froze, with what was filed

metrics == <<mttd, mttc, mttr, openCrits>>
suite == <<checked, failed>>
thymusVars == <<frozen, freezeHeight, faultHeight, detected, lastHeight,
                metrics, slots, suite, filed, cause>>

\* A saturating difference of heights.
Since(from, to) == IF from <= to THEN to - from ELSE 0

ThymusInit ==
    /\ frozen = FALSE /\ freezeHeight = 0
    /\ faultHeight = NoFault /\ detected = FALSE
    /\ lastHeight = 0 /\ openCrits = 0
    /\ mttd = 0 /\ mttc = 0 /\ mttr = 0
    /\ slots = [r \in {} |-> 0]
    /\ checked = 0 /\ failed = 0
    /\ filed = {} /\ cause = [alert |-> NoAlert, filed |-> {}]

----------------------------------------------------------------------------

\* record_corroboration: a reporter refreshes its slot, a new one takes a
\* free slot, and without a free slot the observation is not kept.
Recorded(alert) ==
    IF /\ ~alert.proof
       /\ alert.reporter \in DOMAIN slots \/ Cardinality(DOMAIN slots) < Quorum
    THEN [r \in DOMAIN slots \cup {alert.reporter} |->
             IF r = alert.reporter
             THEN [invariant |-> alert.invariant, height |-> alert.height]
             ELSE slots[r]]
    ELSE slots

Agreeing(s, alert) ==
    {r \in DOMAIN s : /\ s[r].invariant = alert.invariant
                      /\ Since(s[r].height, alert.height) <= Window}

\* Mutant: as many alerts as the quorum, whoever filed them.
QuorumOfAlerts(alert) ==
    Cardinality({a \in filed \cup {alert} : /\ ~a.proof /\ a.invariant = alert.invariant
                                            /\ Since(a.height, alert.height) <= Window})
        >= Quorum

\* quorum_reached, over the slots once the alert is recorded.
QuorumReached(alert) == Cardinality(Agreeing(Recorded(alert), alert)) >= Quorum

Freezes(alert) ==
    /\ ~frozen
    /\ alert.upgrade /\ alert.crit
    /\ alert.proof \/ QuorumReached(alert)

\* Mutant: the slots of the last freeze stay.
SlotsKept(alert) == Recorded(alert)

SlotsAfter(alert) == IF Freezes(alert) THEN [r \in {} |-> 0] ELSE Recorded(alert)

FiledWith(alert) == IF alert.proof THEN filed ELSE filed \cup {alert}

\* What an accepted alert does.
Accept(alert) ==
    /\ lastHeight' = alert.height
    /\ detected' = TRUE
    /\ mttd' = IF ~detected /\ faultHeight # NoFault
               THEN Since(faultHeight, alert.height) ELSE mttd
    /\ openCrits' = IF alert.crit THEN openCrits + 1 ELSE openCrits
    /\ slots' = SlotsAfter(alert)
    /\ IF Freezes(alert)
       THEN /\ frozen' = TRUE
            /\ freezeHeight' = alert.height
            /\ mttc' = IF faultHeight # NoFault
                       THEN Since(faultHeight, alert.height) ELSE mttc
            /\ cause' = [alert |-> alert, filed |-> FiledWith(alert)]
            /\ filed' = {}
       ELSE /\ filed' = FiledWith(alert)
            /\ UNCHANGED <<frozen, freezeHeight, mttc, cause>>
    /\ UNCHANGED <<faultHeight, mttr>>

InOrder(alert) == alert.height >= lastHeight

\* Thymus::observe.
Observe(alert) == InOrder(alert) /\ Accept(alert) /\ UNCHANGED suite

Inject(height) ==
    /\ faultHeight' = height
    /\ detected' = FALSE
    /\ UNCHANGED <<frozen, freezeHeight, lastHeight, metrics, slots, suite, filed, cause>>

Resolve(height) ==
    /\ frozen
    /\ frozen' = FALSE
    /\ mttr' = Since(freezeHeight, height)
    /\ openCrits' = 0
    /\ UNCHANGED <<freezeHeight, faultHeight, detected, lastHeight, mttd, mttc,
                   slots, suite, filed, cause>>

\* CanarySuite::observe: a deviation raises an alert of height zero, which
\* the machine takes only while it has seen no other height.
CanaryAlert(canary, invariant, crit) ==
    [invariant |-> invariant, crit |-> crit, upgrade |-> FALSE, proof |-> FALSE,
     reporter |-> canary, height |-> 0]

CanaryDeviates(canary, invariant, crit) ==
    LET alert == CanaryAlert(canary, invariant, crit)
    IN  /\ checked' = checked + 1
        /\ failed' = failed + 1
        /\ IF InOrder(alert)
           THEN Accept(alert)
           ELSE UNCHANGED <<frozen, freezeHeight, faultHeight, detected, lastHeight,
                            metrics, slots, filed, cause>>

CanaryMatches ==
    /\ checked' = checked + 1
    /\ UNCHANGED <<frozen, freezeHeight, faultHeight, detected, lastHeight, metrics,
                   slots, failed, filed, cause>>

\* CanarySuite::error_rate_pm.
ErrorRate == IF checked = 0 THEN 0 ELSE (1000 * failed) \div checked

Sentinels == Reporters \ Canaries

Filed(kind, invariant, r, height) ==
    [invariant |-> invariant, crit |-> kind.crit, upgrade |-> kind.upgrade,
     proof |-> kind.proof, reporter |-> r, height |-> height]

Files(height) ==
    \E kind \in Kinds, invariant \in Invariants, r \in Sentinels :
        Observe(Filed(kind, invariant, r, height))

MayFile == Cardinality(filed) < MaxAlerts /\ openCrits < MaxAlerts

ThymusNext ==
    \/ MayFile /\ \E height \in Heights : Files(height)
    \/ \E height \in Heights : Inject(height)
    \/ \E height \in Heights : Resolve(height)
    \/ checked < MaxChecks /\ CanaryMatches
    \/ checked < MaxChecks /\ \E c \in Canaries, i \in Invariants, crit \in BOOLEAN :
           CanaryDeviates(c, i, crit)

----------------------------------------------------------------------------

\* Every variable has its type.
ThymusTypeOK ==
    /\ frozen \in BOOLEAN /\ detected \in BOOLEAN
    /\ freezeHeight \in Nat /\ lastHeight \in Nat
    /\ faultHeight \in Nat \cup {NoFault}
    /\ mttd \in Nat /\ mttc \in Nat /\ mttr \in Nat /\ openCrits \in Nat
    /\ DOMAIN slots \subseteq Reporters
    /\ slots \in [DOMAIN slots -> Slots]
    /\ checked \in Nat /\ failed \in Nat /\ failed <= checked
    /\ filed \subseteq Alerts

\* What froze the upgrades was a critical alert about an upgrade with a
\* replayable proof, or as many reporters as the quorum that filed, since the
\* freeze before, about the same invariant within the window: one reporter
\* alone, however often it files, freezes nothing (thymus.rs observe,
\* record_corroboration, quorum_reached).
Evidence(alert, filings) ==
    \/ alert.proof
    \/ \E agreeing \in SUBSET Reporters :
           /\ Cardinality(agreeing) >= Quorum
           /\ \A r \in agreeing : \E a \in filings :
                  /\ a.reporter = r /\ ~a.proof
                  /\ a.invariant = alert.invariant
                  /\ Since(a.height, alert.height) <= Window

FreezeHasEvidence ==
    cause.alert # NoAlert =>
        /\ cause.alert.upgrade /\ cause.alert.crit
        /\ Evidence(cause.alert, cause.filed)

\* The converse holds as long as nobody else holds a slot: when everything
\* filed since the last freeze is about one invariant and within the window,
\* and comes from a quorum of reporters, a critical alert about an upgrade
\* freezes it (thymus.rs record_corroboration: the slots are cleared by a
\* freeze and by nothing else).
AgreementFreezes ==
    [][\A a \in filed' \ filed :
           (/\ a.crit /\ a.upgrade /\ ~frozen
            /\ \A b \in filed' : /\ b.invariant = a.invariant
                                 /\ Since(b.height, a.height) <= Window
            /\ Cardinality({b.reporter : b \in filed'}) >= Quorum)
           => frozen']_thymusVars

\* The clocks of a fault are in order: what is contained was detected first
\* (thymus.rs observe: alerts come in order of height, mttd, mttc).
ContainmentAfterDetection ==
    [][~frozen /\ frozen' /\ faultHeight # NoFault => mttd' <= mttc']_thymusVars

=============================================================================
