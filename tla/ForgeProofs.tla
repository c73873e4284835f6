----------------------------- MODULE ForgeProofs -----------------------------
(***************************************************************************)
(* Theorems about the parts that decide by vote.  The forge, the Thymus    *)
(* and the Senate, for any reporters, quorum, window, families, weights,   *)
(* ramp and bands: what a step of the Thymus preserves, what a vote of the *)
(* Senate preserves, then the parts together.  And the Ring, for any       *)
(* seats, quorum, identities, messages, seasons and words: a fork convicts *)
(* the seats in which its two quorums meet, a node that follows the        *)
(* protocol is never convicted, a convicted one never sits again; and the  *)
(* draw seats by weight until the candidates run out.                      *)
(***************************************************************************)
EXTENDS Forge, Ring, Induction, SequenceTheorems, FunctionTheorems, FiniteSetTheorems, TLAPS

----------------------------------------------------------------------------
(* The Thymus.                                                             *)

\* What the slots keep was filed since the last freeze.
SlotsAreFiled ==
    \A r \in DOMAIN slots : \E a \in filed :
        /\ a.reporter = r /\ ~a.proof
        /\ a.invariant = slots[r].invariant /\ a.height = slots[r].height

\* Who filed holds a slot, or the slots are full.
SlotsFillUp ==
    \/ \A a \in filed : a.reporter \in DOMAIN slots
    \/ Cardinality(DOMAIN slots) >= Quorum

\* What is filed carries no proof.
FiledIsBare == \A a \in filed : ~a.proof

\* The time to detection never exceeds the height of the last alert.
DetectedInTime ==
    detected /\ faultHeight # NoFault => mttd <= Since(faultHeight, lastHeight)

TInv == /\ ThymusTypeOK /\ SlotsAreFiled /\ SlotsFillUp /\ FiledIsBare
        /\ DetectedInTime /\ FreezeHasEvidence

LEMMA ThymusInitTInv == ASSUME ThymusInit PROVE TInv
<1>1. DOMAIN slots = {} /\ slots \in [{} -> Slots] BY DEF ThymusInit
<1>2. ThymusTypeOK
  <2>1. DOMAIN slots \subseteq Reporters BY <1>1
  <2>2. slots \in [DOMAIN slots -> Slots] BY <1>1
  <2>3. frozen \in BOOLEAN /\ detected \in BOOLEAN /\ filed \subseteq Alerts
    BY DEF ThymusInit
  <2>4. /\ freezeHeight = 0 /\ lastHeight = 0 /\ faultHeight = NoFault
        /\ mttd = 0 /\ mttc = 0 /\ mttr = 0 /\ openCrits = 0
        /\ checked = 0 /\ failed = 0
    BY DEF ThymusInit
  <2> QED BY <2>1, <2>2, <2>3, <2>4 DEF ThymusTypeOK
<1>3. SlotsAreFiled /\ SlotsFillUp /\ FiledIsBare
  BY <1>1 DEF ThymusInit, SlotsAreFiled, SlotsFillUp, FiledIsBare
<1>4. DetectedInTime BY DEF ThymusInit, DetectedInTime
<1>5. cause.alert = NoAlert BY DEF ThymusInit
<1>6. FreezeHasEvidence BY <1>5 DEF FreezeHasEvidence
<1> QED BY <1>2, <1>3, <1>4, <1>6 DEF TInv

LEMMA SinceIsNat ==
    ASSUME NEW a \in Int, NEW b \in Nat, NEW c \in Nat, a >= -1
    PROVE  /\ Since(a, b) \in Nat \/ a = -1
           /\ b <= c => Since(a, b) <= Since(a, c)
BY DEF Since

\* The slots after an alert is recorded.
LEMMA RecordedSlots ==
    ASSUME NEW alert \in Alerts, TInv
    PROVE  /\ DOMAIN Recorded(alert) \subseteq Reporters
           /\ Recorded(alert) \in [DOMAIN Recorded(alert) -> Slots]
           /\ DOMAIN slots \subseteq DOMAIN Recorded(alert)
           /\ \A r \in DOMAIN Recorded(alert) : \E a \in FiledWith(alert) :
                  /\ a.reporter = r /\ ~a.proof
                  /\ a.invariant = Recorded(alert)[r].invariant
                  /\ a.height = Recorded(alert)[r].height
           /\ \/ \A a \in FiledWith(alert) : a.reporter \in DOMAIN Recorded(alert)
              \/ Cardinality(DOMAIN Recorded(alert)) >= Quorum
           /\ FiledWith(alert) \subseteq Alerts
           /\ \A a \in FiledWith(alert) : ~a.proof
<1> DEFINE kept == DOMAIN slots \cup {alert.reporter}
           next == [r \in kept |-> IF r = alert.reporter
                                   THEN [invariant |-> alert.invariant, height |-> alert.height]
                                   ELSE slots[r]]
<1>1. IsFiniteSet(DOMAIN slots) /\ IsFiniteSet(kept)
  BY FS_Subset, FS_AddElement, ThymusAssumption DEF TInv, ThymusTypeOK
<1>2. Cardinality(DOMAIN slots) \in Nat /\ Cardinality(kept) \in Nat
      /\ Cardinality(kept) >= Cardinality(DOMAIN slots)
  BY <1>1, FS_CardinalityType, FS_Subset
<1>3. [invariant |-> alert.invariant, height |-> alert.height] \in Slots
  BY DEF Alerts, Slots
<1>4. CASE Recorded(alert) = next /\ ~alert.proof
  <2>1. DOMAIN Recorded(alert) = kept BY <1>4
  <2>2. \A r \in kept : Recorded(alert)[r] \in Slots
    BY <1>3, <1>4 DEF TInv, ThymusTypeOK
  <2>3. Recorded(alert) \in [kept -> Slots] BY <1>4, <2>2
  <2>4. alert.reporter \in Reporters /\ ~alert.proof BY <1>4 DEF Alerts
  <2>5. FiledWith(alert) = filed \cup {alert} BY <2>4 DEF FiledWith
  <2>6. ASSUME NEW r \in kept
        PROVE  \E a \in FiledWith(alert) :
                  /\ a.reporter = r /\ ~a.proof
                  /\ a.invariant = Recorded(alert)[r].invariant
                  /\ a.height = Recorded(alert)[r].height
    <3>1. CASE r = alert.reporter BY <3>1, <1>4, <2>4, <2>5
    <3>2. CASE r # alert.reporter
      <4>1. r \in DOMAIN slots /\ Recorded(alert)[r] = slots[r] BY <3>2, <1>4
      <4>2. PICK a \in filed : /\ a.reporter = r /\ ~a.proof
                               /\ a.invariant = slots[r].invariant
                               /\ a.height = slots[r].height
        BY <4>1 DEF TInv, SlotsAreFiled
      <4> QED BY <4>1, <4>2, <2>5
    <3> QED BY <3>1, <3>2
  <2>7. \/ \A a \in FiledWith(alert) : a.reporter \in kept
        \/ Cardinality(kept) >= Quorum
    BY <2>5, <1>2, ThymusAssumption DEF TInv, SlotsFillUp
  <2>8. FiledWith(alert) \subseteq Alerts /\ \A a \in FiledWith(alert) : ~a.proof
    BY <2>4, <2>5 DEF TInv, ThymusTypeOK, FiledIsBare
  <2> QED BY <2>1, <2>3, <2>4, <2>6, <2>7, <2>8 DEF TInv, ThymusTypeOK
<1>5. CASE Recorded(alert) = slots
           /\ (alert.proof \/ Cardinality(DOMAIN slots) >= Quorum)
  <2>1. FiledWith(alert) = filed \/ (FiledWith(alert) = filed \cup {alert} /\ ~alert.proof
                                     /\ Cardinality(DOMAIN slots) >= Quorum)
    BY <1>5 DEF FiledWith
  <2> QED
    BY <1>5, <2>1 DEF TInv, ThymusTypeOK, SlotsAreFiled, SlotsFillUp, FiledIsBare
<1>6. \/ Recorded(alert) = next /\ ~alert.proof
      \/ /\ Recorded(alert) = slots
         /\ alert.proof \/ ~(Cardinality(DOMAIN slots) < Quorum)
  BY DEF Recorded
<1>7. Cardinality(DOMAIN slots) < Quorum \/ Cardinality(DOMAIN slots) >= Quorum
  BY <1>2, ThymusAssumption
<1> QED BY <1>4, <1>5, <1>6, <1>7

\* The evidence a freeze finds in its slots.
LEMMA FreezesOnEvidence ==
    ASSUME NEW alert \in Alerts, TInv, Freezes(alert)
    PROVE  alert.upgrade /\ alert.crit /\ Evidence(alert, FiledWith(alert))
<1>1. CASE alert.proof BY <1>1 DEF Freezes, Evidence
<1>2. CASE QuorumReached(alert)
  <2> DEFINE who == Agreeing(Recorded(alert), alert)
  <2>1. Cardinality(who) >= Quorum BY <1>2 DEF QuorumReached
  <2>2. who \in SUBSET Reporters BY RecordedSlots DEF Agreeing
  <2>3. ASSUME NEW r \in who
        PROVE  \E a \in FiledWith(alert) :
                  /\ a.reporter = r /\ ~a.proof
                  /\ a.invariant = alert.invariant
                  /\ Since(a.height, alert.height) <= Window
    <3>1. /\ r \in DOMAIN Recorded(alert)
          /\ Recorded(alert)[r].invariant = alert.invariant
          /\ Since(Recorded(alert)[r].height, alert.height) <= Window
      BY DEF Agreeing
    <3>2. PICK a \in FiledWith(alert) :
                  /\ a.reporter = r /\ ~a.proof
                  /\ a.invariant = Recorded(alert)[r].invariant
                  /\ a.height = Recorded(alert)[r].height
      BY <3>1, RecordedSlots
    <3> QED BY <3>1, <3>2
  <2> HIDE DEF who
  <2> QED BY <1>2, <2>1, <2>2, <2>3 DEF Evidence, Freezes
<1> QED BY <1>1, <1>2 DEF Freezes

LEMMA AcceptKeepsTInv ==
    ASSUME NEW alert \in Alerts, TInv, InOrder(alert), Accept(alert),
           checked' \in Nat, failed' \in Nat, failed' <= checked'
    PROVE  TInv'
<1>1. alert.height \in Nat /\ lastHeight \in Nat /\ alert.height >= lastHeight
  BY DEF Alerts, InOrder, TInv, ThymusTypeOK
<1>2. /\ lastHeight' = alert.height /\ detected' = TRUE
      /\ faultHeight' = faultHeight /\ mttr' = mttr
      /\ mttd' = IF ~detected /\ faultHeight # NoFault
                  THEN Since(faultHeight, alert.height) ELSE mttd
      /\ openCrits' = IF alert.crit THEN openCrits + 1 ELSE openCrits
  BY DEF Accept
<1>3. faultHeight # NoFault => Since(faultHeight, alert.height) \in Nat
  BY <1>1 DEF TInv, ThymusTypeOK, Since, NoFault
<1>4. DetectedInTime'
  BY <1>1, <1>2, <1>3 DEF TInv, ThymusTypeOK, DetectedInTime, Since, NoFault
<1>5. /\ detected' \in BOOLEAN /\ lastHeight' \in Nat
      /\ faultHeight' \in Nat \cup {NoFault}
      /\ mttd' \in Nat /\ mttr' \in Nat /\ openCrits' \in Nat
      /\ checked' \in Nat /\ failed' \in Nat /\ failed' <= checked'
  BY <1>1, <1>2, <1>3 DEF TInv, ThymusTypeOK
<1>6. CASE Freezes(alert)
  <2>1. /\ frozen' = TRUE /\ freezeHeight' = alert.height
        /\ mttc' = IF faultHeight # NoFault THEN Since(faultHeight, alert.height) ELSE mttc
        /\ cause' = [alert |-> alert, filed |-> FiledWith(alert)]
        /\ filed' = {} /\ slots' = [r \in {} |-> 0]
    BY <1>6 DEF Accept, SlotsAfter
  <2>2. DOMAIN slots' \subseteq Reporters /\ slots' \in [DOMAIN slots' -> Slots]
        /\ DOMAIN slots' = {}
    BY <2>1
  <2>3. /\ frozen' \in BOOLEAN /\ freezeHeight' \in Nat /\ mttc' \in Nat
        /\ filed' \subseteq Alerts
    BY <1>1, <1>3, <2>1 DEF TInv, ThymusTypeOK
  <2>4. ThymusTypeOK' BY <1>5, <2>2, <2>3 DEF ThymusTypeOK
  <2>5. SlotsAreFiled' /\ SlotsFillUp' /\ FiledIsBare'
    BY <2>1, <2>2 DEF SlotsAreFiled, SlotsFillUp, FiledIsBare
  <2>6. cause'.alert = alert /\ cause'.filed = FiledWith(alert) BY <2>1
  <2>7. FreezeHasEvidence'
    BY <1>6, <2>6, FreezesOnEvidence DEF FreezeHasEvidence, Evidence
  <2> QED BY <1>4, <2>4, <2>5, <2>7 DEF TInv
<1>7. CASE ~Freezes(alert)
  <2>1. /\ slots' = Recorded(alert) /\ filed' = FiledWith(alert)
        /\ UNCHANGED <<frozen, freezeHeight, mttc, cause>>
    BY <1>7 DEF Accept, SlotsAfter
  <2>2. /\ DOMAIN slots' \subseteq Reporters /\ slots' \in [DOMAIN slots' -> Slots]
        /\ filed' \subseteq Alerts
    BY <2>1, RecordedSlots
  <2>3. ThymusTypeOK' BY <1>5, <2>1, <2>2 DEF TInv, ThymusTypeOK
  <2>4. SlotsAreFiled' /\ SlotsFillUp' /\ FiledIsBare'
    BY <2>1, RecordedSlots DEF SlotsAreFiled, SlotsFillUp, FiledIsBare
  <2>5. FreezeHasEvidence' BY <2>1 DEF TInv, FreezeHasEvidence, Evidence
  <2> QED BY <1>4, <2>3, <2>4, <2>5 DEF TInv
<1> QED BY <1>6, <1>7

LEMMA FiledIsAlert ==
    ASSUME NEW kind \in Kinds, NEW i \in Invariants, NEW r \in Sentinels, NEW h \in Heights
    PROVE  Filed(kind, i, r, h) \in Alerts
BY ThymusAssumption DEF Filed, Alerts, Sentinels, Heights

LEMMA CanaryAlertIsAlert ==
    ASSUME NEW c \in Canaries, NEW i \in Invariants, NEW crit \in BOOLEAN
    PROVE  CanaryAlert(c, i, crit) \in Alerts
BY ThymusAssumption DEF CanaryAlert, Alerts

LEMMA ThymusStepTInv == ASSUME TInv, [ThymusNext]_thymusVars PROVE TInv'
<1>1. CASE UNCHANGED thymusVars
  BY <1>1 DEF thymusVars, metrics, suite, TInv, ThymusTypeOK, SlotsAreFiled, SlotsFillUp,
     FiledIsBare, DetectedInTime, FreezeHasEvidence, Evidence
<1>2. ASSUME NEW kind \in Kinds, NEW i \in Invariants, NEW r \in Sentinels,
             NEW h \in Heights, Observe(Filed(kind, i, r, h))
      PROVE  TInv'
  <2> DEFINE alert == Filed(kind, i, r, h)
  <2>1. alert \in Alerts BY FiledIsAlert
  <2>2. InOrder(alert) /\ Accept(alert) /\ UNCHANGED suite BY <1>2 DEF Observe
  <2>3. checked' \in Nat /\ failed' \in Nat /\ failed' <= checked'
    BY <2>2 DEF suite, TInv, ThymusTypeOK
  <2> HIDE DEF alert
  <2> QED BY <2>1, <2>2, <2>3, AcceptKeepsTInv
<1>3. ASSUME NEW h \in Heights, Inject(h) PROVE TInv'
  <2>1. h \in Nat BY ThymusAssumption DEF Heights
  <2>2. /\ faultHeight' = h /\ detected' = FALSE
        /\ UNCHANGED <<frozen, freezeHeight, lastHeight, openCrits, mttd, mttc, mttr>>
        /\ UNCHANGED <<slots, checked, failed, filed, cause>>
    BY <1>3 DEF Inject, metrics, suite
  <2>3. ThymusTypeOK' BY <2>1, <2>2 DEF TInv, ThymusTypeOK
  <2>4. SlotsAreFiled' /\ SlotsFillUp' /\ FiledIsBare'
    BY <2>2 DEF TInv, SlotsAreFiled, SlotsFillUp, FiledIsBare
  <2>5. DetectedInTime' BY <2>2 DEF DetectedInTime
  <2>6. FreezeHasEvidence' BY <2>2 DEF TInv, FreezeHasEvidence, Evidence
  <2> QED BY <2>3, <2>4, <2>5, <2>6 DEF TInv
<1>4. ASSUME NEW h \in Heights, Resolve(h) PROVE TInv'
  <2>1. h \in Nat BY ThymusAssumption DEF Heights
  <2>2. Since(freezeHeight, h) \in Nat BY <2>1 DEF Since, TInv, ThymusTypeOK
  <2>3. /\ frozen' = FALSE /\ mttr' = Since(freezeHeight, h) /\ openCrits' = 0
        /\ UNCHANGED <<freezeHeight, faultHeight, detected, lastHeight, mttd, mttc>>
        /\ UNCHANGED <<slots, checked, failed, filed, cause>>
    BY <1>4 DEF Resolve, suite
  <2>4. ThymusTypeOK' BY <2>2, <2>3 DEF TInv, ThymusTypeOK
  <2>5. SlotsAreFiled' /\ SlotsFillUp' /\ FiledIsBare'
    BY <2>3 DEF TInv, SlotsAreFiled, SlotsFillUp, FiledIsBare
  <2>6. DetectedInTime' BY <2>3 DEF TInv, DetectedInTime
  <2>7. FreezeHasEvidence' BY <2>3 DEF TInv, FreezeHasEvidence, Evidence
  <2> QED BY <2>4, <2>5, <2>6, <2>7 DEF TInv
<1>5. CASE CanaryMatches
  BY <1>5 DEF CanaryMatches, metrics, TInv, ThymusTypeOK, SlotsAreFiled,
     SlotsFillUp, FiledIsBare, DetectedInTime, FreezeHasEvidence, Evidence
<1>6. ASSUME NEW c \in Canaries, NEW i \in Invariants, NEW crit \in BOOLEAN,
             CanaryDeviates(c, i, crit)
      PROVE  TInv'
  <2> DEFINE alert == CanaryAlert(c, i, crit)
  <2>1. alert \in Alerts BY CanaryAlertIsAlert
  <2>2. checked' \in Nat /\ failed' \in Nat /\ failed' <= checked'
    BY <1>6 DEF CanaryDeviates, TInv, ThymusTypeOK
  <2>3. CASE InOrder(alert) /\ Accept(alert)
    <3> HIDE DEF alert
    <3> QED BY <2>1, <2>2, <2>3, AcceptKeepsTInv
  <2>4. CASE UNCHANGED <<frozen, freezeHeight, faultHeight, detected, lastHeight,
                         metrics, slots, filed, cause>>
    BY <2>2, <2>4 DEF metrics, TInv, ThymusTypeOK, SlotsAreFiled,
       SlotsFillUp, FiledIsBare, DetectedInTime, FreezeHasEvidence, Evidence
  <2> QED BY <1>6, <2>3, <2>4 DEF CanaryDeviates
<1> QED BY <1>1, <1>2, <1>3, <1>4, <1>5, <1>6 DEF ThymusNext, Files

----------------------------------------------------------------------------
(* The action properties.                                                  *)

\* Only an alert that freezes turns frozen on.
LEMMA FreezingSteps ==
    ASSUME TInv, [ThymusNext]_thymusVars, ~frozen, frozen'
    PROVE  \E alert \in Alerts : InOrder(alert) /\ Accept(alert) /\ Freezes(alert)
<1>1. ASSUME NEW alert \in Alerts, InOrder(alert), Accept(alert)
      PROVE  Freezes(alert)
  BY <1>1 DEF Accept
<1>2. ~UNCHANGED thymusVars BY DEF thymusVars
<1>3. ASSUME NEW kind \in Kinds, NEW i \in Invariants, NEW r \in Sentinels,
             NEW h \in Heights, Observe(Filed(kind, i, r, h))
      PROVE  \E alert \in Alerts : InOrder(alert) /\ Accept(alert)
  BY <1>3, FiledIsAlert DEF Observe
<1>4. ASSUME NEW c \in Canaries, NEW i \in Invariants, NEW crit \in BOOLEAN,
             CanaryDeviates(c, i, crit)
      PROVE  \E alert \in Alerts : InOrder(alert) /\ Accept(alert)
  BY <1>4, CanaryAlertIsAlert DEF CanaryDeviates
<1>5. \E alert \in Alerts : InOrder(alert) /\ Accept(alert)
  BY <1>2, <1>3, <1>4 DEF ThymusNext, Files, Inject, Resolve, CanaryMatches
<1> QED BY <1>1, <1>5

LEMMA ContainedAfterDetected ==
    ASSUME TInv, [ThymusNext]_thymusVars, ~frozen, frozen', faultHeight # NoFault
    PROVE  mttd' <= mttc'
<1>1. PICK alert \in Alerts : InOrder(alert) /\ Accept(alert) /\ Freezes(alert)
  BY FreezingSteps
<1>2. alert.height \in Nat /\ lastHeight \in Nat /\ alert.height >= lastHeight
      /\ faultHeight \in Nat
  BY <1>1 DEF Alerts, InOrder, TInv, ThymusTypeOK
<1>3. /\ mttd' = IF ~detected THEN Since(faultHeight, alert.height) ELSE mttd
      /\ mttc' = Since(faultHeight, alert.height)
  BY <1>1 DEF Accept
<1>4. detected => mttd <= Since(faultHeight, lastHeight)
  BY DEF TInv, DetectedInTime
<1>5. Since(faultHeight, lastHeight) <= Since(faultHeight, alert.height)
      /\ Since(faultHeight, alert.height) \in Nat /\ Since(faultHeight, lastHeight) \in Nat
  BY <1>2 DEF Since
<1>6. mttd \in Nat BY DEF TInv, ThymusTypeOK
<1> QED BY <1>3, <1>4, <1>5, <1>6

\* When everything filed agrees and comes from a quorum, the slots agree too.
LEMMA QuorumOfTheAgreeing ==
    ASSUME NEW alert \in Alerts, TInv,
           \A b \in FiledWith(alert) : /\ b.invariant = alert.invariant
                                       /\ Since(b.height, alert.height) <= Window,
           Cardinality({b.reporter : b \in FiledWith(alert)}) >= Quorum
    PROVE  QuorumReached(alert)
<1> DEFINE held == DOMAIN Recorded(alert)
           who == {b.reporter : b \in FiledWith(alert)}
<1>1. Agreeing(Recorded(alert), alert) = held
  <2>1. ASSUME NEW r \in held PROVE r \in Agreeing(Recorded(alert), alert)
    <3>1. PICK a \in FiledWith(alert) :
                  /\ a.reporter = r /\ ~a.proof
                  /\ a.invariant = Recorded(alert)[r].invariant
                  /\ a.height = Recorded(alert)[r].height
      BY RecordedSlots
    <3> QED BY <3>1 DEF Agreeing
  <2> QED BY <2>1 DEF Agreeing
<1>2. IsFiniteSet(held) /\ Cardinality(held) \in Nat
  BY RecordedSlots, FS_Subset, FS_CardinalityType, ThymusAssumption
<1>3. Cardinality(held) >= Quorum
  <2>1. CASE \A a \in FiledWith(alert) : a.reporter \in held
    <3>1. who \subseteq held BY <2>1
    <3>2. Cardinality(who) <= Cardinality(held) /\ Cardinality(who) \in Nat
      BY <3>1, <1>2, FS_Subset, FS_CardinalityType
    <3>3. Cardinality(who) >= Quorum OBVIOUS
    <3> QED BY <3>2, <3>3, <1>2, ThymusAssumption
  <2>2. CASE Cardinality(held) >= Quorum BY <2>2
  <2> QED BY <2>1, <2>2, RecordedSlots
<1> QED BY <1>1, <1>3 DEF QuorumReached

LEMMA AgreedAlertFreezes ==
    ASSUME TInv, [ThymusNext]_thymusVars, NEW a \in filed' \ filed,
           a.crit, a.upgrade, ~frozen,
           \A b \in filed' : /\ b.invariant = a.invariant
                            /\ Since(b.height, a.height) <= Window,
           Cardinality({b.reporter : b \in filed'}) >= Quorum
    PROVE  frozen'
<1>1. ASSUME NEW alert \in Alerts, Accept(alert) PROVE frozen'
  <2>1. CASE Freezes(alert) BY <1>1, <2>1 DEF Accept
  <2>2. CASE ~Freezes(alert)
    <3>1. filed' = FiledWith(alert) BY <1>1, <2>2 DEF Accept
    <3>2. a = alert BY <3>1 DEF FiledWith
    <3>3. QuorumReached(alert) BY <3>1, <3>2, QuorumOfTheAgreeing
    <3> QED BY <2>2, <3>2, <3>3 DEF Freezes
  <2> QED BY <2>1, <2>2
<1>2. ~UNCHANGED filed OBVIOUS
<1>3. ASSUME NEW kind \in Kinds, NEW i \in Invariants, NEW r \in Sentinels,
             NEW h \in Heights, Observe(Filed(kind, i, r, h))
      PROVE  \E alert \in Alerts : Accept(alert)
  BY <1>3, FiledIsAlert DEF Observe
<1>4. ASSUME NEW c \in Canaries, NEW i \in Invariants, NEW crit \in BOOLEAN,
             CanaryDeviates(c, i, crit)
      PROVE  \E alert \in Alerts : Accept(alert)
  BY <1>2, <1>4, CanaryAlertIsAlert DEF CanaryDeviates
<1>5. \E alert \in Alerts : Accept(alert)
  BY <1>2, <1>3, <1>4 DEF ThymusNext, Files, Inject, Resolve, CanaryMatches, thymusVars
<1> QED BY <1>1, <1>5

----------------------------------------------------------------------------
(* The Senate: what a vote preserves, and why three families are never a   *)
(* quorum.                                                                 *)

WeightAt(s) == SlotAt(s).weight

\* Every slot is a family that voted, or the one past the table, and then
\* some family that voted has no slot and gets none.
SlotsAreFamilies ==
    /\ DOMAIN acks \ {Overflow} \subseteq acked
    /\ Overflow \in DOMAIN acks =>
           /\ Cardinality(DOMAIN acks \ {Overflow}) >= FamilySlots
           /\ \E f \in acked : f \notin DOMAIN acks

\* The weights of three slots that hold everything add up to the total.
ThreeHoldAll ==
    \A a, b, c : DOMAIN acks \subseteq {a, b, c} =>
        total <= WeightAt(a) + WeightAt(b) + WeightAt(c)

\* What was merged stays a merge of four families.
MergesTookFour == decision.answer = "merge" => Cardinality(decision.families) >= 4

SInv == SenateTypeOK /\ SlotsAreFamilies /\ ThreeHoldAll /\ MergesTookFour

LEMMA ShareBound ==
    ASSUME NEW w \in Nat, NEW t \in Nat \ {0}, (w * 1000) \div t <= 332
    PROVE  w * 1000 < 333 * t
<1> DEFINE q == (w * 1000) \div t
           r == (w * 1000) % t
<1>1. q \in Int /\ r \in 0 .. t - 1 /\ w * 1000 = t * q + r
  OBVIOUS
<1>2. q <= 332 OBVIOUS
<1>3. t * q <= t * 332
  BY <1>1, <1>2
<1> QED BY <1>1, <1>3

LEMMA OneLess ==
    ASSUME NEW S, NEW x \in S, IsFiniteSet(S), NEW n \in Nat, Cardinality(S) < n + 1
    PROVE  IsFiniteSet(S \ {x}) /\ Cardinality(S \ {x}) < n
<1>1. IsFiniteSet(S \ {x}) /\ Cardinality(S \ {x}) = Cardinality(S) - 1
  BY FS_RemoveElement
<1>2. Cardinality(S) \in Nat BY FS_CardinalityType
<1> QED BY <1>1, <1>2

LEMMA AtMostThree ==
    ASSUME NEW S, IsFiniteSet(S), Cardinality(S) < 4
    PROVE  \E x, y, z : S \subseteq {x, y, z}
<1>1. CASE S = {} BY <1>1
<1>2. CASE S # {}
  <2>1. PICK x : x \in S BY <1>2
  <2>2. IsFiniteSet(S \ {x}) /\ Cardinality(S \ {x}) < 3
    <3>1. Cardinality(S) < 3 + 1 OBVIOUS
    <3> QED BY <2>1, <3>1, OneLess
  <2>3. CASE S \ {x} = {}
    <3>1. S \subseteq {x, x, x} BY <2>3
    <3> QED BY <3>1
  <2>4. CASE S \ {x} # {}
    <3>1. PICK y : y \in S \ {x} BY <2>4
    <3>2. IsFiniteSet((S \ {x}) \ {y}) /\ Cardinality((S \ {x}) \ {y}) < 2
      <4>1. Cardinality(S \ {x}) < 2 + 1 BY <2>2
      <4> QED BY <2>2, <3>1, <4>1, OneLess
    <3>3. CASE (S \ {x}) \ {y} = {}
      <4>1. S \subseteq {x, y, y} BY <3>3
      <4> QED BY <4>1
    <3>4. CASE (S \ {x}) \ {y} # {}
      <4>1. PICK z : z \in (S \ {x}) \ {y} BY <3>4
      <4>2. /\ IsFiniteSet(((S \ {x}) \ {y}) \ {z})
            /\ Cardinality(((S \ {x}) \ {y}) \ {z}) < 1
        <5>1. Cardinality((S \ {x}) \ {y}) < 1 + 1 BY <3>2
        <5> QED BY <3>2, <4>1, <5>1, OneLess
      <4>3. ((S \ {x}) \ {y}) \ {z} = {}
        BY <4>2, FS_CardinalityType, FS_EmptySet
      <4>4. S \subseteq {x, y, z} BY <4>3
      <4> QED BY <4>4
    <3> QED BY <3>3, <3>4
  <2> QED BY <2>3, <2>4
<1> QED BY <1>1, <1>2

\* A tally under the cap was cast by four families at least.
LEMMA CapTakesFour ==
    ASSUME SenateTypeOK, SlotsAreFamilies, ThreeHoldAll, total # 0, WithinCap
    PROVE  Cardinality(acked) >= 4
<1>1. IsFiniteSet(acked) /\ Cardinality(acked) \in Nat
  BY SenateAssumption, FS_Subset, FS_CardinalityType DEF SenateTypeOK
<1> SUFFICES ASSUME Cardinality(acked) < 4 PROVE FALSE
  BY <1>1
<1>2. PICK x, y, z : acked \subseteq {x, y, z} BY <1>1, AtMostThree
<1>3. PICK a, b, c : DOMAIN acks \subseteq {a, b, c}
  <2>1. CASE Overflow \notin DOMAIN acks
    BY <1>2, <2>1 DEF SlotsAreFamilies
  <2>2. CASE Overflow \in DOMAIN acks
    <3>1. PICK f \in acked : f \notin DOMAIN acks BY <2>2 DEF SlotsAreFamilies
    <3>2. DOMAIN acks \subseteq {x, y, z, Overflow} /\ f \in {x, y, z}
      BY <1>2, <3>1 DEF SlotsAreFamilies
    <3>3. \/ DOMAIN acks \subseteq {y, z, Overflow}
          \/ DOMAIN acks \subseteq {x, z, Overflow}
          \/ DOMAIN acks \subseteq {x, y, Overflow}
      BY <3>1, <3>2
    <3> QED BY <3>3
  <2> QED BY <2>1, <2>2
<1>4. total \in Nat \ {0} /\ total <= WeightAt(a) + WeightAt(b) + WeightAt(c)
  BY <1>3 DEF ThreeHoldAll, SenateTypeOK
<1>5. ASSUME NEW s PROVE WeightAt(s) \in Nat /\ WeightAt(s) * 1000 < 333 * total
  <2>1. CASE s \in DOMAIN acks
    <3>1. WeightAt(s) = acks[s].weight /\ acks[s].weight \in Nat
      BY <2>1 DEF WeightAt, SlotAt, SenateTypeOK
    <3>2. (acks[s].weight * 1000) \div total <= 332
      <4>1. ShareOf(s) <= FamilyCap BY <2>1 DEF WithinCap
      <4>2. ShareOf(s) \in Int BY <1>4, <3>1 DEF ShareOf
      <4>3. ShareOf(s) <= 332 BY <4>1, <4>2, SenateAssumption
      <4> QED BY <4>3 DEF ShareOf
    <3> QED BY <1>4, <3>1, <3>2, ShareBound
  <2>2. CASE s \notin DOMAIN acks
    BY <1>4, <2>2 DEF WeightAt, SlotAt
  <2> QED BY <2>1, <2>2
<1>6. /\ WeightAt(a) \in Nat /\ WeightAt(a) * 1000 < 333 * total
      /\ WeightAt(b) \in Nat /\ WeightAt(b) * 1000 < 333 * total
      /\ WeightAt(c) \in Nat /\ WeightAt(c) * 1000 < 333 * total
  BY <1>5
<1> QED BY <1>4, <1>6

LEMMA SenateInitSInv == ASSUME SenateInit PROVE SInv
<1>1. DOMAIN acks = {} /\ acks \in [{} -> [weight : Nat, votes : Nat]]
      /\ distinct = 0 /\ total = 0 /\ acked = {} /\ decision.answer = "none"
  BY DEF SenateInit
<1>2. acks \in [DOMAIN acks -> [weight : Nat, votes : Nat]] BY <1>1
<1>3. SenateTypeOK BY <1>1, <1>2 DEF SenateTypeOK
<1>4. SlotsAreFamilies BY <1>1 DEF SlotsAreFamilies
<1>5. ThreeHoldAll BY <1>1 DEF ThreeHoldAll, WeightAt, SlotAt
<1>6. MergesTookFour BY <1>1 DEF MergesTookFour
<1> QED BY <1>3, <1>4, <1>5, <1>6 DEF SInv

LEMMA SInvIsABloc == ASSUME SInv PROVE ThreeAreABloc
BY CapTakesFour DEF SInv, ThreeAreABloc, QuorumOk, MergesTookFour

LEMMA DampedIsNat ==
    ASSUME NEW s, NEW weight \in Weights, SenateTypeOK, SlotAt(s).votes < MaxVotes
    PROVE  Dampened(s, weight) \in Nat
<1>1. SlotAt(s).votes \in 0 .. MaxVotes
  BY SenateAssumption DEF SlotAt, SenateTypeOK
<1>2. Step(SlotAt(s).votes) \in Nat
  <2>1. \A k \in 0 .. MaxVotes : Step(k) \in 0 .. 1000 BY SenateAssumption
  <2>2. Step(SlotAt(s).votes) \in 0 .. 1000 BY <1>1, <2>1, SMTT(30)
  <2> QED BY <2>2
<1>3. weight \in Nat BY SenateAssumption
<1>4. weight * Step(SlotAt(s).votes) \in Nat BY <1>2, <1>3
<1> QED BY <1>4 DEF Dampened

LEMMA VoteKeepsSInv ==
    ASSUME NEW family \in Families, NEW weight \in Weights, SInv,
           MayVote(family), CastVote(family, weight)
    PROVE  SInv'
<1> DEFINE s == SlotOf(family)
           w == Dampened(s, weight)
           cell == [weight |-> SlotAt(s).weight + w, votes |-> SlotAt(s).votes + 1]
<1>1. w \in Nat BY DampedIsNat DEF SInv, MayVote
<1>2. SlotAt(s).weight \in Nat /\ SlotAt(s).votes \in Nat
  BY DEF SlotAt, SInv, SenateTypeOK
<1>3. /\ acks' = [x \in DOMAIN acks \cup {s} |-> IF x = s THEN cell ELSE acks[x]]
      /\ distinct' = IF family \in DOMAIN acks THEN distinct ELSE distinct + 1
      /\ total' = total + w
      /\ acked' = acked \cup {family}
      /\ decision' = decision
  BY DEF CastVote
<1>4. s = family \/ (/\ s = Overflow /\ family \notin DOMAIN acks
                    /\ ~(Cardinality(DOMAIN acks \ {Overflow}) < FamilySlots))
  BY DEF SlotOf
<1>5. cell \in [weight : Nat, votes : Nat] BY <1>1, <1>2
<1> HIDE DEF cell, w
<1>6. DOMAIN acks' = DOMAIN acks \cup {s} BY <1>3
<1>7. SenateTypeOK'
  <2>1. acks' \in [DOMAIN acks' -> [weight : Nat, votes : Nat]]
    BY <1>3, <1>5, <1>6 DEF SInv, SenateTypeOK
  <2>2. DOMAIN acks' \subseteq Families \cup {Overflow}
    BY <1>4, <1>6 DEF SInv, SenateTypeOK
  <2>3. distinct' \in Nat /\ total' \in Nat /\ acked' \subseteq Families
    BY <1>1, <1>3 DEF SInv, SenateTypeOK
  <2> QED BY <2>1, <2>2, <2>3 DEF SenateTypeOK
<1>8. SlotsAreFamilies'
  <2> DEFINE table == DOMAIN acks \ {Overflow}
  <2>1. IsFiniteSet(table) /\ Cardinality(table) \in Nat
    <3>1. table \subseteq Families BY DEF SInv, SenateTypeOK
    <3> QED BY <3>1, SenateAssumption, FS_Subset, FS_CardinalityType
  <2>2. DOMAIN acks' \ {Overflow} \subseteq acked'
    BY <1>3, <1>4, <1>6 DEF SInv, SlotsAreFamilies
  <2>3. CASE s = Overflow
    <3>1. family # Overflow BY SenateAssumption
    <3>2. DOMAIN acks' \ {Overflow} = table /\ family \notin DOMAIN acks
          /\ ~(Cardinality(table) < FamilySlots)
      BY <1>4, <1>6, <2>3, <3>1
    <3>3. Cardinality(table) >= FamilySlots BY <2>1, <3>2, SenateAssumption
    <3>4. family \in acked' /\ family \notin DOMAIN acks'
      BY <1>3, <1>6, <2>3, <3>1, <3>2
    <3> QED BY <2>2, <3>2, <3>3, <3>4 DEF SlotsAreFamilies
  <2>4. CASE s # Overflow /\ Overflow \in DOMAIN acks
    <3>1. s = family BY <1>4, <2>4
    <3>2. Cardinality(table) >= FamilySlots
      BY <2>4 DEF SInv, SlotsAreFamilies
    <3>3. family \in DOMAIN acks
      BY <2>1, <2>4, <3>1, <3>2, SenateAssumption DEF SlotOf
    <3>4. DOMAIN acks' = DOMAIN acks BY <1>6, <3>1, <3>3
    <3>5. PICK f \in acked : f \notin DOMAIN acks
      BY <2>4 DEF SInv, SlotsAreFamilies
    <3> QED BY <1>3, <2>2, <3>2, <3>4, <3>5 DEF SlotsAreFamilies
  <2>5. CASE s # Overflow /\ Overflow \notin DOMAIN acks
    BY <1>6, <2>2, <2>5 DEF SlotsAreFamilies
  <2> QED BY <2>3, <2>4, <2>5
<1>9. ThreeHoldAll'
  <2>1. ASSUME NEW x PROVE SlotAt(x)'.weight = IF x = s THEN SlotAt(x).weight + w
                                               ELSE SlotAt(x).weight
    BY <1>3, <1>6 DEF SlotAt, cell
  <2>2. ASSUME NEW x
        PROVE  /\ WeightAt(x) \in Nat
               /\ WeightAt(x)' = IF x = s THEN WeightAt(x) + w ELSE WeightAt(x)
    BY <2>1 DEF WeightAt, SlotAt, SInv, SenateTypeOK
  <2>3. ASSUME NEW a, NEW b, NEW c, DOMAIN acks' \subseteq {a, b, c}
        PROVE  total' <= WeightAt(a)' + WeightAt(b)' + WeightAt(c)'
    <3>1. total <= WeightAt(a) + WeightAt(b) + WeightAt(c)
      BY <1>6, <2>3 DEF SInv, ThreeHoldAll
    <3>2. s = a \/ s = b \/ s = c BY <1>6, <2>3
    <3>3. total \in Nat BY DEF SInv, SenateTypeOK
    <3>4. /\ WeightAt(a) \in Nat
          /\ WeightAt(a)' = IF a = s THEN WeightAt(a) + w ELSE WeightAt(a)
          /\ WeightAt(b) \in Nat
          /\ WeightAt(b)' = IF b = s THEN WeightAt(b) + w ELSE WeightAt(b)
          /\ WeightAt(c) \in Nat
          /\ WeightAt(c)' = IF c = s THEN WeightAt(c) + w ELSE WeightAt(c)
      BY <2>2
    <3> HIDE DEF s
    <3> QED BY <1>1, <1>3, <3>1, <3>2, <3>3, <3>4
  <2> QED BY <2>3 DEF ThreeHoldAll
<1>10. MergesTookFour' BY <1>3 DEF SInv, MergesTookFour
<1> QED BY <1>7, <1>8, <1>9, <1>10 DEF SInv

LEMMA DecisionKeepsSInv ==
    ASSUME NEW f \in FactSets, NEW frozenNow, SInv, Decide(f, frozenNow)
    PROVE  SInv'
<1>1. UNCHANGED <<acks, distinct, total, acked>> BY DEF Decide, tallyVars
<1>2. SenateTypeOK' /\ SlotsAreFamilies' /\ ThreeHoldAll'
  BY <1>1 DEF SInv, SenateTypeOK, SlotsAreFamilies, ThreeHoldAll, WeightAt, SlotAt
<1>3. PICK answer : /\ Answers(f, frozenNow, answer)
                    /\ decision' = [answer |-> answer, families |-> acked]
  BY DEF Decide
<1>4. ASSUME answer = "merge" PROVE Cardinality(acked) >= 4
  <2>1. Clauses(f, frozenNow)[6][2]
    BY <1>3, <1>4 DEF Answers, Clauses
  <2>2. WithinCap BY <2>1 DEF Clauses
  <2>3. total # 0 BY DEF Decide
  <2> QED BY <2>2, <2>3, CapTakesFour DEF SInv
<1>5. MergesTookFour' BY <1>3, <1>4 DEF MergesTookFour
<1> QED BY <1>2, <1>5 DEF SInv

LEMMA SenateStepSInv ==
    ASSUME NEW frozenNow, SInv, SenateNext(frozenNow) \/ UNCHANGED senateVars
    PROVE  SInv'
<1>1. CASE UNCHANGED senateVars
  BY <1>1 DEF senateVars, tallyVars, SInv, SenateTypeOK, SlotsAreFamilies, ThreeHoldAll,
     WeightAt, SlotAt, MergesTookFour
<1> QED BY <1>1, VoteKeepsSInv, DecisionKeepsSInv DEF SenateNext

----------------------------------------------------------------------------
(* The forge.                                                              *)

\* The changes of a parameter: none is remembered as zero, the last one is
\* the greatest, and the live value is in its band.
LastChange ==
    \A k \in Params :
        /\ InBand(k, params[k].value)
        /\ Len(changes[k]) = 0 => params[k].last = 0
        /\ Len(changes[k]) > 0 => params[k].last = changes[k][Len(changes[k])]
        /\ \A i \in DOMAIN changes[k] : changes[k][i] <= params[k].last
        /\ \A i, j \in DOMAIN changes[k] :
               i < j /\ changes[k][i] # 0 => changes[k][j] >= changes[k][i] + Cooldown

UpgradeTypeOK ==
    /\ state \in [Proposals -> [at : Labels, pct : Nat]]
    /\ opened \in [Proposals -> Seq(Nat \ {0})]

RegistryTypeOK ==
    /\ params \in [Params -> [value : Nat, last : Nat]]
    /\ changes \in [Params -> Seq(Nat)]

\* Nothing is opened before the canary ends, and a canary has no percent.
RampStarts ==
    \A p \in Proposals :
        /\ state[p].at = "canary" => state[p].pct = 0
        /\ state[p].at \notin {"ramp", "frozen", "active", "rolledback"} => opened[p] = << >>

UInv == UpgradeTypeOK /\ RampIsClimbed /\ RampStarts
RInv == RegistryTypeOK /\ LastChange

\* The inductive invariant, one conjunct for each part.
FInv == TInv /\ SInv /\ UInv /\ RInv

----------------------------------------------------------------------------
(* The proposals.                                                          *)

\* A step that opens nothing and leaves or keeps the ramp as it stands.
LEMMA MoveKeepsUInv ==
    ASSUME UInv, NEW p \in Proposals, NEW next \in [at : Labels, pct : Nat],
           state' = [state EXCEPT ![p] = next], opened' = opened,
           next.at \in {"ramp", "frozen"} =>
               next.pct = IF opened[p] = << >> THEN 0 ELSE RampStages[Len(opened[p])],
           next.at = "active" => Len(opened[p]) = Len(RampStages),
           next.at = "canary" => next.pct = 0,
           next.at \notin {"ramp", "frozen", "active", "rolledback"} => opened[p] = << >>
    PROVE  UInv'
<1>1. UpgradeTypeOK' BY DEF UInv, UpgradeTypeOK
<1>2. ASSUME NEW q \in Proposals
      PROVE  state'[q] = IF q = p THEN next ELSE state[q]
  BY DEF UInv, UpgradeTypeOK
<1>3. RampIsClimbed' BY <1>2 DEF UInv, RampIsClimbed
<1>4. RampStarts' BY <1>2 DEF UInv, RampStarts
<1> QED BY <1>1, <1>3, <1>4 DEF UInv

\* A step that opens the next stage.
LEMMA OpeningKeepsUInv ==
    ASSUME UInv, NEW p \in Proposals, Len(opened[p]) < Len(RampStages),
           Opens(p, RampStages[Len(opened[p]) + 1])
    PROVE  UInv'
<1> DEFINE n == Len(opened[p])
           pct == RampStages[n + 1]
<1>1. n \in Nat /\ opened[p] \in Seq(Nat \ {0}) BY DEF UInv, UpgradeTypeOK
<1>2. pct \in Nat \ {0} BY <1>1, ForgeAssumption
<1>3. /\ state' = [state EXCEPT ![p] = Ramp(pct)]
      /\ opened' = [opened EXCEPT ![p] = Append(@, pct)]
  BY DEF Opens, Moves
<1>4. Ramp(pct) \in [at : Labels, pct : Nat] BY <1>2 DEF Ramp, Labels
<1> HIDE DEF pct
<1>5. Append(opened[p], pct) \in Seq(Nat \ {0}) /\ Len(Append(opened[p], pct)) = n + 1
      /\ \A i \in 1 .. n + 1 : Append(opened[p], pct)[i] =
                                   IF i = n + 1 THEN pct ELSE opened[p][i]
  BY <1>1, <1>2
<1>6. UpgradeTypeOK' BY <1>3, <1>4, <1>5 DEF UInv, UpgradeTypeOK
<1>7. ASSUME NEW q \in Proposals
      PROVE  /\ state'[q] = IF q = p THEN Ramp(pct) ELSE state[q]
             /\ opened'[q] = IF q = p THEN Append(opened[p], pct) ELSE opened[q]
  BY <1>3 DEF UInv, UpgradeTypeOK
<1>8. RampIsClimbed'
  <2> SUFFICES ASSUME NEW q \in Proposals
               PROVE  /\ Len(opened'[q]) <= Len(RampStages)
                      /\ \A i \in DOMAIN opened'[q] : opened'[q][i] = RampStages[i]
                      /\ state'[q].at \in {"ramp", "frozen"} =>
                             state'[q].pct = IF opened'[q] = << >> THEN 0
                                             ELSE RampStages[Len(opened'[q])]
                      /\ state'[q].at = "active" => Len(opened'[q]) = Len(RampStages)
    BY DEF RampIsClimbed
  <2>1. CASE q # p BY <1>7, <2>1 DEF UInv, RampIsClimbed
  <2>2. CASE q = p
    <3>1. opened'[q] = Append(opened[p], pct) /\ state'[q] = Ramp(pct) BY <1>7, <2>2
    <3>2. Len(opened'[q]) <= Len(RampStages) BY <1>1, <1>5, <3>1, ForgeAssumption
    <3>3. ASSUME NEW i \in DOMAIN opened'[q] PROVE opened'[q][i] = RampStages[i]
      <4>1. i \in 1 .. n + 1 BY <1>1, <1>5, <3>1
      <4>2. CASE i = n + 1 BY <1>5, <3>1, <4>1, <4>2 DEF pct
      <4>3. CASE i # n + 1
        <5>1. i \in DOMAIN opened[p] BY <1>1, <4>1, <4>3
        <5> QED BY <1>5, <3>1, <4>1, <4>3, <5>1 DEF UInv, RampIsClimbed
      <4> QED BY <4>2, <4>3
    <3>4. opened'[q] # << >> /\ state'[q].at = "ramp"
          /\ state'[q].pct = RampStages[Len(opened'[q])]
      BY <1>1, <1>5, <3>1 DEF Ramp, pct
    <3> QED BY <3>2, <3>3, <3>4
  <2> QED BY <2>1, <2>2
<1>9. RampStarts' BY <1>7 DEF UInv, RampStarts, Ramp
<1> QED BY <1>6, <1>8, <1>9 DEF UInv

LEMMA TransitionKeepsUInv ==
    ASSUME UInv, NEW p \in Proposals, Transition(p)
    PROVE  UInv'
<1> USE DEF Moves, At, Ramp, Labels
<1>1. state[p].at \in Labels /\ state[p].pct \in Nat /\ opened[p] \in Seq(Nat \ {0})
  BY DEF UInv, UpgradeTypeOK
<1>2. /\ Len(opened[p]) <= Len(RampStages)
      /\ state[p].at \in {"ramp", "frozen"} =>
             state[p].pct = IF opened[p] = << >> THEN 0 ELSE RampStages[Len(opened[p])]
      /\ state[p].at = "canary" => state[p].pct = 0
      /\ state[p].at \notin {"ramp", "frozen", "active", "rolledback"} => opened[p] = << >>
  BY DEF UInv, RampIsClimbed, RampStarts
<1>3. ASSUME NEW arrow \in Road, Walk(p, arrow[2]) PROVE UInv'
  <2>1. PICK a \in Road : /\ a[1] = state[p].at
                          /\ state' = [state EXCEPT ![p] = At(a[3])] /\ opened' = opened
    BY <1>3 DEF Walk
  <2>2. /\ a[3] \in Labels \ {"ramp", "frozen", "active"}
        /\ a[3] = "rolledback" \/ a[1] \notin {"ramp", "frozen", "active", "rolledback"}
    BY DEF Road
  <2>3. At(a[3]) \in [at : Labels, pct : Nat] /\ At(a[3]).at = a[3] /\ At(a[3]).pct = 0
    BY <2>2
  <2> HIDE DEF Moves, At, Ramp, Labels
  <2> QED BY <1>2, <2>1, <2>2, <2>3, MoveKeepsUInv
<1>4. ASSUME NEW findings \in {0, 1}, RedTeamDone(p, findings) PROVE UInv'
  <2>1. PICK at \in {"rejected", "specdiff"} :
            state' = [state EXCEPT ![p] = At(at)] /\ opened' = opened
    BY <1>4 DEF RedTeamDone
  <2>2. At(at) \in [at : Labels, pct : Nat] /\ At(at).at = at /\ At(at).pct = 0
    OBVIOUS
  <2>3. opened[p] = << >> BY <1>2, <1>4 DEF RedTeamDone
  <2> HIDE DEF Moves, At, Ramp, Labels
  <2> QED BY <2>1, <2>2, <2>3, MoveKeepsUInv
<1>5. CASE CanaryHeld(p)
  <2>1. opened[p] = << >> BY <1>2, <1>5 DEF CanaryHeld
  <2>2. Len(opened[p]) < Len(RampStages) /\ Opens(p, RampStages[Len(opened[p]) + 1])
    BY <1>5, <2>1, ForgeAssumption DEF CanaryHeld
  <2> QED BY <2>2, OpeningKeepsUInv
<1>6. CASE RampStage(p)
  <2>1. PICK i \in DOMAIN RampStages :
            /\ RampStages[i] = state[p].pct
            /\ IF i < Len(RampStages)
               THEN Opens(p, RampStages[i + 1])
               ELSE Moves(p, At("active")) /\ UNCHANGED opened
    BY <1>6 DEF RampStage
  <2>2. state[p].at = "ramp" BY <1>6 DEF RampStage
  <2>3. RampStages[i] \in Nat \ {0} BY ForgeAssumption
  <2>4. opened[p] # << >> /\ state[p].pct = RampStages[Len(opened[p])]
    BY <1>2, <2>1, <2>2, <2>3
  <2>5. Len(opened[p]) \in DOMAIN RampStages
    BY <1>1, <1>2, <2>4, ForgeAssumption
  <2>6. i = Len(opened[p]) BY <2>1, <2>4, <2>5, ForgeAssumption
  <2>7. CASE i < Len(RampStages) BY <2>1, <2>6, <2>7, OpeningKeepsUInv
  <2>8. CASE ~(i < Len(RampStages))
    <3>1. state' = [state EXCEPT ![p] = At("active")] /\ opened' = opened
      BY <2>1, <2>8
    <3>2. At("active") \in [at : Labels, pct : Nat] /\ At("active").at = "active"
      OBVIOUS
    <3>3. Len(opened[p]) = Len(RampStages) BY <1>1, <1>2, <2>6, <2>8, ForgeAssumption
    <3> HIDE DEF Moves, At, Ramp, Labels
    <3> QED BY <3>1, <3>2, <3>3, MoveKeepsUInv
  <2> QED BY <2>7, <2>8
<1>7. CASE ThymusFreeze(p)
  <2> DEFINE next == [at |-> "frozen", pct |-> state[p].pct]
  <2>1. state' = [state EXCEPT ![p] = next] /\ opened' = opened
    BY <1>7 DEF ThymusFreeze
  <2>2. next \in [at : Labels, pct : Nat] /\ next.at = "frozen"
    BY <1>1
  <2>3. next.pct = IF opened[p] = << >> THEN 0 ELSE RampStages[Len(opened[p])]
    BY <1>2, <1>7 DEF ThymusFreeze
  <2> HIDE DEF next
  <2> QED BY <2>1, <2>2, <2>3, MoveKeepsUInv
<1>8. CASE ThymusResolve(p)
  <2> DEFINE next == Ramp(state[p].pct)
  <2>1. state' = [state EXCEPT ![p] = next] /\ opened' = opened
    BY <1>8 DEF ThymusResolve
  <2>2. next \in [at : Labels, pct : Nat] /\ next.at = "ramp"
    BY <1>1
  <2>3. next.pct = IF opened[p] = << >> THEN 0 ELSE RampStages[Len(opened[p])]
    BY <1>2, <1>8 DEF ThymusResolve
  <2> HIDE DEF next
  <2> QED BY <2>1, <2>2, <2>3, MoveKeepsUInv
<1> QED BY <1>3, <1>4, <1>5, <1>6, <1>7, <1>8 DEF Transition

----------------------------------------------------------------------------
(* The registry.                                                           *)

LEMMA ChangeKeepsRInv ==
    ASSUME RInv, NEW k \in Params, NEW value \in Values, NEW h \in Heights,
           Change(k, value, h)
    PROVE  RInv'
<1> DEFINE n == Len(changes[k])
<1>1. /\ changes[k] \in Seq(Nat) /\ n \in Nat
      /\ params[k] \in [value : Nat, last : Nat] /\ h \in Nat /\ Cooldown \in Nat
  BY ThymusAssumption, ForgeAssumption DEF RInv, RegistryTypeOK, Heights
<1>2. /\ params' = [params EXCEPT ![k] = [value |-> value, last |-> h]]
      /\ changes' = [changes EXCEPT ![k] = Append(@, h)]
      /\ InBand(k, value)
      /\ params[k].last = 0 \/ h >= params[k].last + Cooldown
  BY DEF Change, Cooled
<1>3. value \in Nat BY <1>2, ForgeAssumption DEF InBand
<1>4. RegistryTypeOK' BY <1>1, <1>2, <1>3 DEF RInv, RegistryTypeOK
<1>5. ASSUME NEW q \in Params
      PROVE  /\ params'[q] = IF q = k THEN [value |-> value, last |-> h] ELSE params[q]
             /\ changes'[q] = IF q = k THEN Append(changes[k], h) ELSE changes[q]
  BY <1>2 DEF RInv, RegistryTypeOK
<1>6. /\ Len(Append(changes[k], h)) = n + 1
      /\ DOMAIN Append(changes[k], h) = 1 .. n + 1
      /\ \A i \in 1 .. n + 1 : Append(changes[k], h)[i] =
                                   IF i = n + 1 THEN h ELSE changes[k][i]
  BY <1>1
<1>7. LastChange'
  <2> SUFFICES ASSUME NEW q \in Params
               PROVE  /\ InBand(q, params'[q].value)
                      /\ Len(changes'[q]) = 0 => params'[q].last = 0
                      /\ Len(changes'[q]) > 0 => params'[q].last = changes'[q][Len(changes'[q])]
                      /\ \A i \in DOMAIN changes'[q] : changes'[q][i] <= params'[q].last
                      /\ \A i, j \in DOMAIN changes'[q] :
                             i < j /\ changes'[q][i] # 0
                                 => changes'[q][j] >= changes'[q][i] + Cooldown
    BY DEF LastChange, InBand
  <2>1. CASE q # k BY <1>5, <2>1 DEF RInv, LastChange
  <2>2. CASE q = k
    <3> DEFINE c == Append(changes[k], h)
    <3>1. changes'[q] = c /\ params'[q].last = h /\ params'[q].value = value
      <4>1. params'[q] = [value |-> value, last |-> h] BY <1>5, <2>2
      <4>2. changes'[q] = c BY <1>5, <2>2
      <4> QED BY <4>1, <4>2
    <3>2. ASSUME NEW i \in 1 .. n
          PROVE  /\ i \in DOMAIN changes[k] /\ c[i] = changes[k][i] /\ c[i] \in Nat
                 /\ c[i] <= params[k].last
      BY <1>1, <1>6 DEF RInv, LastChange
    <3>3. ASSUME NEW i \in 1 .. n + 1 PROVE c[i] <= h
      <4>1. CASE i = n + 1
        <5>1. c[i] = h BY <1>1, <1>6, <4>1
        <5> QED BY <1>1, <5>1
      <4>2. CASE i \in 1 .. n
        <5>1. c[i] \in Nat /\ c[i] <= params[k].last BY <3>2, <4>2
        <5>2. params[k].last = 0 => c[i] = 0 BY <1>1, <5>1
        <5> HIDE DEF c
        <5> QED BY <1>1, <1>2, <5>1, <5>2
      <4> QED BY <1>1, <4>1, <4>2
    <3>4. ASSUME NEW i \in 1 .. n + 1, NEW j \in 1 .. n + 1, i < j, c[i] # 0
          PROVE  c[j] >= c[i] + Cooldown
      <4>1. i \in 1 .. n BY <1>1, <3>4
      <4>2. CASE j = n + 1
        <5>1. c[j] = h BY <1>1, <1>6, <4>2
        <5>2. params[k].last # 0 /\ params[k].last \in Nat /\ c[i] <= params[k].last
          BY <1>1, <3>2, <3>4, <4>1
        <5>3. h >= params[k].last + Cooldown BY <1>2, <5>2
        <5>4. c[i] \in Nat BY <3>2, <4>1
        <5> HIDE DEF c, n
        <5> QED BY <1>1, <5>1, <5>2, <5>3, <5>4
      <4>3. CASE j \in 1 .. n
        <5>1. /\ i \in DOMAIN changes[k] /\ c[i] = changes[k][i]
              /\ j \in DOMAIN changes[k] /\ c[j] = changes[k][j]
          BY <3>2, <4>1, <4>3
        <5> HIDE DEF c, n
        <5> QED BY <3>4, <5>1 DEF RInv, LastChange
      <4>4. j = n + 1 \/ j \in 1 .. n BY <1>1, SMTT(30)
      <4> QED BY <4>2, <4>3, <4>4
    <3>5. Len(c) = n + 1 /\ DOMAIN c = 1 .. n + 1 /\ c[n + 1] = h BY <1>1, <1>6
    <3>6. InBand(q, value) BY <1>2, <2>2
    <3> HIDE DEF c
    <3> QED BY <1>1, <3>1, <3>3, <3>4, <3>5, <3>6
  <2> QED BY <2>1, <2>2
<1> QED BY <1>4, <1>7 DEF RInv

----------------------------------------------------------------------------
(* The composition.                                                        *)

LEMMA InitFInv == Init => FInv
<1> SUFFICES ASSUME Init PROVE FInv
  OBVIOUS
<1>1. TInv BY ThymusInitTInv DEF Init
<1>2. SInv BY SenateInitSInv DEF Init
<1>3. /\ state = [p \in Proposals |-> At("draft")]
      /\ opened = [p \in Proposals |-> << >>]
      /\ params = [k \in Params |-> [value |-> Bands[k].value, last |-> 0]]
      /\ changes = [k \in Params |-> << >>]
  BY DEF Init
<1>4. UInv
  <2>1. UpgradeTypeOK BY <1>3 DEF UpgradeTypeOK, At, Labels
  <2>2. RampIsClimbed BY <1>3, ForgeAssumption DEF RampIsClimbed, At
  <2>3. RampStarts BY <1>3 DEF RampStarts, At
  <2> QED BY <2>1, <2>2, <2>3 DEF UInv
<1>5. RInv
  <2>1. RegistryTypeOK
    <3>1. \A k \in Params : Bands[k].value \in Nat BY ForgeAssumption
    <3>2. << >> \in Seq(Nat) OBVIOUS
    <3> QED BY <1>3, <3>1, <3>2 DEF RegistryTypeOK
  <2>2. LastChange BY <1>3, ForgeAssumption DEF LastChange, InBand
  <2> QED BY <2>1, <2>2 DEF RInv
<1> QED BY <1>1, <1>2, <1>4, <1>5 DEF FInv

LEMMA StepFInv == FInv /\ [Next]_vars => FInv'
<1> SUFFICES ASSUME FInv, [Next]_vars PROVE FInv'
  OBVIOUS
<1>2. ASSUME UNCHANGED upgradeVars PROVE UInv'
  BY <1>2 DEF upgradeVars, FInv, UInv, UpgradeTypeOK, RampIsClimbed, RampStarts
<1>3. ASSUME UNCHANGED registryVars PROVE RInv'
  BY <1>3 DEF registryVars, FInv, RInv, RegistryTypeOK, LastChange, InBand
<1>4. ASSUME UNCHANGED senateVars PROVE SInv'
  BY <1>4, SenateStepSInv DEF FInv
<1>5. ASSUME UNCHANGED thymusVars PROVE TInv'
  BY <1>5, ThymusStepTInv DEF FInv
<1>6. CASE UNCHANGED vars
  BY <1>2, <1>3, <1>4, <1>5, <1>6 DEF vars, FInv
<1>7. CASE Immunity
  BY <1>2, <1>3, <1>4, <1>7, ThymusStepTInv DEF Immunity, FInv
<1>8. CASE Upgrades
  BY <1>3, <1>4, <1>5, <1>8, TransitionKeepsUInv DEF Upgrades, FInv
<1>9. CASE Changes
  BY <1>2, <1>4, <1>5, <1>9, ChangeKeepsRInv DEF Changes, FInv
<1>10. CASE Ballots
  BY <1>2, <1>3, <1>5, <1>10, SenateStepSInv DEF Ballots, FInv
<1> QED BY <1>6, <1>7, <1>8, <1>9, <1>10 DEF Next

\* FInv holds in every reachable state.
THEOREM ForgeInvariant == Spec => []FInv
BY InitFInv, StepFInv, PTL DEF Spec

\* Every variable has its type.
THEOREM TypeCorrect == Spec => []TypeOK
<1>1. FInv => TypeOK
  BY DEF FInv, TInv, SInv, UInv, RInv, UpgradeTypeOK, RegistryTypeOK, TypeOK
<1> QED BY <1>1, ForgeInvariant, PTL

\* A freeze of the upgrades stands on a proof or on a quorum of distinct
\* reporters that agree (thymus.rs observe).
THEOREM FrozenOnEvidence == Spec => []FreezeHasEvidence
<1>1. FInv => FreezeHasEvidence BY DEF FInv, TInv
<1> QED BY <1>1, ForgeInvariant, PTL

\* A quorum of reporters that agree, with nobody else heard, freezes.
THEOREM AgreementIsHeard == Spec => AgreementFreezes
<1> DEFINE Heard ==
      \A a \in filed' \ filed :
           (/\ a.crit /\ a.upgrade /\ ~frozen
            /\ \A b \in filed' : /\ b.invariant = a.invariant
                                 /\ Since(b.height, a.height) <= Window
            /\ Cardinality({b.reporter : b \in filed'}) >= Quorum)
           => frozen'
<1>1. FInv /\ [Next]_vars => [Heard]_thymusVars
  <2> SUFFICES ASSUME FInv, [Next]_vars PROVE Heard \/ UNCHANGED thymusVars
    OBVIOUS
  <2>1. [ThymusNext]_thymusVars
    BY DEF Next, Immunity, Upgrades, Changes, Ballots, vars
  <2>2. TInv BY DEF FInv
  <2> QED BY <2>1, <2>2, AgreedAlertFreezes
<1> HIDE DEF Heard
<1>2. Spec => [][Heard]_thymusVars BY <1>1, ForgeInvariant, PTL DEF Spec
<1> QED BY <1>2 DEF AgreementFreezes, Heard

\* What is contained was detected first.
THEOREM DetectionComesFirst == Spec => ContainmentAfterDetection
<1> DEFINE First == ~frozen /\ frozen' /\ faultHeight # NoFault => mttd' <= mttc'
<1>1. FInv /\ [Next]_vars => [First]_thymusVars
  <2> SUFFICES ASSUME FInv, [Next]_vars PROVE First \/ UNCHANGED thymusVars
    OBVIOUS
  <2>1. [ThymusNext]_thymusVars
    BY DEF Next, Immunity, Upgrades, Changes, Ballots, vars
  <2>2. TInv BY DEF FInv
  <2> QED BY <2>1, <2>2, ContainedAfterDetected
<1> HIDE DEF First
<1>2. Spec => [][First]_thymusVars BY <1>1, ForgeInvariant, PTL DEF Spec
<1> QED BY <1>2 DEF ContainmentAfterDetection, First

\* A change reaches every node stage by stage (proposal.rs transition).
THEOREM RampClimbed == Spec => []RampIsClimbed
<1>1. FInv => RampIsClimbed BY DEF FInv, UInv
<1> QED BY <1>1, ForgeInvariant, PTL

\* Changes of a parameter above height zero are a cooldown apart
\* (registry.rs change).
THEOREM ChangesSpaced == Spec => []ChangesAreSpaced
<1>1. FInv => ChangesAreSpaced
  BY DEF FInv, RInv, LastChange, ChangesAreSpaced
<1> QED BY <1>1, ForgeInvariant, PTL

\* Three families are never a quorum and never enough for a merge
\* (vote.rs quorum_ok, merge.rs merge_ok).
THEOREM FourFamilies == Spec => []ThreeAreABloc
<1>1. FInv => ThreeAreABloc BY SInvIsABloc DEF FInv
<1> QED BY <1>1, ForgeInvariant, PTL

----------------------------------------------------------------------------
(* The Ring.                                                               *)

\* The rosters are rosters.
RostersHold ==
    /\ rosters \in Seq(Seq(Identities))
    /\ \A e \in DOMAIN rosters : IsRoster(rosters[e])

SignaturesHold ==
    signatures \subseteq [message : Messages, seat : 1 .. Seats + 1, key : Identities]

\* A node that follows the protocol has signed one message of a sequence.
OneVoice ==
    \A s, t \in signatures :
        /\ s.key = t.key /\ s.key \in Honest
        /\ s.message.era = t.message.era /\ s.message.sequence = t.message.sequence
        => s.message = t.message

IInv == RostersHold /\ SignaturesHold /\ OneVoice /\ HonestAreNeverStripped

----------------------------------------------------------------------------
(* The invariant.                                                          *)

LEMMA InitIsSound == RingInit => IInv
<1> SUFFICES ASSUME RingInit PROVE IInv
    OBVIOUS
<1>1. /\ <<>> \in Seq(Identities)
      /\ Len(<<>>) = 0 /\ DOMAIN <<>> = {}
      BY EmptySeq, SeqDef
<1>2. IsRoster(<<>>)
      BY <1>1, RingAssumption DEF IsRoster, IsInjective
<1>3. RostersHold
  <2>1. rosters = << <<>> >>  BY DEF RingInit
  <2>2. rosters \in Seq(Seq(Identities))  BY <1>1, <2>1
  <2>3. \A e \in DOMAIN rosters : rosters[e] = <<>>  BY <2>1
  <2>q. QED  BY <1>2, <2>2, <2>3 DEF RostersHold
<1>q. QED
      BY <1>3 DEF RingInit, IInv, SignaturesHold, OneVoice, HonestAreNeverStripped

\* The turn of an era adds a roster.
LEMMA NextEraIsSound ==
    ASSUME IInv, NEW season \in Seasons, NEW words \in Words, NextEra(season, words)
    PROVE  IInv'
<1>1. PICK roster : IsRoster(roster) /\ rosters' = Append(rosters, roster)
      BY DEF NextEra
<1>2. RostersHold'
  <2>1. rosters \in Seq(Seq(Identities)) /\ roster \in Seq(Identities)
        BY <1>1 DEF IInv, RostersHold, IsRoster
  <2>2. /\ rosters' \in Seq(Seq(Identities))
        /\ DOMAIN rosters' = 1 .. Len(rosters) + 1
        /\ \A e \in 1 .. Len(rosters) : rosters'[e] = rosters[e]
        /\ rosters'[Len(rosters) + 1] = roster
        BY <1>1, <2>1
  <2>3. \A e \in DOMAIN rosters' : IsRoster(rosters'[e])
        BY <1>1, <2>1, <2>2 DEF IInv, RostersHold
  <2>q. QED  BY <2>2, <2>3 DEF RostersHold
<1>q. QED
      BY <1>2 DEF IInv, SignaturesHold, OneVoice, HonestAreNeverStripped, NextEra

\* Who signs honestly looks at what it signed before.
LEMMA HonestSignsIsSound ==
    ASSUME IInv, NEW x \in Honest, NEW m \in Messages, NEW seat \in 1 .. Seats,
           HonestSigns(x, m, seat)
    PROVE  IInv'
<1> DEFINE new == [message |-> m, seat |-> seat, key |-> x]
<1>1. /\ signatures' = signatures \cup {new}
      /\ rosters' = rosters /\ sanctions' = sanctions
      BY DEF HonestSigns, Sign
<1>2. SignaturesHold'
      BY <1>1, RingAssumption DEF IInv, SignaturesHold
<1>3. \A s \in signatures :
        s.key = x /\ s.message.era = m.era /\ s.message.sequence = m.sequence => s.message = m
      BY DEF HonestSigns
<1>4. OneVoice'
      BY <1>1, <1>3 DEF IInv, OneVoice
<1>q. QED
      BY <1>1, <1>2, <1>4 DEF IInv, RostersHold, HonestAreNeverStripped

\* Whatever the others sign, they sign with their own keys.
LEMMA OtherSignsIsSound ==
    ASSUME IInv, NEW x \in Identities \ Honest, NEW m \in Messages, NEW seat \in 1 .. Seats + 1,
           OtherSigns(x, m, seat)
    PROVE  IInv'
<1> DEFINE new == [message |-> m, seat |-> seat, key |-> x]
<1>1. /\ signatures' = signatures \cup {new}
      /\ rosters' = rosters /\ sanctions' = sanctions
      BY DEF OtherSigns, Sign
<1>2. SignaturesHold'
      BY <1>1 DEF IInv, SignaturesHold
<1>3. OneVoice'
      BY <1>1 DEF IInv, OneVoice
<1>q. QED
      BY <1>1, <1>2, <1>3 DEF IInv, RostersHold, HonestAreNeverStripped

\* Evidence needs two messages of one sequence under one key.
LEMMA StripSeatIsSound ==
    ASSUME IInv, NEW e \in 1 .. era, NEW seat \in 1 .. Seats,
           NEW m \in Messages, NEW n \in Messages, StripSeat(e, seat, m, n)
    PROVE  IInv'
<1>1. rosters[e][seat] \notin Honest
      BY DEF StripSeat, Convicts, HasSigned, IInv, OneVoice
<1>2. HonestAreNeverStripped'
      BY <1>1 DEF StripSeat, Sanctioned, IInv, HonestAreNeverStripped
<1>q. QED
      BY <1>2 DEF StripSeat, IInv, RostersHold, SignaturesHold, OneVoice

LEMMA IncidentIsSound ==
    ASSUME IInv, NEW x \in Identities, Incident(x)
    PROVE  IInv'
<1>1. HonestAreNeverStripped'
      BY DEF Incident, Fraud, LiableWitness, LiableSponsor, Sanctioned, IInv,
             HonestAreNeverStripped
<1>q. QED
      BY <1>1 DEF Incident, IInv, RostersHold, SignaturesHold, OneVoice

LEMMA NextIsSound == IInv /\ [RingNext]_RingVars => IInv'
<1> SUFFICES ASSUME IInv, [RingNext]_RingVars PROVE IInv'
    OBVIOUS
<1>1. CASE \E season \in Seasons, words \in Words : NextEra(season, words)
      BY <1>1, NextEraIsSound
<1>2. CASE \E x \in Honest, m \in Messages, seat \in 1 .. Seats : HonestSigns(x, m, seat)
      BY <1>2, HonestSignsIsSound
<1>3. CASE \E x \in Identities \ Honest, m \in Messages, seat \in 1 .. Seats + 1 :
             OtherSigns(x, m, seat)
      BY <1>3, OtherSignsIsSound
<1>4. CASE \E e \in 1 .. era, seat \in 1 .. Seats, m, n \in Messages : StripSeat(e, seat, m, n)
      BY <1>4, StripSeatIsSound
<1>5. CASE \E x \in Identities : Incident(x)
      BY <1>5, IncidentIsSound
<1>6. CASE UNCHANGED RingVars
      BY <1>6 DEF RingVars, IInv, RostersHold, SignaturesHold, OneVoice, HonestAreNeverStripped
<1>q. QED  BY <1>1, <1>2, <1>3, <1>4, <1>5, <1>6 DEF RingNext

LEMMA Sound == RingSpec => []IInv
BY InitIsSound, NextIsSound, PTL DEF RingSpec

----------------------------------------------------------------------------
(* Quorums.                                                                *)

\* Two quorums share more seats than a fork can spare.
LEMMA QuorumsMeet ==
    ASSUME NEW A \in SUBSET (1 .. Seats), NEW B \in SUBSET (1 .. Seats),
           Cardinality(A) >= RingQuorum, Cardinality(B) >= RingQuorum
    PROVE  /\ IsFiniteSet(A \cap B)
           /\ Cardinality(A \cap B) >= 2 * RingQuorum - Seats
<1>1. Seats \in Nat /\ RingQuorum \in Nat  BY RingAssumption
<1>2. IsFiniteSet(1 .. Seats) /\ Cardinality(1 .. Seats) = Seats
      BY <1>1, FirstNumbers
<1>3. /\ IsFiniteSet(A) /\ IsFiniteSet(B) /\ IsFiniteSet(A \cup B) /\ IsFiniteSet(A \cap B)
      /\ Cardinality(A \cup B) <= Seats
  <2>1. A \cup B \in SUBSET (1 .. Seats) /\ A \cap B \in SUBSET (1 .. Seats)  OBVIOUS
  <2>q. QED  BY <1>2, <2>1, FS_Subset
<1>4. Cardinality(A \cup B) = Cardinality(A) + Cardinality(B) - Cardinality(A \cap B)
      BY <1>3, FS_Union
<1>5. /\ Cardinality(A) \in Nat /\ Cardinality(B) \in Nat
      /\ Cardinality(A \cup B) \in Nat /\ Cardinality(A \cap B) \in Nat
      BY <1>3, FS_CardinalityType
<1>q. QED  BY <1>1, <1>3, <1>4, <1>5

\* A message is final when a quorum of the seats of its era signed it.
LEMMA FinalNeedsAQuorum ==
    ASSUME IInv, NEW m \in Messages, Finalized(m)
    PROVE  \E A \in SUBSET (1 .. Seats) :
             /\ Cardinality(A) >= RingQuorum
             /\ \A seat \in A : /\ seat \in DOMAIN rosters[m.era]
                                /\ HasSigned(rosters[m.era][seat], m)
<1>1. PICK e \in DOMAIN rosters, copy \in Checkpoints(m) : Verifies(m, copy, e) /\ IsFinal(copy)
      BY DEF Finalized
<1> DEFINE Mine == {s \in signatures : s.message = m}
<1>2. Decodes(copy) /\ copy \in SeqOf(Mine, Seats)
      BY DEF Checkpoints
<1>3. PICK k \in 0 .. Seats : copy \in [1 .. k -> Mine]
      BY <1>2 DEF SeqOf
<1>4. k \in Nat /\ copy \in Seq(Mine) /\ Len(copy) = k /\ DOMAIN copy = 1 .. k
      BY <1>3, RingAssumption, SeqDef
<1>5. k >= RingQuorum  BY <1>1, <1>4 DEF IsFinal
<1> DEFINE f == [i \in 1 .. k |-> copy[i].seat]
           A == {f[i] : i \in 1 .. k}
<1>6. \A i \in 1 .. k : copy[i] \in Mine /\ copy[i].seat \in Int
      BY <1>3, RingAssumption DEF IInv, SignaturesHold
<1>7. f \in Injection(1 .. k, A)
  <2>1. \A i, j \in 1 .. k : i < j => copy[i].seat < copy[j].seat
        BY <1>2, <1>4 DEF Decodes
  <2>2. \A i, j \in 1 .. k : f[i] = f[j] => i = j
        BY <1>6, <2>1
  <2>3. f \in [1 .. k -> A]  OBVIOUS
  <2>q. QED  BY <2>2, <2>3 DEF Injection, IsInjective
<1>8. \A i \in 1 .. k : /\ f[i] \in DOMAIN rosters[m.era]
                        /\ rosters[m.era][f[i]] = copy[i].key
      BY <1>1, <1>4 DEF Verifies, HoldsSeat
<1>9. A \in SUBSET (1 .. Seats)
  <2>1. IsRoster(rosters[m.era])
        BY <1>1 DEF IInv, RostersHold, Verifies
  <2>2. DOMAIN rosters[m.era] = 1 .. Len(rosters[m.era]) /\ Len(rosters[m.era]) \in Nat
        BY <2>1 DEF IsRoster
  <2>3. DOMAIN rosters[m.era] \subseteq 1 .. Seats
        BY <2>1, <2>2, RingAssumption DEF IsRoster
  <2>q. QED  BY <1>8, <2>3
<1>10. Cardinality(A) >= RingQuorum
  <2>1. IsFiniteSet(1 .. Seats)
        BY RingAssumption, FirstNumbers
  <2>2. IsFiniteSet(A)  BY <1>9, <2>1, FS_Subset
  <2>3. Cardinality(1 .. k) <= Cardinality(A)
        BY <1>7, <2>2, FS_Injection
  <2>4. Cardinality(1 .. k) = k  BY <1>4, FirstNumbers
  <2>5. Cardinality(A) \in Nat  BY <2>2, FS_CardinalityType
  <2>6. k \in Nat /\ RingQuorum \in Nat  BY <1>4, RingAssumption
  <2> HIDE DEF A, f
  <2>q. QED  BY <1>5, <2>3, <2>4, <2>5, <2>6
<1>11. \A i \in 1 .. k : HasSigned(rosters[m.era][f[i]], m)
       BY <1>6, <1>8 DEF HasSigned
<1>q. QED  BY <1>8, <1>9, <1>10, <1>11

\* The seats in which the two quorums of a fork meet are convicted.
LEMMA ForksConvict == IInv => ForkConvicts
<1> SUFFICES ASSUME IInv, NEW m \in Messages, NEW n \in Messages,
                    m # n, m.era = n.era, m.sequence = n.sequence,
                    Finalized(m), Finalized(n)
             PROVE  Cardinality({seat \in 1 .. Seats : Convicts(m.era, seat, m, n)})
                      >= 2 * RingQuorum - Seats
    BY DEF ForkConvicts
<1> DEFINE C == {seat \in 1 .. Seats : Convicts(m.era, seat, m, n)}
<1>1. PICK A \in SUBSET (1 .. Seats) :
        /\ Cardinality(A) >= RingQuorum
        /\ \A seat \in A : /\ seat \in DOMAIN rosters[m.era]
                           /\ HasSigned(rosters[m.era][seat], m)
      BY FinalNeedsAQuorum
<1>2. PICK B \in SUBSET (1 .. Seats) :
        /\ Cardinality(B) >= RingQuorum
        /\ \A seat \in B : /\ seat \in DOMAIN rosters[n.era]
                           /\ HasSigned(rosters[n.era][seat], n)
      BY FinalNeedsAQuorum
<1>3. A \cap B \in SUBSET C
      BY <1>1, <1>2 DEF Convicts
<1>4. IsFiniteSet(C)
  <2>1. IsFiniteSet(1 .. Seats)  BY RingAssumption, FirstNumbers
  <2>q. QED  BY <2>1, FS_Subset
<1>5. IsFiniteSet(A \cap B) /\ Cardinality(A \cap B) >= 2 * RingQuorum - Seats
      BY <1>1, <1>2, QuorumsMeet
<1>6. Cardinality(A \cap B) <= Cardinality(C)
      BY <1>3, <1>4, FS_Subset
<1>7. Cardinality(A \cap B) \in Nat /\ Cardinality(C) \in Nat
      BY <1>4, <1>5, FS_CardinalityType
<1>q. QED  BY <1>5, <1>6, <1>7, RingAssumption

----------------------------------------------------------------------------
(* Theorems.                                                               *)

\* Checkpoint::finalized and Equivocation::verify: two final messages of one
\* era and sequence convict at least 2 RingQuorum - Seats seats, whatever was
\* signed, by whom and when.
THEOREM AForkConvictsAThird == RingSpec => []ForkConvicts
BY Sound, ForksConvict, PTL

\* Equivocation::verify: evidence exists only against who signed two messages
\* of one sequence.
THEOREM HonestSeatsAreSafe == RingSpec => []HonestAreNeverStripped
<1>1. IInv => HonestAreNeverStripped  BY DEF IInv
<1>q. QED  BY Sound, <1>1, PTL

----------------------------------------------------------------------------
(* The draw.                                                               *)

\* What the candidates in front of x weigh.
Before(pool, weight, x) == WeightOf({y \in pool : y < x}, weight)

LEMMA Weighs ==
    ASSUME NEW pool, IsFiniteSet(pool), NEW weight, \A x \in pool : weight[x] \in Nat
    PROVE  /\ WeightOf(pool, weight) \in Nat
           /\ pool = {} => WeightOf(pool, weight) = 0
           /\ \A x \in pool : WeightOf(pool, weight) = weight[x] + WeightOf(pool \ {x}, weight)
<1>1. ASSUME NEW S \in SUBSET pool
      PROVE  WeightOf(S, weight) = SumFunctionOnSet(weight, S) /\ IsFiniteSet(S)
    <2> DEFINE f == [x \in S |-> weight[x]]
    <2>1. WeightOf(S, weight) = SumFunctionOnSet(f, DOMAIN f)
        BY Zenon DEF WeightOf, SumFunction
    <2>2. DOMAIN f = S /\ \A x \in S : f[x] \in Int /\ f[x] = weight[x]
        OBVIOUS
    <2>3. IsFiniteSet(S)
        BY FS_Subset
    <2> HIDE DEF f
    <2> QED BY <2>1, <2>2, <2>3, SumEqual
<1>2. /\ SumFunctionOnSet(weight, pool) \in Nat
      /\ pool = {} => SumFunctionOnSet(weight, pool) = 0
    <2>1. Nat \in {Nat, Int}
        OBVIOUS
    <2> QED BY <2>1, SumType
<1>3. ASSUME NEW x \in pool
      PROVE  SumFunctionOnSet(weight, pool) = weight[x] + SumFunctionOnSet(weight, pool \ {x})
    <2>1. \A y \in pool : weight[y] \in Int
        OBVIOUS
    <2> QED BY <2>1, SumRemove
<1>4. \A x \in pool : pool \ {x} \in SUBSET pool
    OBVIOUS
<1>5. pool \in SUBSET pool
    OBVIOUS
<1> QED BY <1>1, <1>2, <1>3, <1>4, <1>5

\* The greatest member of a finite set of naturals.
LEMMA Greatest ==
    ASSUME NEW T \in SUBSET Nat, IsFiniteSet(T), T # {}
    PROVE  \E m \in T : \A y \in T : y <= m
<1> DEFINE R == {pair \in T \X T : pair[1] > pair[2]}
<1>1. \A x \in T : <<x, x>> \notin R
    OBVIOUS
<1>2. \A x, y, z \in T : <<x, y>> \in R /\ <<y, z>> \in R => <<x, z>> \in R
    OBVIOUS
<1>3. \E m \in T : \A y \in T : <<y, m>> \notin R
    <2> HIDE DEF R
    <2> QED BY <1>1, <1>2, FirstOne
<1>4. PICK m \in T : \A y \in T : <<y, m>> \notin R
    BY <1>3
<1>5. ASSUME NEW y \in T PROVE y <= m
    <2>1. ~(y > m)
        BY <1>4
    <2> QED BY <2>1
<1> QED BY <1>5

\* The weights of the candidates lie one after the other.
LEMMA InARow ==
    ASSUME NEW pool \in SUBSET Nat, IsFiniteSet(pool), NEW weight,
           \A x \in pool : weight[x] \in Nat
    PROVE  /\ \A x \in pool : Before(pool, weight, x) \in Nat
           /\ \A x \in pool : Before(pool, weight, x) + weight[x] <= WeightOf(pool, weight)
           /\ \A x, y \in pool :
                x < y => Before(pool, weight, x) + weight[x] <= Before(pool, weight, y)
           /\ \A m \in pool : (\A y \in pool : y <= m) =>
                Before(pool, weight, m) + weight[m] = WeightOf(pool, weight)
<1>1. ASSUME NEW S \in SUBSET pool PROVE IsFiniteSet(S) /\ \A x \in S : weight[x] \in Nat
    BY FS_Subset
<1>2. ASSUME NEW S \in SUBSET pool
      PROVE  WeightOf(S, weight) \in Nat
    BY <1>1, Weighs
<1> DEFINE W(S) == WeightOf(S, weight)
\* A larger set weighs no less.
<1>3. ASSUME NEW S \in SUBSET pool, NEW x \in S PROVE W(S) = weight[x] + W(S \ {x})
    BY <1>1, Weighs
<1>4. ASSUME NEW T \in SUBSET pool, NEW S \in SUBSET T PROVE W(S) <= W(T)
    <2> DEFINE P == {D \in SUBSET (T \ S) : W(S) <= W(S \cup D)}
    <2>0. \A D \in SUBSET (T \ S) : S \cup D \in SUBSET pool
        OBVIOUS
    <2>1. {} \in P
        <3>1. S \cup {} = S /\ W(S) \in Nat
            BY <1>2
        <3> HIDE DEF W
        <3> QED BY <3>1
    <2>2. ASSUME NEW D \in SUBSET (T \ S), NEW x \in T \ S, D \in P PROVE D \cup {x} \in P
        <3>1. CASE x \in D
            <4>1. D \cup {x} = D
                BY <3>1
            <4> QED BY <2>2, <4>1
        <3>2. CASE x \notin D
            <4> DEFINE E == S \cup (D \cup {x})
            <4>1. E \in SUBSET pool /\ x \in E /\ E \ {x} = S \cup D
                BY <3>2
            <4>2. W(E) = weight[x] + W(S \cup D)
                BY <1>3, <4>1
            <4>3. W(S) \in Nat /\ W(S \cup D) \in Nat /\ weight[x] \in Nat
                BY <1>2, <2>0
            <4>4. W(S) <= W(S \cup D)
                BY <2>2
            <4>5. W(S) <= W(E)
                <5> HIDE DEF W, E
                <5> QED BY <4>2, <4>3, <4>4
            <4> QED BY <4>5
        <3> QED BY <3>1, <3>2
    <2>3. T \ S \in P
        <3>1. IsFiniteSet(T \ S)
            BY <1>1
        <3> HIDE DEF P
        <3> QED BY <2>1, <2>2, <3>1, OverFinite
    <2>4. S \cup (T \ S) = T
        OBVIOUS
    <2> QED BY <2>3, <2>4
<1>5. ASSUME NEW x \in pool
      PROVE  LET S == {y \in pool : y <= x}
             IN  W(S) = Before(pool, weight, x) + weight[x] /\ W(S) \in Nat
                 /\ Before(pool, weight, x) \in Nat
    <2> DEFINE S == {y \in pool : y <= x}
               R == {y \in pool : y < x}
    <2>1. S \in SUBSET pool /\ x \in S /\ S \ {x} = R /\ R \in SUBSET pool
        <3>1. \A y \in pool : y <= x /\ y # x <=> y < x
            OBVIOUS
        <3>2. x \in S
            OBVIOUS
        <3> QED BY <3>1, <3>2
    <2>2. W(S) = weight[x] + W(R)
        BY <1>3, <2>1
    <2>3. W(S) \in Nat /\ W(R) \in Nat
        BY <1>2, <2>1
    <2>4. Before(pool, weight, x) = W(R)
        BY DEF Before
    <2> HIDE DEF S, R, W
    <2> QED BY <2>2, <2>3, <2>4 DEF S
<1>6. ASSUME NEW x \in pool PROVE Before(pool, weight, x) + weight[x] <= W(pool)
    <2> DEFINE S == {y \in pool : y <= x}
    <2>1. W(S) <= W(pool)
        <3>1. S \in SUBSET pool /\ pool \in SUBSET pool
            OBVIOUS
        <3> HIDE DEF S
        <3> QED BY <1>4, <3>1
    <2>2. W(S) = Before(pool, weight, x) + weight[x]
        BY <1>5
    <2> QED BY <2>1, <2>2
<1>7. ASSUME NEW x \in pool, NEW y \in pool, x < y
      PROVE  Before(pool, weight, x) + weight[x] <= Before(pool, weight, y)
    <2> DEFINE S == {z \in pool : z <= x}
               R == {z \in pool : z < y}
    <2>1. W(S) <= W(R)
        <3>1. R \in SUBSET pool /\ S \in SUBSET R
            <4>1. \A z \in pool : z <= x => z < y
                BY <1>7
            <4> QED BY <4>1
        <3> HIDE DEF S, R
        <3> QED BY <1>4, <3>1
    <2>2. W(S) = Before(pool, weight, x) + weight[x]
        BY <1>5
    <2>3. W(R) = Before(pool, weight, y)
        BY DEF Before
    <2> QED BY <2>1, <2>2, <2>3
<1>8. ASSUME NEW m \in pool, \A y \in pool : y <= m
      PROVE  Before(pool, weight, m) + weight[m] = W(pool)
    <2>1. {y \in pool : y <= m} = pool
        BY <1>8
    <2> QED BY <1>5, <2>1
<1> QED BY <1>5, <1>6, <1>7, <1>8

\* Every number below the weight of the pool lies in the weight of one
\* candidate.
LEMMA OneCovers ==
    ASSUME NEW pool \in SUBSET Nat, IsFiniteSet(pool), NEW weight,
           \A x \in pool : weight[x] \in Nat, NEW r \in 0 .. WeightOf(pool, weight) - 1
    PROVE  \E x \in pool : Before(pool, weight, x) <= r /\ r < Before(pool, weight, x) + weight[x]
<1> DEFINE W == WeightOf(pool, weight)
           b(x) == Before(pool, weight, x)
           D == {x \in pool : r < b(x) + weight[x]}
<1>1. W \in Nat /\ r \in Nat /\ r < W /\ (pool = {} => W = 0)
    <2>1. W \in Nat /\ (pool = {} => W = 0)
        BY Weighs
    <2> HIDE DEF W
    <2>2. r \in 0 .. W - 1
        BY DEF W
    <2> QED BY <2>1, <2>2
<1>2. /\ \A x \in pool : b(x) \in Nat
      /\ \A x, y \in pool : x < y => b(x) + weight[x] <= b(y)
      /\ \A m \in pool : (\A y \in pool : y <= m) => b(m) + weight[m] = W
    BY InARow
<1>3. D # {} /\ D \in SUBSET Nat
    <2>1. PICK m \in pool : \A y \in pool : y <= m
        BY <1>1, Greatest
    <2>2. b(m) + weight[m] = W
        BY <1>2, <2>1
    <2>3. m \in D
        <3> HIDE DEF W, b
        <3> QED BY <1>1, <2>2
    <2> QED BY <2>3
<1>4. PICK x \in D : \A y \in D : x <= y
    <2> HIDE DEF D
    <2> QED BY <1>3, LeastNat
<1>5. b(x) <= r
    <2> DEFINE R == {y \in pool : y < x}
    <2>1. CASE R = {}
        <3>1. IsFiniteSet(R)
            BY FS_Subset
        <3>2. b(x) = WeightOf(R, weight)
            BY DEF Before
        <3>3. WeightOf(R, weight) = 0
            <4>1. \A y \in R : weight[y] \in Nat
                OBVIOUS
            <4> HIDE DEF R
            <4> QED BY <2>1, <3>1, <4>1, Weighs
        <3> HIDE DEF b
        <3> QED BY <1>1, <3>2, <3>3
    <2>2. CASE R # {}
        <3>1. PICK p \in R : \A y \in R : y <= p
            <4>1. R \in SUBSET Nat /\ IsFiniteSet(R)
                BY FS_Subset
            <4> HIDE DEF R
            <4> QED BY <2>2, <4>1, Greatest
        <3>2. p \in pool /\ p \notin D
            BY <1>4, <3>1
        <3>3. b(p) + weight[p] <= r
            <4> HIDE DEF b
            <4> QED BY <1>1, <1>2, <3>2 DEF D
        <3>4. b(x) = b(p) + weight[p]
            <4>1. {y \in R : y < p} = {y \in pool : y < p}
                <5>1. p < x /\ \A y \in pool : y < p => y < x
                    BY <3>1
                <5> QED BY <5>1
            <4>2. Before(R, weight, p) = b(p) /\ WeightOf(R, weight) = b(x)
                BY <4>1 DEF Before
            <4>3. R \in SUBSET Nat /\ IsFiniteSet(R) /\ \A y \in R : weight[y] \in Nat
                BY FS_Subset
            <4>4. Before(R, weight, p) + weight[p] = WeightOf(R, weight)
                <5> HIDE DEF R
                <5> QED BY <3>1, <4>3, InARow
            <4> QED BY <4>2, <4>4
        <3> QED BY <3>3, <3>4
    <2> QED BY <2>1, <2>2
<1> QED BY <1>4, <1>5

\* A number picks the candidate whose weight it lies in.
LEMMA PickIs ==
    ASSUME NEW pool \in SUBSET Nat, IsFiniteSet(pool), NEW weight,
           \A x \in pool : weight[x] \in Nat, NEW r \in 0 .. WeightOf(pool, weight) - 1
    PROVE  /\ Pick(pool, weight, r) \in pool
           /\ \A x \in pool :
                Pick(pool, weight, r) = x <=>
                  r \in Before(pool, weight, x) .. Before(pool, weight, x) + weight[x] - 1
<1> DEFINE b(x) == Before(pool, weight, x)
           p == Pick(pool, weight, r)
<1>1. p = CHOOSE x \in pool : b(x) <= r /\ r < b(x) + weight[x]
    BY Zenon DEF Pick, Before
<1>2. p \in pool /\ b(p) <= r /\ r < b(p) + weight[p]
    <2> HIDE DEF b, p
    <2>1. \E x \in pool : b(x) <= r /\ r < b(x) + weight[x]
        BY OneCovers DEF b
    <2> QED BY <1>1, <2>1, Zenon
<1>3. /\ \A x \in pool : b(x) \in Nat
      /\ \A x, y \in pool : x < y => b(x) + weight[x] <= b(y)
    BY InARow
<1>4. r \in Int
    BY Weighs
<1>5. ASSUME NEW x \in pool PROVE p = x <=> r \in b(x) .. b(x) + weight[x] - 1
    <2> HIDE DEF b, p
    <2>1. x < p \/ x = p \/ p < x
        BY <1>2
    <2> QED BY <1>2, <1>3, <1>4, <2>1
<1> QED BY <1>2, <1>5

\* One turn of the draw.
Seated(pool, weight, drawn, word) ==
    LET left == pool \ ToSet(drawn)
        weightOfAll == WeightOf(left, weight)
    IN  IF weightOfAll = 0 THEN drawn
        ELSE Append(drawn, Pick(left, weight, word % weightOfAll))

\* A word seats one of those left, while there are any.
LEMMA AWordSeats ==
    ASSUME NEW pool \in SUBSET Nat, IsFiniteSet(pool), NEW weight,
           \A x \in pool : weight[x] \in Nat \ {0}, NEW drawn \in Seq(pool), NEW word \in Nat
    PROVE  /\ pool = ToSet(drawn) => Seated(pool, weight, drawn, word) = drawn
           /\ pool # ToSet(drawn) => \E x \in pool \ ToSet(drawn) :
                                       Seated(pool, weight, drawn, word) = Append(drawn, x)
<1> DEFINE left == pool \ ToSet(drawn)
           weightOfAll == WeightOf(left, weight)
<1>1. left \in SUBSET Nat /\ IsFiniteSet(left) /\ \A x \in left : weight[x] \in Nat
    BY FS_Subset
<1>2. weightOfAll \in Nat /\ (left = {} => weightOfAll = 0)
    <2> HIDE DEF left
    <2> QED BY <1>1, Weighs
<1>3. ToSet(drawn) \subseteq pool
    BY DEF ToSet
<1>4. Seated(pool, weight, drawn, word)
        = IF weightOfAll = 0 THEN drawn ELSE Append(drawn, Pick(left, weight, word % weightOfAll))
    BY Zenon DEF Seated
<1>5. left # {} => weightOfAll # 0
    <2> SUFFICES ASSUME NEW x \in left PROVE weightOfAll # 0
        OBVIOUS
    <2>1. weightOfAll = weight[x] + WeightOf(left \ {x}, weight)
        <3> HIDE DEF left
        <3> QED BY <1>1, Weighs
    <2>2. WeightOf(left \ {x}, weight) \in Nat
        <3>1. IsFiniteSet(left \ {x}) /\ \A y \in left \ {x} : weight[y] \in Nat
            BY <1>1, FS_Subset
        <3> HIDE DEF left
        <3> QED BY <3>1, Weighs
    <2>3. weight[x] \in Nat \ {0}
        OBVIOUS
    <2> HIDE DEF weightOfAll
    <2> QED BY <2>1, <2>2, <2>3
<1>6. weightOfAll # 0 => Pick(left, weight, word % weightOfAll) \in left
    <2> SUFFICES ASSUME weightOfAll # 0 PROVE Pick(left, weight, word % weightOfAll) \in left
        OBVIOUS
    <2>1. word % weightOfAll \in 0 .. weightOfAll - 1
        <3> HIDE DEF weightOfAll
        <3> QED BY <1>2
    <2> HIDE DEF left
    <2> QED BY <1>1, <2>1, PickIs
<1>7. left = {} <=> pool = ToSet(drawn)
    BY <1>3
<1> HIDE DEF weightOfAll
<1> QED BY <1>2, <1>4, <1>5, <1>6, <1>7 DEF left

\* There are n words.
IsStream(words, n) == words \in Seq(Nat) /\ n <= Len(words)

\* g tells who was drawn after each word.
Draws(pool, weight, words, n, g) ==
    /\ Draw(pool, weight, words, n) = g[1 .. n]
    /\ g[{}] = << >>
    /\ \A i \in 1 .. n : g[1 .. i] = Seated(pool, weight, g[1 .. i - 1], words[i])

LEMMA DrawTurns ==
    ASSUME NEW pool \in SUBSET Nat, IsFiniteSet(pool), NEW weight,
           \A x \in pool : weight[x] \in Nat \ {0},
           NEW words, NEW n \in Nat, IsStream(words, n)
    PROVE  \E g : Draws(pool, weight, words, n, g)
<1>a. ASSUME NEW drawn \in Seq(pool), NEW word \in Nat
      PROVE  \/ Seated(pool, weight, drawn, word) = drawn
             \/ \E x \in pool : Seated(pool, weight, drawn, word) = Append(drawn, x)
    BY AWordSeats
<1>b. IsFiniteSet(1 .. n)
    BY FirstNumbers
<1> DEFINE s == SubSeq(words, 1, n)
           it == CHOOSE it : it = [T \in SUBSET (DOMAIN s) |->
                    IF T = {} THEN << >>
                    ELSE Seated(pool, weight, it[T \ {Max(T)}], s[Max(T)])]
           V == Seq(pool)
           op == [i \in 1 .. n |-> [drawn \in V |-> Seated(pool, weight, drawn, s[i])]]
<1>1. Draw(pool, weight, words, n) = it[DOMAIN s]
    BY Zenon DEF Draw, FoldLeft, MapThenFoldSet, Seated
<1>2. /\ DOMAIN s = 1 .. n
      /\ \A i \in 1 .. n : s[i] = words[i] /\ s[i] \in Nat
    BY DEF IsStream
<1>3. \A i \in 1 .. n : \A drawn \in V : Seated(pool, weight, drawn, s[i]) \in V
    <2> SUFFICES ASSUME NEW i \in 1 .. n, NEW drawn \in V
                 PROVE  Seated(pool, weight, drawn, s[i]) \in V
        OBVIOUS
    <2>1. s[i] \in Nat
        BY <1>2
    <2> HIDE DEF s
    <2>2. Seated(pool, weight, drawn, s[i]) = drawn
          \/ \E x \in pool : Seated(pool, weight, drawn, s[i]) = Append(drawn, x)
        BY <1>a, <2>1
    <2>3. drawn \in Seq(pool) /\ \A x \in pool : Append(drawn, x) \in Seq(pool)
        OBVIOUS
    <2> QED BY <2>2, <2>3
<1>4. /\ \A i \in 1 .. n : \A drawn \in V : op[i][drawn] \in V
      /\ \A i \in 1 .. n : \A drawn \in V : op[i][drawn] = Seated(pool, weight, drawn, s[i])
    <2> HIDE DEF V, s
    <2> QED BY <1>3
<1>5. << >> \in V
    OBVIOUS
<1> HIDE DEF V, s, op
<1>6. PICK h \in [SUBSET (1 .. n) -> V] : IsLoop(n, << >>, op, h)
    <2>1. LoopTables(n, V, << >>, op) # {}
        BY <1>4, <1>5, LoopExists
    <2> QED BY <2>1 DEF LoopTables
<1>7. ASSUME NEW T \in SUBSET (1 .. n)
      PROVE  h[T] = IF T = {} THEN << >>
                    ELSE Seated(pool, weight, h[T \ {Max(T)}], s[Max(T)])
    <2>1. CASE T = {}
        BY <1>6, <2>1 DEF IsLoop
    <2>2. CASE T # {}
        <3>1. Max(T) \in 1 .. n
            BY <2>2, MaxIs
        <3>2. h[T \ {Max(T)}] \in V
            <4>1. T \ {Max(T)} \in SUBSET (1 .. n)
                OBVIOUS
            <4> QED BY <4>1
        <3>3. h[T] = op[Max(T)][h[T \ {Max(T)}]]
            BY <1>6, <2>2 DEF IsLoop
        <3> QED BY <1>4, <2>2, <3>1, <3>2, <3>3
    <2> QED BY <2>1, <2>2
<1>8. it = [T \in SUBSET (DOMAIN s) |->
              IF T = {} THEN << >> ELSE Seated(pool, weight, it[T \ {Max(T)}], s[Max(T)])]
    <2>1. h = [T \in SUBSET (DOMAIN s) |->
              IF T = {} THEN << >> ELSE Seated(pool, weight, h[T \ {Max(T)}], s[Max(T)])]
        BY <1>2, <1>7
    <2>2. \E f : f = [T \in SUBSET (DOMAIN s) |->
              IF T = {} THEN << >> ELSE Seated(pool, weight, f[T \ {Max(T)}], s[Max(T)])]
        BY <2>1
    <2> QED BY <2>2, Zenon
<1> HIDE DEF it
<1>9. it[1 .. n] = h[1 .. n]
    <2>1. \A T \in SUBSET (1 .. n) :
            it[T] = IF T = {} THEN << >>
                    ELSE Seated(pool, weight, it[T \ {Max(T)}], s[Max(T)])
        BY <1>2, <1>8
    <2> DEFINE S == 1 .. n
               U == {T \in SUBSET S : it[T] # h[T]}
    <2>2. U = {}
        <3> SUFFICES ASSUME U # {} PROVE FALSE
            OBVIOUS
        <3>0. U \in SUBSET SUBSET S /\ U # {}
            OBVIOUS
        <3>1. IsFiniteSet(S)
            BY <1>b
        <3>2. PICK T \in U : \A W \in U : W \subseteq T => W = T
            <4> HIDE DEF U, S
            <4> QED BY <3>0, <3>1, LeastFinite
        <3>3. T \in SUBSET (1 .. n) /\ it[T] # h[T] /\ T # {}
            BY <1>7, <2>1, <3>2
        <3>4. Max(T) \in T
            BY <3>3, MaxIs
        <3>5. it[T \ {Max(T)}] = h[T \ {Max(T)}]
            <4>1. T \ {Max(T)} \in SUBSET (1 .. n) /\ T \ {Max(T)} \subseteq T /\ T \ {Max(T)} # T
                BY <3>3, <3>4
            <4> QED BY <3>2, <4>1
        <3> QED BY <1>7, <2>1, <3>3, <3>5
    <2> QED BY <2>2
<1>10. /\ h[{}] = << >>
       /\ \A i \in 1 .. n : h[1 .. i] = op[i][h[1 .. i - 1]]
    <2> DEFINE none == << >>
    <2>1. IsLoop(n, none, op, h)
        BY <1>6
    <2> HIDE DEF none
    <2>2. h[{}] = none /\ \A i \in 1 .. n : h[1 .. i] = op[i][h[1 .. i - 1]]
        BY <2>1, LoopTurns
    <2> QED BY <2>2 DEF none
<1>11. \A i \in 1 .. n : h[1 .. i - 1] \in V
    <2>1. \A i \in 1 .. n : 1 .. i - 1 \in SUBSET (1 .. n)
        OBVIOUS
    <2> QED BY <2>1
<1>12. \A i \in 1 .. n : h[1 .. i] = Seated(pool, weight, h[1 .. i - 1], words[i])
    BY <1>2, <1>4, <1>10, <1>11
<1>13. Draws(pool, weight, words, n, h)
    BY <1>1, <1>2, <1>9, <1>10, <1>12, Zenon DEF Draws
<1> QED BY <1>13

\* The draw seats candidates, each once, and stops only when it has as many
\* as there are seats or candidates.
LEMMA DrawIs ==
    ASSUME NEW pool \in SUBSET Nat, IsFiniteSet(pool), NEW weight,
           \A x \in pool : weight[x] \in Nat \ {0},
           NEW words, NEW n \in Nat, IsStream(words, n)
    PROVE  LET roster == Draw(pool, weight, words, n)
           IN  /\ roster \in Seq(pool) /\ IsInjective(roster)
               /\ Len(roster) = IF Cardinality(pool) < n THEN Cardinality(pool) ELSE n
<1> DEFINE size == Cardinality(pool)
           Upto(i) == IF size < i THEN size ELSE i
           Good(d, i) == d \in Seq(pool) /\ IsInjective(d) /\ Len(d) = Upto(i)
<1>0. ASSUME NEW drawn \in Seq(pool), NEW word \in Nat
      PROVE  /\ pool = ToSet(drawn) => Seated(pool, weight, drawn, word) = drawn
             /\ pool # ToSet(drawn) => \E x \in pool \ ToSet(drawn) :
                                         Seated(pool, weight, drawn, word) = Append(drawn, x)
    BY AWordSeats, SMTT(30)
<1>1. PICK g : Draws(pool, weight, words, n, g)
    BY DrawTurns
<1>2. /\ Draw(pool, weight, words, n) = g[1 .. n]
      /\ g[{}] = << >>
      /\ \A i \in 1 .. n : g[1 .. i] = Seated(pool, weight, g[1 .. i - 1], words[i])
    BY <1>1, Zenon DEF Draws
<1>3. size \in Nat
    BY FS_CardinalityType
\* Who is drawn counts as many as were drawn.
<1>4. ASSUME NEW d \in Seq(pool), IsInjective(d)
      PROVE  /\ ToSet(d) \in SUBSET pool /\ Cardinality(ToSet(d)) = Len(d)
             /\ Len(d) = size <=> ToSet(d) = pool
             /\ Len(d) <= size
    <2>1. ToSet(d) \in SUBSET pool
        BY DEF ToSet
    <2>2. Cardinality(ToSet(d)) = Len(d)
        <3> DEFINE D == 1 .. Len(d)
        <3>1. IsFiniteSet(D) /\ Cardinality(D) = Len(d)
            <4>1. PICK k \in Nat : k = Len(d)
                BY <1>4
            <4>2. IsFiniteSet(1 .. k) /\ Cardinality(1 .. k) = k
                BY FirstNumbers
            <4> QED BY <4>1, <4>2
        <3>2. d \in Bijection(D, ToSet(d))
            <4>1. d \in [D -> ToSet(d)]
                BY DEF ToSet
            <4>2. \A y \in ToSet(d) : \E i \in D : d[i] = y
                BY DEF ToSet
            <4>3. \A i, j \in D : d[i] = d[j] => i = j
                BY <1>4 DEF IsInjective
            <4> QED BY <4>1, <4>2, <4>3 DEF Bijection, Injection, Surjection, IsInjective
        <3> HIDE DEF D
        <3>3. ExistsBijection(D, ToSet(d))
            BY <3>2 DEF ExistsBijection
        <3> QED BY <3>1, <3>3, FS_Bijection
    <2>3. IsFiniteSet(ToSet(d)) /\ Cardinality(ToSet(d)) <= size
          /\ (Cardinality(ToSet(d)) = size => ToSet(d) = pool)
        BY <2>1, FS_Subset
    <2> QED BY <2>1, <2>2, <2>3
<1> DEFINE P == {i \in Nat : i <= n => Good(g[1 .. i], i)}
<1>5. 0 \in P
    <2>1. 1 .. 0 = {} /\ << >> \in Seq(pool) /\ Len(<< >>) = 0 /\ IsInjective(<< >>)
        BY DEF IsInjective
    <2>2. g[1 .. 0] = << >>
        BY <1>2, <2>1
    <2>3. Upto(0) = 0
        BY <1>3
    <2> QED BY <2>1, <2>2, <2>3
<1>6. ASSUME NEW i \in Nat, i \in P PROVE i + 1 \in P
    <2> SUFFICES ASSUME i + 1 <= n PROVE Good(g[1 .. i + 1], i + 1)
        OBVIOUS
    <2> DEFINE d == g[1 .. i]
    <2>1. d \in Seq(pool) /\ IsInjective(d) /\ Len(d) = Upto(i)
        BY <1>6
    <2>2. i + 1 \in 1 .. n /\ (i + 1) - 1 = i /\ words[i + 1] \in Nat
        BY DEF IsStream
    <2>3. g[1 .. i + 1] = Seated(pool, weight, d, words[i + 1])
        BY <1>2, <2>2
    <2>4. CASE pool = ToSet(d)
        <3>1. g[1 .. i + 1] = d
            <4> HIDE DEF d
            <4>1. d \in Seq(pool) /\ words[i + 1] \in Nat
                BY <2>1, <2>2
            <4>2. Seated(pool, weight, d, words[i + 1]) = d
                BY <1>0, <2>4, <4>1
            <4> QED BY <2>3, <4>2
        <3>2. Len(d) = size
            BY <1>4, <2>1, <2>4
        <3>3. Upto(i + 1) = size
            BY <1>3, <2>1, <3>2
        <3> QED BY <2>1, <3>1, <3>2, <3>3
    <2>5. CASE pool # ToSet(d)
        <3>1. PICK x \in pool \ ToSet(d) : g[1 .. i + 1] = Append(d, x)
            <4> HIDE DEF d
            <4>1. d \in Seq(pool) /\ words[i + 1] \in Nat
                BY <2>1, <2>2
            <4>2. \E x \in pool \ ToSet(d) : Seated(pool, weight, d, words[i + 1]) = Append(d, x)
                BY <1>0, <2>5, <4>1
            <4> QED BY <2>3, <4>2
        <3>2. Len(d) < size /\ Len(d) = i
            BY <1>3, <1>4, <2>1, <2>5
        <3> HIDE DEF d
        <3>3. Append(d, x) \in Seq(pool) /\ Len(Append(d, x)) = i + 1
            BY <2>1, <3>2
        <3>4. IsInjective(Append(d, x))
            BY <2>1, <3>1 DEF IsInjective, ToSet
        <3>5. Upto(i + 1) = i + 1
            BY <1>3, <3>2
        <3> QED BY <3>1, <3>3, <3>4, <3>5
    <2> QED BY <2>4, <2>5
<1>7. n \in P
    <2>1. Nat \subseteq P
        <3> HIDE DEF P
        <3> QED BY <1>5, <1>6, OverNat
    <2> QED BY <2>1
<1> QED BY <1>2, <1>7

----------------------------------------------------------------------------
(* The scores.                                                             *)

\* A sum that is not zero has a term that is not.
LEMMA SumHasATerm ==
    ASSUME NEW S, IsFiniteSet(S), NEW f, \A x \in S : f[x] \in Nat, SumFunctionOnSet(f, S) # 0
    PROVE  \E x \in S : f[x] # 0
<1> SUFFICES ASSUME \A x \in S : f[x] = 0 PROVE SumFunctionOnSet(f, S) = 0
    OBVIOUS
<1> DEFINE P == {T \in SUBSET S : SumFunctionOnSet(f, T) = 0}
<1>0. Nat \in {Nat, Int} /\ IsFiniteSet({})
    BY FS_EmptySet
<1>1. {} \in P
    <2>1. SumFunctionOnSet(f, {}) = 0
        BY <1>0, SumType
    <2> QED BY <2>1
<1>2. ASSUME NEW T \in SUBSET S, NEW x \in S, T \in P PROVE T \cup {x} \in P
    <2>1. CASE x \in T
        <3>1. T \cup {x} = T
            BY <2>1
        <3> QED BY <1>2, <3>1
    <2>2. CASE x \notin T
        <3>1. IsFiniteSet(T) /\ \A y \in T \cup {x} : f[y] \in Int
            BY FS_Subset
        <3>2. SumFunctionOnSet(f, T \cup {x}) = f[x] + SumFunctionOnSet(f, T)
            BY <2>2, <3>1, SumAdd
        <3> QED BY <1>2, <3>2
    <2> QED BY <2>1, <2>2
<1>3. S \in P
    <2> HIDE DEF P
    <2> QED BY <1>1, <1>2, OverFinite
<1> QED BY <1>3

LEMMA BoundsAreNumbers ==
    /\ {DeedMax, EchoMax, TenureMax, DeedDecay, EchoDecay, EchoBudget, EchoTargetCap,
        WMin, WitnessMinDeed, RingMinTenure, WitnessPenalty, SponsorPenalty} \subseteq Nat
    /\ RingThreshold \in Nat \ {0} /\ WitnessMinDeed < DeedMax
BY KleosAssumption DEF KleosAssumption

\* Every transition keeps the layers in their bounds, and none revives.
LEMMA ScoresMove ==
    ASSUME NEW k \in Score, NEW d \in Int, NEW e \in Int
    PROVE  /\ AdvanceEra(k, d, e) \in Score /\ (k.dead => AdvanceEra(k, d, e).dead)
           /\ ConvictFraud(k) \in Score /\ ConvictFraud(k).dead
           /\ PenalizeWitness(k) \in Score /\ (k.dead => PenalizeWitness(k).dead)
           /\ PenalizeSponsor(k) \in Score /\ (k.dead => PenalizeSponsor(k).dead)
           /\ Strip(k) \in Score /\ Strip(k).dead
<1>1. /\ k.deed \in 0 .. DeedMax /\ k.echo \in 0 .. EchoMax /\ k.tenure \in 0 .. TenureMax
      /\ k.dead \in BOOLEAN
    BY DEF Score
<1>2. \A n \in Int, max \in Nat : Clamped(n, max) \in 0 .. max
    BY DEF Clamped
<1>3. AdvanceEra(k, d, e) \in Score /\ (k.dead => AdvanceEra(k, d, e).dead)
    <2>1. /\ Clamped(k.deed + d - DeedDecay, DeedMax) \in 0 .. DeedMax
          /\ Clamped(k.echo + e - EchoDecay, EchoMax) \in 0 .. EchoMax
          /\ Clamped(k.tenure + 1, TenureMax) \in 0 .. TenureMax
        <3>1. k.deed + d - DeedDecay \in Int /\ k.echo + e - EchoDecay \in Int /\ k.tenure + 1 \in Int
            BY <1>1, BoundsAreNumbers
        <3> QED BY <1>2, <3>1, BoundsAreNumbers
    <2>2. (IF k.dead THEN k.tenure ELSE Clamped(k.tenure + 1, TenureMax)) \in 0 .. TenureMax
        BY <1>1, <2>1
    <2> QED BY <1>1, <2>1, <2>2 DEF AdvanceEra, Score
<1>4. ConvictFraud(k) \in Score /\ ConvictFraud(k).dead
    <2>1. k.deed \div 2 \in 0 .. DeedMax /\ 0 \in 0 .. EchoMax /\ 0 \in 0 .. TenureMax
        BY <1>1, BoundsAreNumbers
    <2> QED BY <2>1 DEF ConvictFraud, Score
<1>5. ASSUME NEW penalty \in Nat
      PROVE  LET p == [k EXCEPT !.deed = Clamped(@ - penalty, DeedMax)]
             IN  p \in Score /\ (k.dead => p.dead)
    <2>1. Clamped(k.deed - penalty, DeedMax) \in 0 .. DeedMax
        <3>1. k.deed - penalty \in Int
            BY <1>1, BoundsAreNumbers
        <3> QED BY <1>2, <3>1, BoundsAreNumbers
    <2> QED BY <2>1 DEF Score
<1>6. PenalizeWitness(k) \in Score /\ (k.dead => PenalizeWitness(k).dead)
    BY <1>5, BoundsAreNumbers DEF PenalizeWitness
<1>7. PenalizeSponsor(k) \in Score /\ (k.dead => PenalizeSponsor(k).dead)
    BY <1>5, BoundsAreNumbers DEF PenalizeSponsor
<1>8. Strip(k) \in Score /\ Strip(k).dead
    <2>1. 0 \in 0 .. DeedMax /\ 0 \in 0 .. EchoMax /\ 0 \in 0 .. TenureMax
        BY BoundsAreNumbers
    <2> QED BY <2>1 DEF Strip, Score
<1> QED BY <1>3, <1>4, <1>6, <1>7, <1>8

\* What a target gains is capped, and a gain has a witness whose testimony
\* weighs.
LEMMA EchoGains ==
    ASSUME kleos \in [Identities -> Score], NEW season \in Seasons, NEW x \in Identities
    PROVE  /\ EchoGain(season, x) \in 0 .. EchoTargetCap
           /\ EchoGain(season, x) # 0 =>
                \E w \in Identities \ {x} : kleos[w].deed >= WitnessMinDeed
<1> DEFINE S == {v \in Identities : <<v, x>> \in season.attests}
           budget(w) == IF {w, x} \subseteq season.clique THEN MutualEcho(EchoBudget) ELSE EchoBudget
           f == [w \in S |-> EchoContribution(kleos[w], budget(w))]
           sum == SumFunctionOnSet(f, S)
<1>1. EchoGain(season, x) = IF sum > EchoTargetCap THEN EchoTargetCap ELSE sum
    <2>1. EchoGain(season, x) = CappedEchoGain(f)
        BY Zenon DEF EchoGain
    <2>2. SumFunction(f) = sum
        <3>1. DOMAIN f = S
            OBVIOUS
        <3> HIDE DEF f, S
        <3> QED BY <3>1, Zenon DEF SumFunction
    <2> HIDE DEF f, S
    <2> QED BY <2>1, <2>2 DEF CappedEchoGain
<1>2. IsFiniteSet(S) /\ x \notin S
    BY RingAssumption, FS_Subset DEF RingAssumption
<1>3. ASSUME NEW w \in S
      PROVE  f[w] \in Nat /\ (f[w] # 0 => kleos[w].deed >= WitnessMinDeed)
    <2> DEFINE k == kleos[w]
               weight == WitnessWeight(k)
               b == budget(w)
    <2>1. k.deed \in Nat
        BY BoundsAreNumbers DEF Score
    <2>2. b \in Nat
        BY BoundsAreNumbers DEF MutualEcho
    <2>3. weight \in Nat /\ (k.deed < WitnessMinDeed => weight = 0)
        <3>1. CASE k.deed < WitnessMinDeed
            BY <3>1 DEF WitnessWeight
        <3>2. CASE ~(k.deed < WitnessMinDeed)
            <4> DEFINE num == 850 * (k.deed - WitnessMinDeed)
                       den == DeedMax - WitnessMinDeed
            <4>1. num \in Nat /\ den \in Nat \ {0}
                BY <2>1, <3>2, BoundsAreNumbers
            <4>2. weight = WMin + num \div den
                BY <3>2 DEF WitnessWeight
            <4> HIDE DEF num, den
            <4>3. num \div den \in Nat
                BY <4>1
            <4> QED BY <3>2, <4>2, <4>3, BoundsAreNumbers
        <3> QED BY <3>1, <3>2
    <2>4. f[w] = (b * weight) \div 1000
        BY DEF EchoContribution
    <2> HIDE DEF weight, b
    <2>5. b * weight \in Nat /\ (weight = 0 => b * weight = 0)
        BY <2>2, <2>3
    <2> DEFINE product == b * weight
    <2>6. product \in Nat /\ (weight = 0 => product = 0) /\ f[w] = product \div 1000
        BY <2>4, <2>5
    <2> HIDE DEF product, f
    <2>7. f[w] \in Nat /\ (weight = 0 => f[w] = 0)
        BY <2>6
    <2> HIDE DEF k
    <2>8. f[w] # 0 => k.deed >= WitnessMinDeed
        BY <2>1, <2>3, <2>7, BoundsAreNumbers
    <2> QED BY <2>7, <2>8 DEF k
<1> HIDE DEF f
<1>4. sum \in Nat
    <2>1. Nat \in {Nat, Int} /\ \A w \in S : f[w] \in Nat
        BY <1>3
    <2> HIDE DEF S
    <2> QED BY <1>2, <2>1, SumType
<1>5. sum # 0 => \E w \in S : f[w] # 0
    <2>1. \A w \in S : f[w] \in Nat
        BY <1>3
    <2> HIDE DEF S
    <2> QED BY <1>2, <2>1, SumHasATerm
<1>6. sum # 0 => \E w \in Identities \ {x} : kleos[w].deed >= WitnessMinDeed
    BY <1>2, <1>3, <1>5
<1> HIDE DEF sum
<1> QED BY <1>1, <1>4, <1>6, BoundsAreNumbers

\* The weight of a candidate is its score, which reached the threshold.
LEMMA CandidatesWeigh ==
    ASSUME NEW scores \in [Identities -> Score]
    PROVE  /\ Candidates(scores) \in SUBSET Nat /\ IsFiniteSet(Candidates(scores))
           /\ Candidates(scores) \subseteq Identities
           /\ \A x \in Candidates(scores) :
                DrawWeights(scores)[x] \in Nat \ {0} /\ ~scores[x].dead
<1>1. Candidates(scores) \subseteq Identities
    BY DEF Candidates
<1>2. Candidates(scores) \in SUBSET Nat /\ IsFiniteSet(Candidates(scores))
    BY <1>1, RingAssumption, FS_Subset
<1>3. ASSUME NEW x \in Candidates(scores)
      PROVE  DrawWeights(scores)[x] \in Nat \ {0} /\ ~scores[x].dead
    <2>1. x \in Identities /\ IsRingCandidate(scores[x])
        BY DEF Candidates
    <2>2. DrawWeights(scores)[x] = Total(scores[x])
        BY <2>1 DEF DrawWeights
    <2>3. scores[x] \in Score
        BY <2>1
    <2>4. Total(scores[x]) \in Nat
        BY <2>3, BoundsAreNumbers DEF Total, Score
    <2> QED BY <2>1, <2>2, <2>4, BoundsAreNumbers DEF IsRingCandidate
<1> QED BY <1>1, <1>2, <1>3

\* The roster of an era is drawn among the candidates: the code's own check of
\* a roster refuses none.
LEMMA RostersAreDrawn ==
    ASSUME NEW scores \in [Identities -> Score], NEW words \in Words
    PROVE  LET roster == Draw(Candidates(scores), DrawWeights(scores), words, Seats)
               pool == Candidates(scores)
           IN  /\ roster \in Seq(pool) /\ IsRoster(roster)
               /\ Len(roster) = IF Cardinality(pool) < Seats THEN Cardinality(pool) ELSE Seats
<1> DEFINE pool == Candidates(scores)
           roster == Draw(pool, DrawWeights(scores), words, Seats)
<1>1. Seats \in Nat /\ IsStream(words, Seats)
    BY RingAssumption DEF IsStream
<1>2. /\ pool \in SUBSET Nat /\ IsFiniteSet(pool) /\ pool \subseteq Identities
      /\ \A x \in pool : DrawWeights(scores)[x] \in Nat \ {0}
    BY CandidatesWeigh
<1>3. /\ roster \in Seq(pool) /\ IsInjective(roster)
      /\ Len(roster) = IF Cardinality(pool) < Seats THEN Cardinality(pool) ELSE Seats
    <2> HIDE DEF pool
    <2> QED BY <1>1, <1>2, DrawIs, ZenonT(40)
<1>4. roster \in Seq(Identities) /\ Len(roster) <= Seats
    <2>1. Cardinality(pool) \in Nat
        BY <1>2, FS_CardinalityType
    <2> HIDE DEF pool, roster
    <2>2. Len(roster) <= Seats
        BY <1>1, <1>3, <2>1
    <2>3. roster \in Seq(Identities)
        <3>1. roster \in Seq(pool) /\ pool \subseteq Identities
            BY <1>2, <1>3
        <3> QED BY <3>1
    <2> QED BY <2>2, <2>3
<1> QED BY <1>3, <1>4 DEF IsRoster

----------------------------------------------------------------------------
(* Who was convicted.                                                      *)

\* A conviction kills the Tenure, and nothing revives it.
ConvictedAreDead ==
    \A s \in sanctions : s.kind \in {"strip", "fraud"} => kleos[s.who].dead

KInv == RingTypeOK /\ ConvictedAreDead /\ ConvictedNeverSit

LEMMA InitIsClean == RingInit => KInv
<1> SUFFICES ASSUME RingInit PROVE KInv
    OBVIOUS
<1>1. Fresh \in Score
    <2>1. 0 \in 0 .. DeedMax /\ 0 \in 0 .. EchoMax /\ 0 \in 0 .. TenureMax
        BY BoundsAreNumbers
    <2> QED BY <2>1 DEF Fresh, Score
<1>2. kleos \in [Identities -> Score]
    BY <1>1 DEF RingInit
<1>3. RostersHold
    BY InitIsSound DEF IInv
<1>4. rosters # << >> /\ signatures = {} /\ sanctions = {}
    BY DEF RingInit
<1> QED BY <1>2, <1>3, <1>4 DEF KInv, RingTypeOK, RostersHold, ConvictedAreDead, ConvictedNeverSit

\* A score moves within its bounds, and does not revive.
ScoreMoves(k, l) == l \in Score /\ (k.dead => l.dead)

\* Whatever leaves the rosters alone.
LEMMA SanctionIsClean ==
    ASSUME KInv, IInv, IInv', NEW who \in Identities, NEW kind \in {"strip", "fraud", "witness", "sponsor"},
           NEW k, kleos' = [kleos EXCEPT ![who] = k], ScoreMoves(kleos[who], k),
           kind \in {"strip", "fraud"} => k.dead,
           Sanctioned(who, kind), UNCHANGED <<rosters, signatures>>
    PROVE  KInv'
<1>1. era \in Nat \ {0} /\ era' = era
    BY DEF KInv, RingTypeOK, era
<1> DEFINE new == [who |-> who, era |-> era, kind |-> kind]
<1>2. sanctions' = sanctions \cup {new}
    BY DEF Sanctioned
<1>3. new \in [who : Identities, era : 1 .. era, kind : {"strip", "fraud", "witness", "sponsor"}]
    <2>1. era \in 1 .. era
        BY <1>1
    <2> QED BY <2>1
<1>4. kleos' \in [Identities -> Score]
    BY DEF KInv, RingTypeOK, ScoreMoves
<1>5. /\ sanctions' \subseteq [who : Identities, era : 1 .. era',
                                kind : {"strip", "fraud", "witness", "sponsor"}]
    BY <1>1, <1>2, <1>3 DEF KInv, RingTypeOK
<1>6. RingTypeOK'
    BY <1>4, <1>5 DEF KInv, RingTypeOK, IsRoster
<1>7. ConvictedAreDead'
    <2> SUFFICES ASSUME NEW s \in sanctions', s.kind \in {"strip", "fraud"}
                 PROVE  kleos'[s.who].dead
        BY DEF ConvictedAreDead
    <2>1. CASE s = new
        <3>1. s.who = who /\ s.kind = kind
            BY <2>1
        <3> QED BY <3>1 DEF KInv, RingTypeOK
    <2>2. CASE s \in sanctions
        <3>1. s.who \in Identities /\ kleos[s.who].dead
            BY <2>2 DEF KInv, RingTypeOK, ConvictedAreDead
        <3> QED BY <3>1 DEF KInv, RingTypeOK, ScoreMoves
    <2> QED BY <1>2, <2>1, <2>2
<1>8. ConvictedNeverSit'
    <2> SUFFICES ASSUME NEW s \in sanctions', s.kind \in {"strip", "fraud"},
                        NEW e \in s.era + 1 .. era
                 PROVE  s.who \notin ToSet(rosters[e])
        BY <1>1 DEF ConvictedNeverSit
    <2>1. s # new
        <3> SUFFICES ASSUME s = new PROVE FALSE
            OBVIOUS
        <3>1. s.era = era
            OBVIOUS
        <3> QED BY <1>1, <3>1
    <2> QED BY <1>2, <2>1 DEF KInv, ConvictedNeverSit
<1> QED BY <1>6, <1>7, <1>8 DEF KInv

\* Nobody convicted is a candidate when a roster is drawn.
LEMMA NextEraIsClean ==
    ASSUME KInv, IInv, IInv', NEW season \in Seasons, NEW words \in Words, NextEra(season, words)
    PROVE  KInv'
<1> DEFINE roster == Draw(Candidates(kleos'), DrawWeights(kleos'), words, Seats)
<1>1. kleos' = Aged(season) /\ rosters' = Append(rosters, roster) /\ UNCHANGED <<signatures, sanctions>>
    BY DEF NextEra
<1>2. ASSUME NEW x \in Identities
      PROVE  ScoreMoves(kleos[x], AdvanceEra(kleos[x], DeedGain(season, x), EchoGain(season, x)))
    <2>1. DeedGain(season, x) \in Int
        <3>1. season.accrual[x] \in Nat
            BY RingAssumption
        <3> QED BY <3>1 DEF DeedGain, PooledDeed
    <2>2. EchoGain(season, x) \in Int
        <3>1. EchoGain(season, x) \in 0 .. EchoTargetCap
            BY EchoGains DEF KInv, RingTypeOK
        <3> QED BY <3>1
    <2>3. kleos[x] \in Score
        BY DEF KInv, RingTypeOK
    <2> QED BY <2>1, <2>2, <2>3, ScoresMove DEF ScoreMoves
<1>3. kleos' \in [Identities -> Score] /\ \A x \in Identities : kleos[x].dead => kleos'[x].dead
    BY <1>1, <1>2 DEF Aged, ScoreMoves
<1>4. roster \in Seq(Candidates(kleos'))
    BY <1>3, RostersAreDrawn
<1>5. /\ era \in Nat /\ era' = era + 1 /\ rosters'[era + 1] = roster
      /\ \A e \in 1 .. era : rosters'[e] = rosters[e]
    <2>1. rosters \in Seq(Seq(Identities))
        BY DEF KInv, RingTypeOK
    <2> HIDE DEF roster
    <2> QED BY <1>1, <2>1 DEF era
<1>6. RingTypeOK'
    <2>1. RostersHold' /\ SignaturesHold'
        BY DEF IInv
    <2>2. rosters' # << >>
        <3>1. rosters \in Seq(Seq(Identities))
            BY DEF KInv, RingTypeOK
        <3> HIDE DEF roster
        <3> QED BY <1>1, <3>1
    <2>3. sanctions' \subseteq [who : Identities, era : 1 .. era',
                                 kind : {"strip", "fraud", "witness", "sponsor"}]
        <3>1. 1 .. era \subseteq 1 .. era'
            BY <1>5
        <3> QED BY <1>1, <3>1 DEF KInv, RingTypeOK
    <2> QED BY <1>3, <2>1, <2>2, <2>3 DEF RingTypeOK, RostersHold, SignaturesHold
<1>7. ConvictedAreDead'
    BY <1>1, <1>3 DEF KInv, RingTypeOK, ConvictedAreDead
<1>8. ConvictedNeverSit'
    <2> SUFFICES ASSUME NEW s \in sanctions, s.kind \in {"strip", "fraud"},
                        NEW e \in s.era + 1 .. era + 1
                 PROVE  s.who \notin ToSet(rosters'[e])
        BY <1>1, <1>5 DEF ConvictedNeverSit
    <2>1. s.era \in 1 .. era /\ s.who \in Identities
        BY DEF KInv, RingTypeOK
    <2>2. CASE e = era + 1
        <3>1. kleos'[s.who].dead
            BY <1>1, <1>7 DEF ConvictedAreDead
        <3>2. s.who \notin Candidates(kleos')
            BY <1>3, <3>1, CandidatesWeigh
        <3>3. ToSet(roster) \subseteq Candidates(kleos')
            <4> HIDE DEF roster
            <4> QED BY <1>4 DEF ToSet
        <3> QED BY <1>5, <2>2, <3>2, <3>3
    <2>3. CASE e # era + 1
        <3>1. e \in s.era + 1 .. era /\ e \in 1 .. era
            BY <1>5, <2>1, <2>3
        <3> QED BY <1>5, <3>1 DEF KInv, ConvictedNeverSit
    <2> QED BY <2>2, <2>3
<1> QED BY <1>6, <1>7, <1>8 DEF KInv

LEMMA NextIsClean == KInv /\ IInv /\ IInv' /\ [RingNext]_RingVars => KInv'
<1> SUFFICES ASSUME KInv, IInv, IInv', [RingNext]_RingVars PROVE KInv'
    OBVIOUS
<1>1. CASE \E season \in Seasons, words \in Words : NextEra(season, words)
    BY <1>1, NextEraIsClean
<1>2. ASSUME UNCHANGED <<kleos, rosters, sanctions>> PROVE KInv'
    <2>1. SignaturesHold' /\ era' = era
        BY <1>2 DEF IInv, era
    <2> QED BY <1>2, <2>1
            DEF KInv, RingTypeOK, IsRoster, SignaturesHold, ConvictedAreDead, ConvictedNeverSit
<1>3. CASE \E x \in Honest, m \in Messages, seat \in 1 .. Seats : HonestSigns(x, m, seat)
    BY <1>2, <1>3 DEF HonestSigns
<1>4. CASE \E x \in Identities \ Honest, m \in Messages, seat \in 1 .. Seats + 1 :
             OtherSigns(x, m, seat)
    BY <1>2, <1>4 DEF OtherSigns
<1>5. ASSUME NEW e \in 1 .. era, NEW seat \in 1 .. Seats, NEW m \in Messages, NEW n \in Messages,
             StripSeat(e, seat, m, n)
      PROVE  KInv'
    <2> DEFINE x == rosters[e][seat]
    <2>1. x \in Identities /\ kleos[x] \in Score
        <3>1. rosters[e] \in Seq(Identities) /\ seat \in DOMAIN rosters[e]
            BY <1>5 DEF KInv, RingTypeOK, StripSeat, Convicts, era
        <3>2. rosters[e][seat] \in Identities
            BY <3>1
        <3> QED BY <3>2 DEF KInv, RingTypeOK
    <2>2. /\ kleos' = [kleos EXCEPT ![x] = Strip(kleos[x])]
          /\ Sanctioned(x, "strip") /\ UNCHANGED <<rosters, signatures>>
        BY <1>5 DEF StripSeat
    <2>3. ScoreMoves(kleos[x], Strip(kleos[x])) /\ Strip(kleos[x]).dead
        <3>1. 0 \in Int
            OBVIOUS
        <3> HIDE DEF x
        <3> QED BY <2>1, <3>1, ScoresMove DEF ScoreMoves
    <2> HIDE DEF x
    <2> QED BY <2>1, <2>2, <2>3, SanctionIsClean
<1>6. ASSUME NEW x \in Identities, Incident(x) PROVE KInv'
    <2>1. /\ ScoreMoves(kleos[x], ConvictFraud(kleos[x])) /\ ConvictFraud(kleos[x]).dead
          /\ ScoreMoves(kleos[x], PenalizeWitness(kleos[x]))
          /\ ScoreMoves(kleos[x], PenalizeSponsor(kleos[x]))
        <3>1. 0 \in Int /\ kleos[x] \in Score
            BY DEF KInv, RingTypeOK
        <3> QED BY <3>1, ScoresMove DEF ScoreMoves
    <2>2. UNCHANGED <<rosters, signatures>>
        BY <1>6 DEF Incident
    <2>3. CASE Fraud(x)
        BY <2>1, <2>2, <2>3, SanctionIsClean DEF Fraud
    <2>4. CASE LiableWitness(x)
        BY <2>1, <2>2, <2>4, SanctionIsClean DEF LiableWitness
    <2>5. CASE LiableSponsor(x)
        BY <2>1, <2>2, <2>5, SanctionIsClean DEF LiableSponsor
    <2> QED BY <1>6, <2>3, <2>4, <2>5 DEF Incident
<1>7. CASE UNCHANGED RingVars
    BY <1>2, <1>7 DEF RingVars
<1> QED BY <1>1, <1>3, <1>4, <1>5, <1>6, <1>7 DEF RingNext

LEMMA Clean == RingSpec => []KInv
BY InitIsSound, NextIsSound, InitIsClean, NextIsClean, PTL DEF RingSpec

\* Score, RingRoster::new: every layer stays in its bounds, and every roster
\* holds at most the seats, each key once.
THEOREM RingTypeCorrect == RingSpec => []RingTypeOK
<1>1. KInv => RingTypeOK  BY DEF KInv
<1>q. QED  BY Clean, <1>1, PTL

\* Kleos::convict_fraud and Kleos::strip: a conviction closes the Ring forever.
THEOREM ConvictedStayOut == RingSpec => []ConvictedNeverSit
<1>1. KInv => ConvictedNeverSit  BY DEF KInv
<1>q. QED  BY Clean, <1>1, PTL

----------------------------------------------------------------------------
(* What a turn of the era may do.                                          *)

\* A candidate is picked by as many numbers as it has weight.
LEMMA PicksAreTheWeight ==
    ASSUME NEW pool \in SUBSET Nat, IsFiniteSet(pool), NEW weight,
           \A x \in pool : weight[x] \in Nat, NEW x \in pool
    PROVE  Cardinality({r \in 0 .. WeightOf(pool, weight) - 1 : Pick(pool, weight, r) = x}) = weight[x]
<1> DEFINE W == WeightOf(pool, weight)
           b == Before(pool, weight, x)
           w == weight[x]
<1>1. W \in Nat /\ b \in Nat /\ w \in Nat /\ b + w <= W
    BY Weighs, InARow
<1>2. \A r \in 0 .. W - 1 : Pick(pool, weight, r) = x <=> r \in b .. b + w - 1
    BY PickIs
<1> HIDE DEF W, b, w
<1>3. {r \in 0 .. W - 1 : Pick(pool, weight, r) = x} = b .. b + w - 1
    <2>1. \A r \in b .. b + w - 1 : r \in 0 .. W - 1
        BY <1>1
    <2> QED BY <1>2, <2>1
<1>4. Cardinality(b .. b + w - 1) = w
    <2>1. PICK c \in Int : c = b + w - 1
        BY <1>1
    <2>2. Cardinality(b .. c) = IF b > c THEN 0 ELSE c - b + 1
        BY <1>1, FS_Interval
    <2> QED BY <1>1, <2>1, <2>2
<1> QED BY <1>3, <1>4 DEF W, w

\* Only the turn of an era touches the rosters, and no other step raises an
\* Echo.
LEMMA OnlyTheEra ==
    ASSUME KInv, [RingNext]_RingVars,
           ~ \E season \in Seasons, words \in Words : NextEra(season, words)
    PROVE  /\ rosters' = rosters
           /\ \A x \in Identities : ~(kleos'[x].echo > kleos[x].echo)
<1> DEFINE Quiet == rosters' = rosters /\ \A x \in Identities : ~(kleos'[x].echo > kleos[x].echo)
<1> SUFFICES Quiet
    OBVIOUS
<1>0. \A x \in Identities : kleos[x] \in Score /\ kleos[x].echo \in Nat
    BY BoundsAreNumbers DEF KInv, RingTypeOK, Score
<1>1. ASSUME UNCHANGED <<kleos, rosters>> PROVE Quiet
    BY <1>0, <1>1
<1>2. CASE \E x \in Honest, m \in Messages, seat \in 1 .. Seats : HonestSigns(x, m, seat)
    BY <1>1, <1>2 DEF HonestSigns
<1>3. CASE \E x \in Identities \ Honest, m \in Messages, seat \in 1 .. Seats + 1 :
             OtherSigns(x, m, seat)
    BY <1>1, <1>3 DEF OtherSigns
<1>4. ASSUME NEW who \in Identities, NEW k, kleos' = [kleos EXCEPT ![who] = k],
             k.echo \in {0, kleos[who].echo}, rosters' = rosters
      PROVE  Quiet
    BY <1>0, <1>4 DEF KInv, RingTypeOK
<1>5. ASSUME NEW e \in 1 .. era, NEW seat \in 1 .. Seats, NEW m \in Messages, NEW n \in Messages,
             StripSeat(e, seat, m, n)
      PROVE  Quiet
    <2> DEFINE x == rosters[e][seat]
    <2>1. x \in Identities
        <3>1. rosters[e] \in Seq(Identities) /\ seat \in DOMAIN rosters[e]
            BY <1>5 DEF KInv, RingTypeOK, StripSeat, Convicts, era
        <3> QED BY <3>1
    <2>2. kleos' = [kleos EXCEPT ![x] = Strip(kleos[x])] /\ rosters' = rosters
        BY <1>5 DEF StripSeat
    <2>3. Strip(kleos[x]).echo = 0
        BY DEF Strip
    <2> HIDE DEF x, Quiet
    <2> QED BY <1>4, <2>1, <2>2, <2>3
<1>6. ASSUME NEW x \in Identities, Incident(x) PROVE Quiet
    <2>1. ConvictFraud(kleos[x]).echo = 0
        BY DEF ConvictFraud
    <2>2. PenalizeWitness(kleos[x]).echo = kleos[x].echo /\ PenalizeSponsor(kleos[x]).echo = kleos[x].echo
        BY <1>0 DEF PenalizeWitness, PenalizeSponsor, Score
    <2>3. rosters' = rosters
        BY <1>6 DEF Incident
    <2> HIDE DEF Quiet
    <2>4. CASE Fraud(x)
        <3>1. kleos' = [kleos EXCEPT ![x] = ConvictFraud(kleos[x])]
            BY <2>4 DEF Fraud
        <3> QED BY <1>4, <2>1, <2>3, <3>1
    <2>5. CASE LiableWitness(x)
        <3>1. kleos' = [kleos EXCEPT ![x] = PenalizeWitness(kleos[x])]
            BY <2>5 DEF LiableWitness
        <3> QED BY <1>4, <2>2, <2>3, <3>1
    <2>6. CASE LiableSponsor(x)
        <3>1. kleos' = [kleos EXCEPT ![x] = PenalizeSponsor(kleos[x])]
            BY <2>6 DEF LiableSponsor
        <3> QED BY <1>4, <2>2, <2>3, <3>1
    <2> QED BY <1>6, <2>4, <2>5, <2>6 DEF Incident
<1>7. CASE UNCHANGED RingVars
    BY <1>1, <1>7 DEF RingVars
<1> HIDE DEF Quiet
<1> QED BY <1>2, <1>3, <1>5, <1>6, <1>7 DEF RingNext

\* draw: a candidate is picked by as many words as it has weight, and seats stay
\* empty only when the candidates run out.
THEOREM DrawsAreFair == RingSpec => DrawFollowsTheWeights
<1> DEFINE Fair ==
        rosters' # rosters =>
          LET pool == Candidates(kleos')
              weight == DrawWeights(kleos')
          IN  /\ \A x \in pool :
                   Cardinality({r \in 0 .. WeightOf(pool, weight) - 1 :
                                  Pick(pool, weight, r) = x}) = weight[x]
              /\ Len(rosters'[era + 1])
                   = IF Cardinality(pool) < Seats THEN Cardinality(pool) ELSE Seats
<1>1. ASSUME KInv, KInv', [RingNext]_RingVars PROVE Fair
    <2> SUFFICES ASSUME rosters' # rosters PROVE Fair
        OBVIOUS
    <2> DEFINE pool == Candidates(kleos')
               weight == DrawWeights(kleos')
    <2>1. kleos' \in [Identities -> Score]
        BY <1>1 DEF KInv, RingTypeOK
    <2>2. PICK season \in Seasons, words \in Words : NextEra(season, words)
        BY <1>1, OnlyTheEra
    <2>3. pool \in SUBSET Nat /\ IsFiniteSet(pool) /\ \A x \in pool : weight[x] \in Nat
        BY <2>1, CandidatesWeigh
    <2>4. \A x \in pool : Cardinality({r \in 0 .. WeightOf(pool, weight) - 1 :
                                         Pick(pool, weight, r) = x}) = weight[x]
        <3> HIDE DEF pool, weight
        <3> QED BY <2>3, PicksAreTheWeight
    <2> DEFINE roster == Draw(pool, weight, words, Seats)
    <2>5. Len(roster) = IF Cardinality(pool) < Seats THEN Cardinality(pool) ELSE Seats
        BY <2>1, RostersAreDrawn
    <2>6. rosters' = Append(rosters, roster)
        BY <2>2 DEF NextEra
    <2>7. rosters'[era + 1] = roster
        <3>1. rosters \in Seq(Seq(Identities))
            BY <1>1 DEF KInv, RingTypeOK
        <3> HIDE DEF roster
        <3> QED BY <2>6, <3>1 DEF era
    <2> HIDE DEF roster
    <2> QED BY <2>4, <2>5, <2>7
<1>2. KInv /\ KInv' /\ [RingNext]_RingVars => [Fair]_RingVars
    BY <1>1
<1>3. DrawFollowsTheWeights <=> [][Fair]_RingVars
    BY DEF DrawFollowsTheWeights
<1> HIDE DEF Fair
<1> QED BY <1>2, <1>3, Clean, PTL DEF RingSpec

\* echo_contribution, witness_weight, capped_echo_gain: an Echo grows at the
\* turn of an era, below the cap, and with a peer whose Deed testifies.
THEOREM EchoesAreEarned == RingSpec => EchoIsEarned
<1> DEFINE Earned ==
        \A x \in Identities :
          kleos'[x].echo > kleos[x].echo =>
            /\ Len(rosters') > era
            /\ kleos'[x].echo <= kleos[x].echo + EchoTargetCap - EchoDecay
            /\ \E w \in Identities \ {x} : kleos[w].deed >= WitnessMinDeed
<1>1. ASSUME KInv, [RingNext]_RingVars PROVE Earned
    <2> SUFFICES ASSUME NEW x \in Identities, kleos'[x].echo > kleos[x].echo
                 PROVE  /\ Len(rosters') > era
                        /\ kleos'[x].echo <= kleos[x].echo + EchoTargetCap - EchoDecay
                        /\ \E w \in Identities \ {x} : kleos[w].deed >= WitnessMinDeed
        OBVIOUS
    <2>1. PICK season \in Seasons, words \in Words : NextEra(season, words)
        BY <1>1, OnlyTheEra
    <2> DEFINE gain == EchoGain(season, x)
    <2>2. /\ gain \in 0 .. EchoTargetCap
          /\ gain # 0 => \E w \in Identities \ {x} : kleos[w].deed >= WitnessMinDeed
        BY <1>1, EchoGains DEF KInv, RingTypeOK
    <2> HIDE DEF gain
    <2>3. kleos'[x].echo = Clamped(kleos[x].echo + gain - EchoDecay, EchoMax)
        BY <2>1 DEF NextEra, Aged, AdvanceEra, gain
    <2>4. kleos[x].echo \in Nat /\ EchoDecay \in Nat /\ EchoMax \in Nat /\ EchoTargetCap \in Nat
        BY <1>1, BoundsAreNumbers DEF KInv, RingTypeOK, Score
    <2>5. /\ kleos'[x].echo <= kleos[x].echo + EchoTargetCap - EchoDecay
          /\ gain # 0
        BY <2>2, <2>3, <2>4 DEF Clamped
    <2>6. Len(rosters') > era
        <3>1. rosters \in Seq(Seq(Identities))
            BY <1>1 DEF KInv, RingTypeOK
        <3>2. PICK roster : rosters' = Append(rosters, roster)
            BY <2>1 DEF NextEra
        <3> QED BY <3>1, <3>2 DEF era
    <2> QED BY <2>2, <2>5, <2>6
<1>2. KInv /\ [RingNext]_RingVars => [Earned]_RingVars
    BY <1>1
<1>3. EchoIsEarned <=> [][Earned]_RingVars
    BY DEF EchoIsEarned
<1> HIDE DEF Earned
<1> QED BY <1>2, <1>3, Clean, PTL DEF RingSpec


=============================================================================
