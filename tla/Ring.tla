-------------------------------- MODULE Ring --------------------------------
(***************************************************************************)
(* The finality layer (antumbra-ring/src) over the reputation machine: the *)
(* roster of an era is drawn among the candidates, its seats sign          *)
(* checkpoints, a quorum makes a message final, and two signatures of one  *)
(* seat over two messages of one sequence reset the score of its holder.   *)
(*                                                                         *)
(* The crates are libraries: who calls them (the turn of the era, the      *)
(* relay of a checkpoint from signer to signer, the consumer of the        *)
(* evidence) is external and taken from the ADRs.  A key stands for its    *)
(* identity, a signature for the fact that a key signed a message.  Seats  *)
(* are counted from one here, from zero in the code.                       *)
(***************************************************************************)
EXTENDS Kleos

CONSTANTS
    Identities,     \* ascending: naturals
    Honest,         \* the identities that sign one message per sequence
    Seats, RingQuorum,
    Messages,       \* the messages that may be signed
    Seasons,        \* what the chain may observe over an era
    Words,          \* the word streams of the draws
    MaxEras,        \* bound: the eras that pass
    MaxIncidents    \* bound: frauds, liabilities and impostures, all told

ASSUME RingAssumption ==
    /\ Identities \subseteq Nat
    /\ IsFiniteSet(Identities)
    /\ Honest \subseteq Identities
    /\ Seats \in Nat
    /\ RingQuorum \in Nat
    /\ \A m \in Messages : m.era \in Nat \ {0} /\ m.sequence \in Nat \ {0}
    \* The Echo is attested by peers, and the stream of words does not end.
    /\ \A season \in Seasons :
         /\ season.accrual \in [Identities -> Nat]
         /\ \A x \in Identities : <<x, x>> \notin season.attests
    /\ \A words \in Words : words \in Seq(Nat) /\ Len(words) >= Seats

VARIABLES
    kleos,       \* identity -> score
    rosters,     \* era -> the holders of its seats, in order
    signatures,  \* every signature ever made, under the seat it was made for
    sanctions    \* observer: who was sanctioned, when and how

RingVars == <<kleos, rosters, signatures, sanctions>>

era == Len(rosters)

\* A roster: at most Seats keys, each once.
IsRoster(keys) ==
    /\ keys \in Seq(Identities)
    /\ Len(keys) <= Seats
    /\ IsInjective(keys)

RingInit ==
    /\ kleos = [x \in Identities |-> Fresh]
    /\ rosters = << <<>> >>
    /\ signatures = {}
    /\ sanctions = {}

----------------------------------------------------------------------------
(* The turn of an era.                                                     *)

\* What an identity gained: a clique pools its deeds, and attestations inside
\* it are worth a tenth.
DeedGain(season, x) ==
    IF x \in season.clique THEN PooledDeed(season.accrual[x]) ELSE season.accrual[x]

EchoGain(season, x) ==
    CappedEchoGain(
        [w \in {v \in Identities : <<v, x>> \in season.attests} |->
            EchoContribution(kleos[w],
                IF {w, x} \subseteq season.clique THEN MutualEcho(EchoBudget) ELSE EchoBudget)])

Aged(season) ==
    [x \in Identities |-> AdvanceEra(kleos[x], DeedGain(season, x), EchoGain(season, x))]

\* The candidates and their weights, once the scores are up to date.
Candidates(scores) == {x \in Identities : IsRingCandidate(scores[x])}

DrawWeights(scores) == [x \in Identities |-> Total(scores[x])]

NextEra(season, words) ==
    /\ era < MaxEras
    /\ kleos' = Aged(season)
    /\ LET roster == Draw(Candidates(kleos'), DrawWeights(kleos'), words, Seats)
       IN  /\ IsRoster(roster)
           /\ rosters' = Append(rosters, roster)
    /\ UNCHANGED <<signatures, sanctions>>

----------------------------------------------------------------------------
(* Checkpoints.  A checkpoint is a message and the list of its collected   *)
(* signatures; anybody may assemble one from the signatures there are.     *)

\* Mutant: a seat may be listed again.
DecodesAgain(copy) ==
    /\ Len(copy) <= Seats
    /\ \A i, j \in DOMAIN copy : i < j => copy[i].seat <= copy[j].seat

\* What decode asks of the signatures of a checkpoint.
Decodes(copy) ==
    /\ Len(copy) <= Seats
    /\ \A i, j \in DOMAIN copy : i < j => copy[i].seat < copy[j].seat

\* The checkpoints on m that a node may be handed.
Checkpoints(m) == {copy \in SeqOf({s \in signatures : s.message = m}, Seats) : Decodes(copy)}

\* sign, on the copy at hand: the key is not compared with the roster, nor the
\* seat with its size.
Sign(m, copy, seat, key) ==
    /\ Len(copy) < Seats
    /\ \A i \in DOMAIN copy : copy[i].seat # seat
    /\ signatures' = signatures \cup {[message |-> m, seat |-> seat, key |-> key]}

HoldsSeat(x, seat, e) ==
    e \in DOMAIN rosters /\ seat \in DOMAIN rosters[e] /\ rosters[e][seat] = x

\* A node that follows the protocol signs in its own seat of the era at hand
\* and one message of a sequence.
HonestSigns(x, m, seat) ==
    /\ m.era = era
    /\ HoldsSeat(x, seat, era)
    /\ \A s \in signatures :
         s.key = x /\ s.message.era = m.era /\ s.message.sequence = m.sequence => s.message = m
    /\ \E copy \in Checkpoints(m) : Sign(m, copy, seat, x)
    /\ UNCHANGED <<kleos, rosters, sanctions>>

Impostures == {s \in signatures : ~HoldsSeat(s.key, s.seat, s.message.era)}

Incidents == {s \in sanctions : s.kind # "strip"}

MayErr == Cardinality(Impostures) + Cardinality(Incidents) < MaxIncidents

\* A node that does not may sign anything, under any seat, but with its key.
OtherSigns(x, m, seat) ==
    /\ HoldsSeat(x, seat, m.era) \/ MayErr
    /\ \E copy \in Checkpoints(m) : Sign(m, copy, seat, x)
    /\ UNCHANGED <<kleos, rosters, sanctions>>

IsFinal(copy) == Len(copy) >= RingQuorum

\* The roster must govern the era of the message, every seat must be held and
\* sign with the key the roster has for it.
Verifies(m, copy, e) ==
    /\ e = m.era
    /\ \A i \in DOMAIN copy : HoldsSeat(copy[i].key, copy[i].seat, e)

\* Some node may be handed a checkpoint that finalizes m.
Finalized(m) ==
    \E e \in DOMAIN rosters, copy \in Checkpoints(m) : Verifies(m, copy, e) /\ IsFinal(copy)

----------------------------------------------------------------------------
(* Sanctions.                                                              *)

HasSigned(key, m) == \E s \in signatures : s.key = key /\ s.message = m

\* Mutant: the sequences are not compared.
ConvictsAcross(e, seat, m, n) ==
    /\ seat \in DOMAIN rosters[e]
    /\ m.era = e /\ n.era = e
    /\ m # n
    /\ HasSigned(rosters[e][seat], m) /\ HasSigned(rosters[e][seat], n)

\* The evidence verifies against the roster of era e.
Convicts(e, seat, m, n) ==
    /\ seat \in DOMAIN rosters[e]
    /\ m.era = e /\ n.era = e
    /\ m.sequence = n.sequence
    /\ m # n
    /\ HasSigned(rosters[e][seat], m) /\ HasSigned(rosters[e][seat], n)

Sanctioned(x, kind) == sanctions' = sanctions \cup {[who |-> x, era |-> era, kind |-> kind]}

\* Evidence may come late, in a later era, and again.
StripSeat(e, seat, m, n) ==
    /\ Convicts(e, seat, m, n)
    /\ kleos' = [kleos EXCEPT ![rosters[e][seat]] = Strip(@)]
    /\ Sanctioned(rosters[e][seat], "strip")
    /\ UNCHANGED <<rosters, signatures>>

\* The sanctions of R3, which other layers decide.
Fraud(x) ==
    /\ kleos' = [kleos EXCEPT ![x] = ConvictFraud(@)]
    /\ Sanctioned(x, "fraud")

LiableWitness(x) ==
    /\ kleos' = [kleos EXCEPT ![x] = PenalizeWitness(@)]
    /\ Sanctioned(x, "witness")

LiableSponsor(x) ==
    /\ kleos' = [kleos EXCEPT ![x] = PenalizeSponsor(@)]
    /\ Sanctioned(x, "sponsor")

Incident(x) ==
    /\ MayErr
    /\ Fraud(x) \/ LiableWitness(x) \/ LiableSponsor(x)
    /\ UNCHANGED <<rosters, signatures>>

----------------------------------------------------------------------------

RingNext ==
    \/ \E season \in Seasons, words \in Words : NextEra(season, words)
    \/ \E x \in Honest, m \in Messages, seat \in 1 .. Seats : HonestSigns(x, m, seat)
    \/ \E x \in Identities \ Honest, m \in Messages, seat \in 1 .. Seats + 1 :
         OtherSigns(x, m, seat)
    \/ \E e \in 1 .. era, seat \in 1 .. Seats, m, n \in Messages : StripSeat(e, seat, m, n)
    \/ \E x \in Identities : Incident(x)

RingSpec == RingInit /\ [][RingNext]_RingVars

----------------------------------------------------------------------------
(* Properties.                                                             *)

RingTypeOK ==
    /\ kleos \in [Identities -> Score]
    /\ rosters \in Seq(Seq(Identities)) /\ rosters # <<>>
    /\ \A e \in DOMAIN rosters : IsRoster(rosters[e])
    /\ signatures \subseteq [message : Messages, seat : 1 .. Seats + 1, key : Identities]
    /\ sanctions \subseteq [who : Identities, era : 1 .. era,
                             kind : {"strip", "fraud", "witness", "sponsor"}]

\* Two final messages of one sequence convict a third of the Ring: whoever
\* finalizes a fork leaves evidence, which any node can check, against at
\* least 2 RingQuorum - Seats seats (19 of 55).
ForkConvicts ==
    \A m, n \in Messages :
        m # n /\ m.era = n.era /\ m.sequence = n.sequence /\ Finalized(m) /\ Finalized(n) =>
            Cardinality({seat \in 1 .. Seats : Convicts(m.era, seat, m, n)}) >= 2 * RingQuorum - Seats

\* No evidence can be made against a node that follows the protocol, whatever
\* the others sign, under whatever seat, in whatever era.
HonestAreNeverStripped ==
    \A s \in sanctions : s.kind = "strip" => s.who \notin Honest

\* A fraud or a fork closes the Ring forever: no later roster seats who was
\* convicted, however the score recovers.
ConvictedNeverSit ==
    \A s \in sanctions : s.kind \in {"strip", "fraud"} =>
        \A e \in s.era + 1 .. era : s.who \notin ToSet(rosters[e])

\* At every turn of an era a candidate is picked by as many words as it has
\* weight, whoever else is in the pool and wherever it stands in it; and seats
\* stay empty only when the candidates run out.
DrawFollowsTheWeights ==
    [][ rosters' # rosters =>
          LET pool == Candidates(kleos')
              weight == DrawWeights(kleos')
          IN  /\ \A x \in pool :
                   Cardinality({r \in 0 .. WeightOf(pool, weight) - 1 :
                                  Pick(pool, weight, r) = x}) = weight[x]
              /\ Len(rosters'[era + 1])
                   = IF Cardinality(pool) < Seats THEN Cardinality(pool) ELSE Seats ]_RingVars

\* An Echo grows only at the turn of an era, by less than the cap of a target,
\* and only when some other identity has the Deed to testify: a farm of fresh
\* witnesses inflates nothing.
EchoIsEarned ==
    [][ \A x \in Identities :
          kleos'[x].echo > kleos[x].echo =>
            /\ Len(rosters') > era
            /\ kleos'[x].echo <= kleos[x].echo + EchoTargetCap - EchoDecay
            /\ \E w \in Identities \ {x} : kleos[w].deed >= WitnessMinDeed ]_RingVars

=============================================================================
