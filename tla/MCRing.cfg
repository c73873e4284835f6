SPECIFICATION RingSpec
CONSTANTS
    a = a
    b = b
    DeedMax = 4
    EchoMax = 3
    TenureMax = 3
    DeedDecay = 1
    EchoDecay = 1
    EchoBudget = 8
    EchoTargetCap = 4
    WMin = 150
    WitnessMinDeed = 2
    RingThreshold = 5
    RingMinTenure = 1
    WitnessPenalty = 1
    SponsorPenalty = 2
    Identities = {1, 2, 3, 4}
    Honest = {1, 2, 3}
    Seats = 3
    RingQuorum = 2
    Messages <- MCMessages
    Seasons <- MCSeasons
    Words <- MCWords
    MaxEras = 3
    MaxIncidents = 1
INVARIANTS ForkConvicts HonestAreNeverStripped ConvictedNeverSit
PROPERTIES DrawFollowsTheWeights EchoIsEarned
CHECK_DEADLOCK FALSE
