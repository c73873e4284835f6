SPECIFICATION MCSpec
CONSTANTS
    r1 = r1
    r2 = r2
    r3 = r3
    canary = canary
    i1 = i1
    i2 = i2
    f1 = f1
    f2 = f2
    f3 = f3
    f4 = f4
    p1 = p1
    overflow = overflow
    Reporters = {r1, r2, r3, canary}
    Canaries = {canary}
    Invariants = {i1, i2}
    Quorum = 2
    Window = 1
    Kinds <- MCKinds
    Top = 2
    MaxAlerts = 3
    MaxChecks = 1
    Families = {f1, f2, f3, f4}
    FamilySlots = 3
    Overflow = overflow
    Weights = {3, 4}
    MaxVotes = 2
    QuorumFamilies = 3
    QuorumWeight = 12
    FamilyCap = 330
    OperatorCap = 80
    MinBuilders = 2
    FactSets <- MCFactSets
    Proposals = {p1}
    RampStages <- MCRampStages
    Params = {"ghostdag_k"}
    Bands <- Genesis
    Cooldown = 2
    Values = {3, 4, 16, 17}
    MaxChanges = 3
SYMMETRY Symmetry
VIEW View
INVARIANTS
    FreezeHasEvidence
    RampIsClimbed
    ChangesAreSpaced
    ThreeAreABloc
PROPERTIES
    AgreementFreezes
CHECK_DEADLOCK FALSE
