SPECIFICATION MCSpec
CONSTANTS
    zero = zero
    shop = shop
    desk = desk
    other = other
    Mandates <- MCMandates
    Version = 0
    AmountCeiling = 4
    MaxDests = 2
    Zero = zero
    Dests = {zero, shop, desk}
    Amounts = {0, 1, 3}
    Batches <- MCBatches
    BatchMax = 2
    NonceSpan = 3
    TickMax = 5
    DrainDelay = 2
    Rate = 2
    Cap = 3
    Facts = {"payment"}
    Salts = {1, 2}
    Jobs <- MCJobs
    BountyCeiling = 5
    BondCeiling = 3
    MaxReviewers = 5
    ContestWindow = 2
    Unit = 4
    SlashFraction = 4
    CertExpiry = 3
    Scores = {399, 400, 700, 900}
    FactorSets <- MCFactorSets
    Offers <- MCOffers
    MaxBids = 3
    Base = 2
    Groups = 3
    MaxInputs = 2
    MaxOutputs = 2
    MaxExtra = 4
    HeightWidth = 1
    MaxParents = 3
    MaxTxs = 2
    Seats = 3
    Points = {1, 2}
    Addresses = {1, 2}
    Chunk = 10
    FeeBase = 1
    FeePerChunk = 2
    MaxAmount = 7
    Digest <- MCDigest
    Containers0 <- MCContainers
    Tokens <- MCTokens
    MaxFaults = 2
INVARIANT PaidIsForGood
CHECK_DEADLOCK FALSE
