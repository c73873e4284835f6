CONSTANTS
    Emissions <- MCEmissions
    BlocksPerEclipse = 2
    TreasuryNumerator = 1
    TreasuryDenominator = 4
    TreasuryEclipses = 1
    Maturity = 1
    Treasury = "treasury"
    Before <- IsBefore
    MinFee = 1
    Ids = {1, 2, 3, 4, 5}
    Genesis = 2
    K = 0
    MaxParents = 2
    Times = {0}
    MaxFuture = 0
    Worked = {1, 2, 3, 4, 5}
    MaxHeight = 4
    MaxTxs = 3
    MaxPool = 2
    MaxForeign = 1
    Plain = {5}
    Known = {TRUE, FALSE}
    TwinsAllowed = FALSE
SPECIFICATION Spec
INVARIANTS RunningNodeIsTheReplay LedgerEndsAtTheFrontier Battery ClaimsAreExact
CHECK_DEADLOCK FALSE
