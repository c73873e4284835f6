CONSTANTS
    Emissions <- FlatEmissions
    BlocksPerEclipse = 2
    TreasuryNumerator = 1
    TreasuryDenominator = 4
    TreasuryEclipses = 1
    Maturity = 1
    Treasury = "treasury"
    Before <- IsBefore
    MinFee = 1
    Ids = {1, 2, 3, 4}
    Genesis = 2
    K = 0
    MaxParents = 2
    Times = {0}
    MaxFuture = 0
    Worked = {1, 2, 3, 4}
    MaxHeight = 4
    MaxTxs = 3
    MaxPool = 0
    MaxForeign = 0
    Plain = {}
    Known = {TRUE, FALSE}
    TwinsAllowed = TRUE
SPECIFICATION Spec
INVARIANT EmissionIsUnique
CHECK_DEADLOCK FALSE
