CONSTANTS
    BlocksPerEclipse = 3
    TreasuryNumerator = 1
    TreasuryDenominator = 4
    TreasuryEclipses = 1
    Maturity = 2
    Treasury = "treasury"
    Heights = {0, 1, 2, 3}
    MaxSlots = 7
    Emissions <- MCEmissions
    Payloads <- MCPayloads
    Before <- IsBefore
SPECIFICATION LedgerSpec
INVARIANTS FirstSpenderWins EveryOutputIsOnOneSide SupplyIsTheEmission TreasuryGetsItsShare
PROPERTIES SpendsWaitAndLast
CHECK_DEADLOCK FALSE
