\* The funding contract with a free open interest, the funder and other keepers.
SPECIFICATION FunderSpec
CONSTANTS
    admin = admin
    NoAddress = NoAddress
    Admins = {admin}
    U32Range = 1073741824
    FundingIntervals = {0, 2, 3}
    MaxRates = {0, 3, 10}
    Spreads = {0, 5}
    OpenInterests = {0, 1, 1000, 1001}
    MaxTime = 8
    FunderInterval = 2
    MaxDelay = 1
INVARIANTS
    FrTypeOK
    FundingPace
    FundingIsFunded
    FundingLag
