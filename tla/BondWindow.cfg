SPECIFICATION BondSpec
CONSTANTS
    Accounts = {a1, a2}
    ZeroAddress = zero
    Specs = {r1}
    Deliverables = {d1}
    ZeroHash = zeroHash
    Amounts = {1}
    U96 = 4
    MaxJobs = 1
    DisputeWindow = 1
    MaxTime = 4
PROPERTY
    FullWindowToChallenge
