SPECIFICATION KeeperFairSpec
CONSTANTS
    Accounts = {a1, a2}
    Bot = a1
    ZeroAddress = zero
    Hashes = {1, 2, 3, 4}
    ZeroHash = 0
    Amounts = {1}
    MaxDeposit = 1
    MaxRebalances = 20
    Runs = {r1, r2}
    Attestations <- Feed
    minSmartWallets = 3
    flowMinUsd = 5
    MaxTries = 2
    MaxFaults = 1
    MaxIssues = 1
    OtherHashes = {1}
    MaxOthers = 1
CONSTRAINT
    TrialBound
INVARIANTS
    KeeperInv
PROPERTIES
    UndisturbedRunsFlip
    FollowsTheFeed
