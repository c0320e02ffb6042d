SPECIFICATION LoopFairSpec
CONSTANTS
    stranger = stranger
    s1 = s1  s2 = s2  x1 = x1  x2 = x2
    l1 = l1  d1 = d1  d2 = d2
    Accounts = {wallet, derived, stranger}
    ZeroAddress = zero
    Wallet = wallet
    ProviderWallet = derived
    DemoWallet = wallet
    Specs = {s1, s2}
    Deliverables = {x1, x2}
    ZeroHash = zeroHash
    Sha256 <- MCSha256
    DemoSpec <- MCDemoSpec
    Want <- MCWant
    Garbage = x2
    OtherJobs <- MCOtherJobs
    MaxOthers = 1
    Clients = {l1, d1, d2}
    Loops = {l1}
    Demos = {d1, d2}
    Amounts = {1}
    Escrow = 1
    Bond = 1
    U96 = 8
    MaxJobs = 3
    DisputeWindow = 1
    MaxTime = 3
    MaxTries = 2
    MaxFaults = 1
CONSTRAINT
    TrialBound
INVARIANTS
    EscrowFollowsVerdict
    MoneyIsAccountedFor
PROPERTIES
    ReceiptedBondsComeBack
CHECK_DEADLOCK FALSE
