SPECIFICATION VaultSpec
CONSTANTS
    Accounts = {a1, a2}
    ZeroAddress = zero
    Markets = {m1, m2}
    Hashes = {h1}
    ZeroHash = zeroHash
    MaxTime = 2
    Amounts = {0, 1, 2}
    MaxDeposit = 1
    MaxRebalances = 2
INVARIANTS
    DepositsCanLeave
    VaultInv
PROPERTIES
    ScoresAreFinal
    ImplementsV1
SYMMETRY VaultSymmetry
