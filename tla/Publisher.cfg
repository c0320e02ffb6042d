SPECIFICATION PublisherSpec
CONSTANTS
    Accounts = {wallet, other}
    ZeroAddress = zero
    Wallet = wallet
    Markets = {m1}
    Clients = {r1, r2}
    Commands <- MCCommands
    Hashes <- MCHashes
    ZeroHash = zeroHash
    Keys = {k1, k2}
    Ephemeral = ephemeral
    NoKey = noKey
    MaxTime = 2
    MaxTries = 2
    MaxFaults = 1
INVARIANTS
    OracleInv
    ReportsAreTrue
    VerdictsAreRight
PROPERTIES
    ImplementsRegistry
CHECK_DEADLOCK FALSE
CONSTRAINT OthersBound
SYMMETRY PublisherSymmetry
