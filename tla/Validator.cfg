SPECIFICATION SettlementSpec
CONSTANTS
    Accounts = {a1, a2}
    ZeroAddress = zero
    Publisher = a1
    Agents = {1}
    Requests = {r1, r2}
    Hashes = {h1}
    ZeroHash = zeroHash
    Clients = {c1}
    JobsPerRun = 2
    MaxTime = 2
    MaxTries = 2
    MaxFaults = 1
INVARIANTS
    ValidatorInv
    SummariesAddUp
    EscrowMatchesVerdict
PROPERTIES
    ImplementsRegistry
SYMMETRY ValidatorSymmetry
CHECK_DEADLOCK FALSE
