SPECIFICATION MarketFairSpec
CONSTANTS
    Accounts = {a1, a2}
    ZeroAddress = zero
    Markets = {m1}
    Hashes = {h1}
    ZeroHash = zeroHash
    Bets = {0, 1, 2}
    Deadlines = {2, 3}
    ResolutionGrace = 1
    MaxStake = 2
    MaxTime = 5
INVARIANTS
    MarketSound
    SettlementObeysOracle
    PayoutMirrorAgrees
PROPERTIES
    EntitlementsAreFixed
    EveryoneIsPaid
