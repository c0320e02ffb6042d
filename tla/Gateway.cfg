SPECIFICATION BuyerSpec
CONSTANTS
    cheap = cheap
    dear = dear
    Handlers = {h1, b1}
    Clients = {b1}
    Routes = {cheap, dear}
    Price <- CatalogPrice
    Amounts = {0, 1, 2}
    Transactions <- OtherTransactions
    Spellings = {lower, upper}
    Canonical = lower
    QuoteEvict = 0
    MaxQuotes = 2
    MaxTxs = 2
    MaxTime = 1
    MaxRestarts = 1
    Funds = 3
    MaxRedeems = 2
    MaxTries = 2
    MaxFaults = 1
CONSTRAINT
    TrialBound
INVARIANTS
    OnePaymentOneUnlock
    EveryUnlockWasPaid
    GatewayInv
    ReceiptsUnlock
    BuyersPayOnce
