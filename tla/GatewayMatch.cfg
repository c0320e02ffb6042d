SPECIFICATION GatewaySpec
CONSTANTS
    cheap = cheap
    dear = dear
    Handlers = {h1, h2}
    Routes = {cheap, dear}
    Price <- CatalogPrice
    Amounts = {0, 1, 2}
    Transactions <- ClientTransactions
    Spellings = {lower, upper}
    Canonical = lower
    QuoteEvict = 0
    MaxQuotes = 2
    MaxTxs = 2
    MaxTime = 1
    MaxRestarts = 1
INVARIANT FullPaymentUnlocks
