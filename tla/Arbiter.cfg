SPECIFICATION ArbiterSpec
CONSTANTS
    Accounts = {a1, a2}
    ZeroAddress = zero
    This = this
    Payments = {p1, p2}
    Hashes = {h1, h2}
    ZeroHash = zeroHash
    Amounts = {0, 1}
    Windows = {0, 1}
    Recipients = {recipient}
    Lockups = {0, 1}
    MaxTime = 3
INVARIANTS
    ArbiterInv
PROPERTIES
    RulingsAreFinal
    RefundsFollowEvidence
    BondsInTrust
SYMMETRY ArbiterSymmetry
