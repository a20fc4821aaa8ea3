SPECIFICATION RiskSpec
CONSTANTS
    Entries = {e1, e2}
    Exits = {x1}
    MarketOrders = {x1}
    Policies <- TwoPolicies
    Default <- Environment
    NoPolicy = NoPolicy
    Held = 1
    MaxMessages = 1
    Window = 2
    MaxChanges = 1
    MaxFaults = 1
SYMMETRY EntrySymmetry
INVARIANTS EntriesAreGoverned MessagesArePaced
PROPERTIES ExposureIsLimited OrderCountIsLimited
CHECK_DEADLOCK FALSE
