\* A bracket whose placements are cut off, refused or late, and whose entry is replaced.
SPECIFICATION FairLinkedSpec
CONSTANTS
    e = e
    p = p
    s = s
    t1 = t1
    t2 = t2
    NoTerms = NoTerms
    Orders <- BracketOrders
    Groups <- BracketGroups
    Entries <- OneEntry
    WhatIfOrders <- Nothing
    Terms <- TwoTerms
    TermQuantity <- OneThenTwo
    InitialTerms <- FirstTerms
    Roots <- Nothing
    Versions <- Nothing
    RepeatsCorrected = FALSE
    MaxRevision = 30
    Brackets <- OneBracket
    OcaGroups <- Nothing
    MaxReplacements = 1
    MaxFaults = 1
INVARIANTS
    GroupClaimedTogether
    EntriesAreProtected
    ClosedLegsAreDead
PROPERTIES
    FailedGroupsAreWithdrawn
    OutcomesAreLearned
CHECK_DEADLOCK FALSE
