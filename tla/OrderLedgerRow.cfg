\* One order, also previewed, two versions of its terms, two execution roots with corrections.
SPECIFICATION Spec
CONSTANTS
    o1 = o1
    t1 = t1
    t2 = t2
    NoTerms = NoTerms
    Orders <- OneOrder
    Groups <- NoGroups
    Entries <- NoGroups
    WhatIfOrders <- OneOrder
    Terms <- TwoTerms
    TermQuantity <- OneThenTwo
    InitialTerms <- FirstTerms
    Roots = {"r1", "r2"}
    Versions = {1, 2}
    RepeatsCorrected = TRUE
    MaxRevision = 10
INVARIANTS
    TypeOK
    ClaimedOnce
PROPERTIES
    TerminalNeverReopens
    RevisionIdentifiesContent
    TermsChangeByReplacement
    ImplementsPermission
CHECK_DEADLOCK FALSE
