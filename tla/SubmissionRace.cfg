\* Two processes race for one order; a TTL scan, a crash and a lost lease interfere.
SPECIFICATION SubmissionSpec
CONSTANTS
    o1 = o1
    p1 = p1
    p2 = p2
    t1 = t1
    Processes = {p1, p2}
    NoProcess = NoProcess
    NoOrder = NoOrder
    NoStatus = NoStatus
    NoSnapshot = NoSnapshot
    NoTerms = NoTerms
    Orders <- OneOrder
    Groups <- NoGroups
    Entries <- NoGroups
    WhatIfOrders <- NoGroups
    Terms <- OneTerm
    TermQuantity <- Unit
    InitialTerms <- FirstTerms
    Roots = {1}
    Versions = {1}
    RepeatsCorrected = TRUE
    MaxRevision = 40
    MaxRequests = 0
    MaxScans = 1
    MaxCrashes = 1
    MaxExpiries = 1
INVARIANTS
    AtMostOneTransmission
    OutcomesAreTrue
SYMMETRY ProcessSymmetry
CHECK_DEADLOCK FALSE
