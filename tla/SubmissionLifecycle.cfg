\* One process: partial fills, a cancellation or an audit, a crash, a restart, reconciliation.
SPECIFICATION FairSubmissionSpec
CONSTANTS
    o1 = o1
    p1 = p1
    p2 = p2
    t1 = t1
    Processes = {p1}
    NoProcess = NoProcess
    NoOrder = NoOrder
    NoStatus = NoStatus
    NoSnapshot = NoSnapshot
    NoTerms = NoTerms
    Orders <- OneOrder
    Groups <- NoGroups
    Entries <- NoGroups
    WhatIfOrders <- NoGroups
    Terms <- OneTerm
    TermQuantity <- Two
    InitialTerms <- FirstTerms
    Roots = {1, 2}
    Versions = {1}
    RepeatsCorrected = TRUE
    MaxRevision = 40
    MaxRequests = 1
    MaxScans = 0
    MaxCrashes = 1
    MaxExpiries = 1
INVARIANTS
    OutcomesAreTrue
    FillsNeverOverstated
PROPERTIES
    OutcomeIsLearned
CHECK_DEADLOCK FALSE
