\* Kills, clears, connection losses, failed reconciliations and audits, under fairness.
SPECIFICATION FairSpec
CONSTANTS
    o1 = o1
    f1 = f1
    Orders <- OneOrder
    FlatOrder = f1
    NoOrder = NoOrder
    NoReason = NoReason
    Earlier <- NoEvents
    Limit <- Faults
PROPERTIES
    KillReachesProcess
    SessionRecovers
