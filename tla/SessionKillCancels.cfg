\* A kill while an order works.
SPECIFICATION FairSpec
CONSTANTS
    o1 = o1
    f1 = f1
    Orders <- OneOrder
    FlatOrder = f1
    NoOrder = NoOrder
    NoReason = NoReason
    Earlier <- NoEvents
    Limit <- OneKillOneArm
PROPERTY KillCancelsOwnedOrders
CHECK_DEADLOCK FALSE
