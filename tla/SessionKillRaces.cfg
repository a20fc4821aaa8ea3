\* Kills, clears and armings interleave.
SPECIFICATION Spec
CONSTANTS
    o1 = o1
    f1 = f1
    Orders <- OneOrder
    FlatOrder = f1
    NoOrder = NoOrder
    NoReason = NoReason
    Earlier <- NoEvents
    Limit <- KillAndClear
INVARIANTS
    TypeOK
    ArmedSinceLastKill
