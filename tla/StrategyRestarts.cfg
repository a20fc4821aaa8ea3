SPECIFICATION FairStrategySpec
CONSTANTS
    NoDate = NoDate
    NoCheckpoint = NoCheckpoint
    Dates = {d1}
    Quotes = {1, 2}
    NumBars = 2
    BarTime <- MCBarTime
    Decisions <- MCDecisions
    Stateful = TRUE
    MaxEvents = 2
    PageLimit = 1
    MaxFailures = 1
    MaxApplied = 2
    MaxCrashes = 1
INVARIANTS DecisionsAreRecorded EventsReachCheckpoint
PROPERTIES CompletedBarsAreClosed EventsAreRead BarsAreCompleted
CHECK_DEADLOCK FALSE
