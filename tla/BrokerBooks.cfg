SPECIFICATION FairBooksSpec
CONSTANTS
    Own = {e1}
    Foreign = {f}
    NoExec = NoExec
    MaxCrashes = 1
    MaxAdoptions = 1
    MaxStatements = 1
    MaxPolls = 2
    MaxInbox = 3
INVARIANT ReadyBooksAreComplete
PROPERTIES ExecutionsAreStored ForeignTradesSurface
CHECK_DEADLOCK FALSE
