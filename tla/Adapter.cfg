SPECIFICATION AdapterSpec
CONSTANTS
    Callers = {c1, c2}
    FirstRequest = 1
    FirstOrder = 2
    RowCount = 2
    MaxCalls = 3
    MaxTimeouts = 2
    MaxErrors = 1
    MaxNotices = 1
    MaxConnects = 2
    Readers = {r1, r2}
    Orders = {o1, o2}
    Instruments = {i1}
    MaxReadings = 2
    MaxQueryTimeouts = 1
    MaxChanges = 2
SYMMETRY AdapterSymmetry
INVARIANTS CallsGetTheirAnswers OrderIdsAreFresh  
CHECK_DEADLOCK FALSE
