SPECIFICATION Spec
CONSTANTS
    o1 = o1
    o2 = o2
    o3 = o3
    t1 = t1
    Order = {o1, o2, o3}
    Token = {t1}
    Caller <- MCCaller
    TokenOf <- MCTokenOf
    Want <- MCWant
    MinFills = 1
    MaxNotional = 2
    Cap = 2
    Modes = {TRUE, FALSE}
    ConfigCall = {1}
    MaxCrash = 1
SYMMETRY MCSymmetry
CHECK_DEADLOCK FALSE
INVARIANT AutoExecutedNotPending
