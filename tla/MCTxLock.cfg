SPECIFICATION MCSpec
CONSTANTS
    c1 = c1
    c2 = c2
    c3 = c3
    c4 = c4
    c5 = c5
    c6 = c6
    t1 = t1
    t2 = t2
    Caller = {c1, c2, c3, c4, c5, c6}
    Token = {t1, t2}
    TokenOf <- MCTokenOf
    Request = {1, 2, 3, 4}
    Lane = {t1, t2}
    LaneOf <- MCLaneOf
    MaxFails = 2
INVARIANT LockInv
PROPERTIES
    ImplementsMutex
    ImplementsSerial
    EveryoneIsServed
CHECK_DEADLOCK FALSE
