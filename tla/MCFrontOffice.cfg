SPECIFICATION MCSpec
CONSTANTS
    Req = {1, 2}
    Asked <- MCAsked
    AiKeys = 2
    MaxRounds = 2
    MaxTools = 1
    Tools <- MCTools
    Alert = {"a1", "a2"}
    Checker = {1, 2}
    Job = {"j1"}
    Expr <- MCExpr
    DayTicks = 6
    Silence = 2
    Pair = {"p1", "p2"}
    MaxPairs = 1
    ForgetAfter = 2
    Quiet = 2
    Updates = 3
    MaxBoots = 1
INVARIANTS
    WorkIsDoneOnce
PROPERTIES
    SpentStaysSpent
    RequestsAreHandled
CHECK_DEADLOCK FALSE
