SPECIFICATION Spec
CONSTANTS
    t1 = t1
    t2 = t2
    Token = {t1, t2}
    Price = {0, 1, 3}
    MaxSignals = 2
    Deployment <- MCDeployment
    None = None
    MaxCrash = 1
INVARIANTS
    BooksAgree
PROPERTIES
    HistoryIsFinal
    ExitIsAClose
SYMMETRY MCSymmetry
ACTION_CONSTRAINTS
    SaveIsRead
    Slice
CHECK_DEADLOCK FALSE
