SPECIFICATION Spec
CONSTANTS
    Request = {"buy", "again", "swap"}
    Alike = {{"buy", "again"}, {"swap"}}
    Swap = {"swap"}
    Solana = {"swap"}
    MaxSec = 2
    MaxCrash = 1
INVARIANTS
    NonceIsSpent
    ReportIsTrue
CHECK_DEADLOCK FALSE
