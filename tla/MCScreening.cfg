SPECIFICATION FairSpec
CONSTANTS
    real = real
    phantom = phantom
    Tokens <- MCTokens
    Real <- MCReal
    Priority <- MCPriority
    RecallOnly <- MCRecallOnly
    Extras <- MCExtras
    CooldownAware <- MCCooldownAware
    QuotaTicks = 4
    FreshTTL = 0
    MaxNow = 1
    MaxPass = 2
    MaxResearch = 1
INVARIANTS
    CandidatesAreVouched
    DiscardedPassIsSilent
PROPERTIES
    DeadStaysDead
    PassesEnd
ACTION_CONSTRAINTS
    Slice
CHECK_DEADLOCK FALSE
