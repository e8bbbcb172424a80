SPECIFICATION MCSpec
CONSTANTS
    Candidates <- MCCandidates
    ConvictionTTL = 1
    Cooldown = 2
    LearnedAtStart <- MCLearned
    MaxNow = 2
    KillCooldown = 3
    Required = 2
    MaxLosses = 2
    Limits <- MCLimits
    Drops <- MCDrops
    Amounts <- MCAmounts
    Names <- MCNames
    Code = {"shipped", "loops", "throws", "torn"}
    Behaviour <- MCBehaviour
    MaxFaults = 1
    Pairs <- MCPairs
    SliceSize = 1
    MaxDetailCalls = 1
    Trades = {"t1", "t2", "t3"}
    BucketOf <- MCBucketOf
    MinSamples = 2
    MinPerBucket = 1
    Handle = {"ann", "bob", "cat"}
    Wallet = {"s1", "s2", "e1"}
    Window = {"24h", "7d"}
    Answers <- MCAnswers
    FreshFor <- MCFreshFor
    BoardTtl = 1
    MaxAge = 4
    Migrations <- MCMigrations
    Unparsable = {"traders"}
    MaxLives = 1
    Ids = {"x"}
INVARIANTS
    RestartRemembers
ACTION_CONSTRAINTS
    Slice
CHECK_DEADLOCK FALSE
