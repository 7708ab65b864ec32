CONSTANTS
    NumNames = 2
    TempDurations = {"5m"}
    BadDurations = {"soon"}
    NoRule = NoRule
    Garbage = Garbage
    UserRules <- MCUserRules
    FileContents <- MCFileContents
    InitFiles <- MCInitFiles
    MaxOps = 3
SPECIFICATION FairSpec
INVARIANTS
    TypeOK
    SnapshotIsActiveRules
    TempRuleHasTimer
    AlwaysRuleHasFile
PROPERTIES
    TempRulesExpire
    ComesToRest
CHECK_DEADLOCK FALSE
