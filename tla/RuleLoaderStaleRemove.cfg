CONSTANTS
    NumNames = 2
    TempDurations = {"5m"}
    BadDurations = {"soon"}
    NoRule = NoRule
    Garbage = Garbage
    UserRules <- MCUserRules
    FileContents <- MCFileContents
    InitFiles <- MCInitFiles
    MaxOps = 3
SPECIFICATION FairSpec
PROPERTY WorkerDeletesOnlyRemovedFiles
CHECK_DEADLOCK FALSE
