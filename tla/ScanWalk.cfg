SPECIFICATION MCSpec
CONSTANTS
    BaseName <- MCBaseName
    CanaryBase <- MCCanaryBase
    FortifyBase <- MCFortifyBase
    Fortifiable <- MCFortifiable
    Library <- MCLibrary
    LibcLibrary <- MCLibcLibrary
    RunEntry <- MCRunEntry
    EntryRisk <- MCEntryRisk
    Path <- WalkPath
    Dir <- MCDir
    Entries <- WalkEntries
    Inode <- WalkInode
    NoInode = NoInode
    NoImage = NoImage
    Content <- WalkContent
    Job <- WalkJobs
    MaxWrites = 2
    InPlace = FALSE
CHECK_DEADLOCK FALSE
INVARIANTS
    StableElfCollected
    DirErrorsExplained
