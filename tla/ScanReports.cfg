SPECIFICATION MCSpec
CONSTANTS
    BaseName <- MCBaseName
    CanaryBase <- MCCanaryBase
    FortifyBase <- MCFortifyBase
    Fortifiable <- MCFortifiable
    Library <- MCLibrary
    LibcLibrary <- MCLibcLibrary
    RunEntry <- MCRunEntry
    EntryRisk <- MCEntryRisk
    Path <- MCPath
    Dir <- MCDir
    Entries <- MCEntries
    Inode <- MCInode
    NoInode = NoInode
    NoImage = NoImage
    Content <- ExitContent
    Job <- CommandJobs
    MaxWrites = 2
    InPlace = FALSE
CHECK_DEADLOCK FALSE
INVARIANTS
    TypeOK
    SnapshotReports
    FullRelroIsBoundNow
    ExitZeroSound
    ExitTwoJustified
    VerdictIsPublished
