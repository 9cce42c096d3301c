SPECIFICATION MCFairSpec
CONSTANTS
    BaseName <- MCBaseName
    CanaryBase <- MCCanaryBase
    FortifyBase <- MCFortifyBase
    Fortifiable <- MCFortifiable
    Library <- MCLibrary
    LibcLibrary <- MCLibcLibrary
    RunEntry <- MCRunEntry
    EntryRisk <- MCEntryRisk
    Path <- MCPath
    Dir <- MCDir
    Entries <- MCEntries
    Inode <- MCInode
    NoInode = NoInode
    NoImage = NoImage
    Content <- AtomicContent
    Job <- AtomicJobs
    MaxWrites = 1
    InPlace = FALSE
CHECK_DEADLOCK FALSE
PROPERTIES
    ImplementsAtomicScan
    Termination
    NeverBack
