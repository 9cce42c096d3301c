SPECIFICATION MCSpec
CONSTANTS
    BaseName <- MCBaseName
    CanaryBase <- MCCanaryBase
    FortifyBase <- MCFortifyBase
    Fortifiable <- MCFortifiable
    Library <- MCLibrary
    LibcLibrary <- MCLibcLibrary
    RunEntry <- MCRunEntry
    EntryRisk <- MCEntryRisk
    Path <- MCPath
    Dir <- MCDir
    Entries <- MCEntries
    Inode <- MCInode
    NoInode = NoInode
    NoImage = NoImage
    Content <- PatchContent
    Job <- FileJobs
    MaxWrites = 2
    InPlace = TRUE
CHECK_DEADLOCK FALSE
INVARIANTS
    GatesAgree
    StackColumnsAgree
