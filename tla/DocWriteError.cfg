SPECIFICATION DocSpec
CONSTANTS
    BaseName <- MCBaseName
    CanaryBase <- MCCanaryBase
    FortifyBase <- MCFortifyBase
    Fortifiable <- MCFortifiable
    Library <- MCLibrary
    LibcLibrary <- MCLibcLibrary
    RunEntry <- MCRunEntry
    EntryRisk <- MCEntryRisk
    Path <- SweepPath
    Dir <- SweepDir
    Entries <- SweepEntries
    Inode <- SweepInode
    Arg <- SweepArg
    Lex <- SweepLex
    NoValue = NoValue
    NoLayout = NoLayout
    NoInode = NoInode
    NoImage = NoImage
    CanarySymbol <- canary
    Content <- LazyContent
    Job <- TableJob
    MaxWrites = 0
    InPlace = FALSE
CHECK_DEADLOCK FALSE
INVARIANT
    VerdictIsPrinted
