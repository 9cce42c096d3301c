SPECIFICATION SweepSpec
CONSTANTS
    BaseName <- MCBaseName
    CanaryBase <- MCCanaryBase
    FortifyBase <- MCFortifyBase
    Fortifiable <- MCFortifiable
    Library <- MCLibrary
    LibcLibrary <- MCLibcLibrary
    RunEntry <- MCRunEntry
    EntryRisk <- MCEntryRisk
    Path <- SweepPath
    Dir <- SweepDir
    Entries <- SweepEntries
    Inode <- SweepInode
    Arg <- SweepArg
    Lex <- SweepLex
    NoValue = NoValue
    NoLayout = NoLayout
    NoInode = NoInode
    NoImage = NoImage
    CanarySymbol <- canary
    Content <- AllContent
    Job <- SweepJobs
    MaxWrites = 0
    InPlace = FALSE
CHECK_DEADLOCK FALSE
INVARIANTS
    GatesAgree
    StackColumnsAgree
    ExitZeroSound
    ExitTwoJustified
    StripKeepsVerdicts
    StripInventsNothing
    HardeningMonotone
    ScannedAsAsked
    LayoutIsVisible
    PrintedVerdict
