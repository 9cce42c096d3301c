SPECIFICATION MCSpec
CONSTANTS
    None = None
    Platform = {"github", "gitcode"}
    Version = {"v1.0.0", "vNext"}
    WellFormed = {"v1.0.0"}
    Commit = {"c1", "c2", "red"}
    Green = {"c1", "c2"}
    Toolchain = {"go1.24.1", "go1.24.2"}
    Target = {"linux", "darwin"}
    MaxRuns = 2
    MaxFaults = 2
INVARIANTS ReleaseTypes AssetsFromTag OnlyGated
PROPERTIES PublishedIsFinal GreenMeansPublished PushedTagIsReleased
CHECK_DEADLOCK FALSE
