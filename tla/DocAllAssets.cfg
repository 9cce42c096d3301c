SPECIFICATION HubSpec
CONSTANTS
    None = None
    Platform = {"github", "gitcode"}
    Version = {"v1.0.0"}
    WellFormed = {"v1.0.0"}
    Toolchain = {"go1.24.1", "go1.24.2"}
    Target = {"linux", "darwin"}
    Commit = {"c1"}
    Green = {"c1"}
    MaxRuns = 1
    MaxFaults = 2
INVARIANT AllAssetsReleased
CHECK_DEADLOCK FALSE
