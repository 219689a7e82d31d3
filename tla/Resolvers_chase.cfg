\* A base path above the working directory.
CONSTANTS
    MAX_SCAN_DEPTH = 2
    Cwd <- MCCwd
    Parts <- MCParts
    Setups <- UpSetups
SPECIFICATION WatchedSpec
INVARIANTS
    BaseChased
