\* Keys that begin with the separator.
CONSTANTS
    MAX_SCAN_DEPTH = 2
    Cwd <- MCCwd
    Parts <- MCParts
    Setups <- RootSetups
SPECIFICATION WatchedSpec
INVARIANTS
    KeyBesideKey
