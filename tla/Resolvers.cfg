\* A root behind a link, sources in memory, packages, and a filesystem in memory.
CONSTANTS
    MAX_SCAN_DEPTH = 2
    Cwd <- MCCwd
    Parts <- MCParts
    Setups <- AllSetups
SPECIFICATION WatchedSpec
INVARIANTS
    TypeOK
    ReadsConfined
    BesideItsSource
    BestForm
PROPERTIES
    EveryResolveEnds
    ScanFinds
