\* Two callers parse at the same time, on one instance.
CONSTANTS
    Callers = {c1, c2}
    Documents = {"diamond", "loop", "lost", "soft", "other"}
    Sources <- GraphSources
    NoPath = NoPath
    Refs <- MCRefs
    Found <- MCFound
    Named <- MCNamed
    Broken <- MCBroken
    Processing <- MCProcessing
    Bases <- NoBase
    MaxDepth = 3
    Instances = {i1}
    NoInstance = NoInstance
    TOP = TOP
    ThreadLimit = 2
    MaxCalls = 1
    MayRefuse = FALSE
SPECIFICATION Spec
INVARIANTS
    TypeOK
    SlotsOwned
    TakesOwnReport
    Provenance
PROPERTIES
    OnlyOwnerTouchesSlot
    ImplementsService
