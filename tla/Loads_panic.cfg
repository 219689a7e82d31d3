\* A processor that panics on a nested error.
CONSTANTS
    Callers = {c1}
    Documents = {"panics", "diamond"}
    Sources <- GraphSources
    NoPath = NoPath
    Refs <- MCRefs
    Found <- MCFound
    Named <- MCNamed
    Broken <- MCBroken
    Processing <- MCProcessing
    Bases <- NoBase
    MaxDepth = 3
    Instances = {i1}
    NoInstance = NoInstance
    TOP = TOP
    ThreadLimit = 2
    MaxCalls = 1
    MayRefuse = FALSE
SPECIFICATION Spec
INVARIANTS
    SlotsOwned
