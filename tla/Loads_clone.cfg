\* Two instances cloned from one share its install.
CONSTANTS
    Callers = {c1, c2}
    Documents = {"diamond"}
    Sources <- GraphSources
    NoPath = NoPath
    Refs <- MCRefs
    Found <- MCFound
    Named <- MCNamed
    Broken <- MCBroken
    Processing <- MCProcessing
    Bases <- NoBase
    MaxDepth = 3
    Instances = {i1, i2}
    NoInstance = NoInstance
    TOP = TOP
    ThreadLimit = 2
    MaxCalls = 1
    MayRefuse = FALSE
SPECIFICATION Spec
INVARIANTS
    OwnInstance
