\* Two callers, one segment thread between them, and processors that recode or panic.
CONSTANTS
    Callers = {c1, c2}
    Documents = {"chain", "soft", "recoded", "panics"}
    Sources <- GraphSources
    NoPath = NoPath
    Refs <- MCRefs
    Found <- MCFound
    Named <- MCNamed
    Broken <- MCBroken
    Processing <- MCProcessing
    Bases <- NoBase
    MaxDepth = 4
    Instances = {i1}
    NoInstance = NoInstance
    TOP = TOP
    ThreadLimit = 1
    MaxCalls = 1
    MayRefuse = TRUE
SPECIFICATION Spec
INVARIANTS
    ThreadsJoined
PROPERTIES
    EveryCallReturns
    ImplementsService
