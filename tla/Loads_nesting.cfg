\* One caller parses twice: loops, reuse, chains up to and past the cap, under a base path.
CONSTANTS
    Callers = {c1}
    Documents = {"diamond", "loop", "chain", "plain", "own"}
    Sources <- GraphSources
    NoPath = NoPath
    Refs <- MCRefs
    Found <- MCFound
    Named <- MCNamed
    Broken <- MCBroken
    Processing <- MCProcessing
    Bases <- OwnBases
    MaxDepth = 4
    Instances = {i1}
    NoInstance = NoInstance
    TOP = TOP
    ThreadLimit = 2
    MaxCalls = 2
    MayRefuse = FALSE
SPECIFICATION Spec
INVARIANTS
    AncestorsDistinct
    ChainCapped
    NestingBounded
    ThreadStackBounded
    DepsAreReferences
    AlwaysPublished
