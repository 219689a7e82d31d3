SPECIFICATION Spec
CONSTANTS
    Sources <- AllSources
    Bodies <- AllBodies
    Kinds <- AllKinds
    Modes <- Extend
    Containers <- OnePlain
    Keys = {"x"}
    MaxTold = 1
    Merge <- DeepMerge
    Precision = 4
    MinExp <- LeastExp
    MaxExp = 6
    PLAIN_MAX = 2
    PLAIN_MIN <- LeastPlain
INVARIANT NumbersSpelled
CHECK_DEADLOCK FALSE
