SPECIFICATION Spec
CONSTANTS
    Sources <- AllSources
    Bodies <- GuardBodies
    Kinds <- AllKinds
    Modes <- Extend
    Containers <- OnePlain
    Keys = {"x"}
    MaxTold = 2
    Merge <- DeepMerge
    Precision = 4
    MinExp <- LeastExp
    MaxExp = 6
    PLAIN_MAX = 2
    PLAIN_MIN <- LeastPlain
INVARIANT ReservedSkipped
CHECK_DEADLOCK FALSE
