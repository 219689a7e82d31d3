SPECIFICATION Spec
CONSTANTS
    Sources <- AllSources
    Bodies <- AllBodies
    Kinds <- AllKinds
    Modes <- AllModes
    Containers <- AllContainers
    Keys = {"x"}
    MaxTold = 3
    Merge <- DeepMerge
    Precision = 4
    MinExp <- LeastExp
    MaxExp = 6
    PLAIN_MAX = 2
    PLAIN_MIN <- LeastPlain
INVARIANTS TypeOK MergedAsTold AssignedAsTold ReadByItsProcessor NamesAsSpelled
CHECK_DEADLOCK FALSE
