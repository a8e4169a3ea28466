\* Three workers, four files, two spurious wakeups; no symmetry, as some of
\* the properties are temporal.
SPECIFICATION FairSpec
CONSTANTS
    w1 = w1
    w2 = w2
    w3 = w3
    Workers <- ThreeWorkers
    Main = Main
    Free = Free
    MaxJobs = 4
    MaxSpurious = 2
INVARIANTS
    TypeOK
    QueueWellFormed
    NodeOwnership
    SearchedOnce
    NoLostWakeup
PROPERTIES
    Termination
    ImplementsPool
