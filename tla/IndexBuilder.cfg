SPECIFICATION Spec
CONSTANTS
    Worker = {w1, w2}
    Hold = {w1, w2}
    Inputs <- MCInputs
    MemBudget = 3
    SegmentSize = 2
    BlockSize = 1
    MaxFiles = 2
    TreeDepth = 3
    CutDepth = 1
    MaxNodes = 1
    ContainerBits = 4
    SizeofK2Node = 32
    SizeofBlock = 32
    Fetcher = {f1, f2}
    NewPoints <- MCNewPoints
    MaxLoads = 2
    MaxInserts = 1
INVARIANTS
    NoTripleLost
    FilesSorted
    IndexHoldsInput
    StructureKept
    SegmentsSuffice
    MemoryOwned
PROPERTY
    TasksRun
CHECK_DEADLOCK FALSE
