CONSTANTS
    Block <- MCBlock
    Genesis = "g"
    Parent <- MCParent
    Height <- MCHeight
    Ancestors <- MCAncestors
    BaseBlock = "a1"
    KnownCounts = TRUE
    BatchBlocks = 2
    RotateRecords = 1
    MaxRecords = 3
    MaxLag = 2
    MaxSegGen = 3
    MaxCkptGen = 2
    MaxStaged = 2
    Faults = {"HeadWrite"}
    FaultyBoot = TRUE
SPECIFICATION Spec

INVARIANT RestartStaysValid
CHECK_DEADLOCK FALSE
