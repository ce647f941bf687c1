CONSTANTS
    Block <- MCBlock
    Genesis = "g"
    Parent <- MCParent
    Height <- MCHeight
    Ancestors <- MCAncestors
    BaseBlock = "a1"
    KnownCounts = TRUE
    BatchBlocks = 2
    RotateRecords = 1
    MaxRecords = 3
    MaxLag = 1
    MaxSegGen = 3
    MaxCkptGen = 2
    MaxStaged = 2
    Faults = {"SegmentAppend", "SegmentAppendPartial", "RollbackFails", "SegmentSync", "HeadWrite", "HeadDirSync", "RewindTruncate", "Checkpoint"}
    FaultyBoot = TRUE
SPECIFICATION Spec
INVARIANTS TypeOK ReplayStaysOnChain CommittedRangeSurvives LagBounded
PROPERTIES GapBlocksProgress GapNeedsRestart
CHECK_DEADLOCK FALSE
