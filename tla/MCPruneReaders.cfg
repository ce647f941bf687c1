SPECIFICATION Spec
CONSTANTS
    Reader = {r1}
    MaxHeight = 6
    MaxFile = 2
    FileBodies = 2
    Margin = 1
    Fork = {}
    Depth = 1
    Faults = {"Batch", "Evidence", "Reclaim"}
INVARIANTS
    LeaseProtects
    NoFalseDamage
PROPERTIES
    PrunedNeverReturns
