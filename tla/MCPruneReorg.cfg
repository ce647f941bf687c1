SPECIFICATION Spec
CONSTANTS
    Reader = {}
    MaxHeight = 4
    MaxFile = 2
    FileBodies = 2
    Margin = 1
    Fork = {2, 4}
    Depth = 1
    Faults = {"Batch", "Evidence", "Reclaim"}
INVARIANTS
    TypeOK
    AdmittedHistoryExists
    ReorgFindsRows
    
