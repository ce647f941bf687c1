SPECIFICATION FairSpec
CONSTANTS
  Block <- MCBlock
  Genesis = "g"
  Parent <- MCParent
  Height <- MCHeight
  Ancestors <- MCAncestors
  NoBlock = NoBlock
  MaxGroup = 2
  Faults = {"Persist", "HeadBatch", "JournalAppend", "Retention", "Rollback", "Marker", "Checkpoint"}
INVARIANT RestartStaysValid
PROPERTY RecoveryCompletes
