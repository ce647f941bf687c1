SPECIFICATION Spec
CONSTANTS
  Block <- MCBlock
  Genesis = "g"
  Parent <- MCParent
  Height <- MCHeight
  Ancestors <- MCAncestors
  NoBlock = NoBlock
  MaxGroup = 2
  Faults = {"Persist", "HeadBatch", "JournalAppend", "JournalRewind", "Retention", "Rollback", "Marker", "Checkpoint", "Compact"}
INVARIANTS TypeOK ServedStateIsCommitted HeadIsRecoverable
PROPERTIES CheckpointIsClean ImplementsPromise
