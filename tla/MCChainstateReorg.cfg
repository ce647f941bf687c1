SPECIFICATION Spec
CONSTANTS
  Block <- MCBlock
  Genesis = "g"
  Parent <- MCParent
  Height <- MCHeight
  Ancestors <- MCAncestors
  NoBlock = NoBlock
  MaxGroup = 2
  Faults = {}
INVARIANT ReorgStaysOpen
