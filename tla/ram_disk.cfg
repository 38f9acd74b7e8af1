SPECIFICATION FairDiskSpec
CONSTANTS
  MaxChunks = 4
  Cpus = {c1, c2}
  LastSector = 2
  Turns = 2
INVARIANTS EndsAfterCopy WritesLast
PROPERTY EveryRequestEnds
