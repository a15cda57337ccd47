\* A master with iterations and then a duration, or a slave that waits for its strands at
\* the barriers; a flowop may fail or be allowed to.
SPECIFICATION FairSpec
CONSTANTS
  Processes <- MasterOrSlave
  NGroup = 1
  NStrand = 2
  GroupOf <- OneGroup
  MaxWait = 1
  Prompt = TRUE
PROPERTIES IterationsComplete Finishes
