\* A transaction with iterations follows one with a duration.
SPECIFICATION Spec
CONSTANTS
  Processes <- Undisturbed
  NGroup = 1
  NStrand = 2
  GroupOf <- OneGroup
  MaxWait = 1
  Prompt = TRUE
PROPERTIES IterationsComplete
