\* Two groups of two strands and one, with transactions like netperf's.
SPECIFICATION Spec
CONSTANTS
  Processes <- NetperfMaster
  NGroup = 2
  NStrand = 3
  GroupOf <- ThreeStrands
  MaxWait = 1
  Prompt = TRUE
INVARIANTS TypeOK NoStaleSignal CalloutIsCurrent
PROPERTIES LastsForDuration
