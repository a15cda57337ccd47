\* Two groups with different numbers of transactions; only the first has a slave.
CONSTANTS
  m1 = m1
  m2 = m2
  s1 = s1
  s2 = s2
  g = g
  h = h
  NSlave = 1
  Strand <- Uneven_Strand
  Home <- Uneven_Home
  ProcStrand = {}
  Group = {g, h}
  GroupOf <- Uneven_GroupOf
  SlaveGroup <- OneGroup_SlaveGroup
  Ntxn <- Ntxn_1_3
  NumBarrier = 3
  MaxWait = 0
  ErrorStats = TRUE
  CtrlC = FALSE
  MaxCrash = 0
SPECIFICATION Spec
INVARIANTS ReachedMeansAllArrived SuccessMeansComplete CommandsInOrder
PROPERTIES ErrorIsSticky
