\* The master's strand is a process; the slave may die.
CONSTANTS
  m1 = m1
  m2 = m2
  s1 = s1
  s2 = s2
  g = g
  h = h
  NSlave = 1
  Strand <- Pair_Strand
  Home <- Pair_Home
  ProcStrand = {m1}
  Group = {g}
  GroupOf <- OneGroup_GroupOf
  SlaveGroup <- OneGroup_SlaveGroup
  Ntxn <- Ntxn_2
  NumBarrier = 2
  MaxWait = 1
  ErrorStats = TRUE
  CtrlC = FALSE
  MaxCrash = 1
SPECIFICATION FairSpec
INVARIANTS TypeOK
PROPERTIES Termination
