SPECIFICATION Spec
CONSTANTS
  s1 = s1  s2 = s2  NoNode = NoNode
  Node <- Pair
  Answers <- AllGood
  ZkErrors = TRUE  StartErrors = TRUE  PeersErrors = TRUE
  MaxId = 2
  Budget <- None
SYMMETRY Symm
INVARIANTS AtMostOneLeader SlaveFollowsFirst
