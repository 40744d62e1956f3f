SPECIFICATION FairSpec
CONSTANTS
  s1 = s1  s2 = s2  NoNode = NoNode
  Node <- Pair
  Answers <- AllGood
  ZkErrors = FALSE  StartErrors = FALSE  PeersErrors = FALSE
  MaxId = 5
  Budget <- OneResync
PROPERTY FinalStatus
