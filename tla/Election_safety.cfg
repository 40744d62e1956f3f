SPECIFICATION Spec
CONSTANTS
  s1 = s1  s2 = s2  NoNode = NoNode
  Node <- Pair
  Answers <- Verdicts
  ZkErrors = FALSE  StartErrors = FALSE  PeersErrors = FALSE
  MaxId = 2
  Budget <- OneOfEach
SYMMETRY Symm
CONSTRAINT FewIncidents
INVARIANTS IInv LeaderIsFirst AtMostOneLeader SlaveFollowsFirst
