SPECIFICATION Spec
CONSTANTS
  s1 = s1
  s2 = s2
  s3 = s3
  t1 = t1
  t2 = t2
  Admin = Admin
  NoNode = NoNode
  NoBase = NoBase
  Node <- Trio
  Table <- OneTable
  Created <- OneMore
  ChangeSets <- Changes4
  MaxTnx = 3
  MaxPipe = 1
  MaxBad = 2
SYMMETRY Symm
CHECK_DEADLOCK FALSE
CONSTRAINT Few
INVARIANTS TypeOK VersionsCount SamePlace Durable
