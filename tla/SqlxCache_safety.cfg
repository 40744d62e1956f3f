SPECIFICATION Spec
CONSTANTS
  t1 = t1  t2 = t2  t3 = t3  n1 = n1  n2 = n2  n3 = n3
  Thread <- ThreeThreads
  Name <- ThreeNames
  Janitor <- OneJanitor
  bases_count = 3
  cond_count = 2
  max_waiting = 1
  TimedOpen = TRUE
  MaxHeld = 1
  MaxDepth = 2
  NoThread = NoThread  NoName = NoName  NoBase = NoBase
SYMMETRY Symm
INVARIANTS IInv MutualExclusion OneHandlePerBase WaitingCounted
