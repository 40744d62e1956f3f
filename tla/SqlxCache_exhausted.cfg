SPECIFICATION FairSpec
CONSTANTS
  t1 = t1  t2 = t2  t3 = t3  n1 = n1  n2 = n2  n3 = n3
  Thread <- TwoThreads
  Name <- ThreeNames
  Janitor <- OneJanitor
  bases_count = 3
  cond_count = 1
  max_waiting = 8
  TimedOpen = TRUE
  MaxHeld = 2
  MaxDepth = 1
  NoThread = NoThread  NoName = NoName  NoBase = NoBase
PROPERTY OpenReturns
