SPECIFICATION FairSpec
CONSTANTS
  Clients = {c1, c2}
  NCONNS = 1
  NoFd = NoFd
  MaxKids = 2
  MaxInbox = 2
  Budgets <- MCBudgets
INVARIANTS
  TypeOK
  RawPolled
  AckFirst
  TermNoticed
  DhcpKnown
  
PROPERTIES
  FrameRead
  Served
CHECK_DEADLOCK FALSE
