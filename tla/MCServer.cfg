SPECIFICATION FairSpec
CONSTANTS
  Clients = {c1}
  Nobody = nobody
  FDs <- MCFDs
  QueueCap = 2
INVARIANTS TypeOK ServedByPrimary
PROPERTIES BecomesPrimary HeldReleased HeartbeatsGoOn
