SPECIFICATION FairSpec
CONSTANTS
  e1 = e1
  Portals = {p1}
  Entities = {e1, e2}
  Clients = {c1}
  Nobody = nobody
  FDs = {1}
  Periods = {0, 1}
  sns_esi_interval = 2
  esi_sent_limit = 3
  MaxAge = 2
  PortalReqs <- MCReqs
  MaxIdx = 2
CHECK_DEADLOCK FALSE
INVARIANTS TypeOK PortalsOwned AskedOnConnection
PROPERTIES RemovedOnlyIfSilent SilentPortalRemoved
