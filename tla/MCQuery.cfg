SPECIFICATION QuerySpec
CONSTANTS
  n1 = n1
  n2 = n2
  e1 = e1
  e2 = e2
  Names = {n1, n2}
  DDs = {1}
  DDSs = {1}
  Entities = {e1, e2}
  DefaultSym = "default DD"
  DefaultDDSSym = "default DDS"
  Syms <- MCSyms
  NoSym = ""
  Prefix <- MCPrefix
  Truncated <- MCTruncated
  DDReqs <- NamedDD
  DDSReqs <- StatusDDS
  EntityReqs <- PlainEntity
  MaxRefs = 2
  NoSource = nosource
  ControlNode = control
  Rank <- MCRank
  Walkers = {n2}
CHECK_DEADLOCK FALSE
INVARIANTS ShownWithEntity FellowsShown
PROPERTIES TableWalkComplete ListWalkComplete
