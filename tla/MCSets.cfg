SPECIFICATION Spec
CONSTANTS
  n1 = n1
  n2 = n2
  Names = {n1}
  DDs = {1, 2}
  DDSs = {1}
  Entities = {e1, e2}
  DefaultSym = "default DD"
  DefaultDDSSym = "default DDS"
  Syms <- MCSyms
  NoSym = ""
  Prefix <- MCPrefix
  Truncated <- MCTruncated
  DDReqs <- BareDD
  DDSReqs <- SetDDS
  EntityReqs <- AllEntity
  MaxRefs = 2
CHECK_DEADLOCK FALSE
INVARIANTS SetsListed ListedNodes
