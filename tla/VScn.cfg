SPECIFICATION Spec
CONSTANTS
  Names = {n1, n2, n3}
  DDs = {1, 2}
  DDSs = {1}
  Entities = {e1}
  DefaultSym = "default DD"
  DefaultDDSSym = "default DDS"
  Syms <- MCSyms
  NoSym = ""
  Prefix <- MCPrefix
  Truncated <- MCTruncated
  Clients = {c1}
  Nobody = nobody
  FDs = {1}
  Bitmaps = {{"added"}}
  ScnDDReqs <- MemberDD
SYMMETRY Symmetry
CHECK_DEADLOCK FALSE

PROPERTIES MembersTold
