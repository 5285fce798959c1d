SPECIFICATION Spec
CONSTANTS
  n1 = n1
  n2 = n2
  Names = {n1, n2}
  DDs = {1, 2}
  DDSs = {1}
  Entities = {e1}
  DefaultSym = "default DD"
  DefaultDDSSym = "default DDS"
  Syms <- MCSyms
  NoSym = ""
  Prefix <- MCPrefix
  Truncated <- MCTruncated
  DDReqs <- MemberDD
  DDSReqs <- None
  EntityReqs <- PlainEntity
  MaxRefs = 3
CHECK_DEADLOCK FALSE
INVARIANTS TypeOK Indexed NoDuplicates MembersKnowTheirDDs DDNamesUnique
