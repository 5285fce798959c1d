SPECIFICATION Spec
CONSTANTS
  Cells = {x1, x2, x3, x4}
  Datas = {1, 2, 3}
  List = List
  Table = Table
  None = None
  Null = Null
  NotExist = NotExist
SYMMETRY MCSymmetry
CHECK_DEADLOCK FALSE
INVARIANTS TypeOK Linked
PROPERTIES Abstract
