SPECIFICATION FairSpec
CONSTANTS
  Header = 2
  MaxBuffer = 5
  Sizes = {2, 3, 5, 6}
  MaxSent = 3
CHECK_DEADLOCK FALSE
INVARIANTS TypeOK Intact SerialNeverAstray ClosedRightly
PROPERTIES EachSettled
