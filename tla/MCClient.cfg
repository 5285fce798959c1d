SPECIFICATION FairSpec
CONSTANTS
  MaxCmds = 3
  MaxEvents = 2
  QSize = 2
CHECK_DEADLOCK FALSE
INVARIANTS TypeOK OwnAnswer InquiryEchoed
PROPERTIES Answered
