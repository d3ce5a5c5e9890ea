SPECIFICATION HarnessSpec
PROPERTIES
  RunEnds
CHECK_DEADLOCK FALSE
