SPECIFICATION ResponsiveSpec
INVARIANTS
  CleanVerdictIsTheTruth
  DamageIsDetected
  ActsOnlyOnRecordedAdmission
PROPERTIES
  NothingAfterTheRun
  RunEnds
CHECK_DEADLOCK FALSE
