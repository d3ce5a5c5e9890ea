SPECIFICATION FairSpec
CONSTANTS
  k1 = k1
  k2 = k2
  Keys <- MCKeys
  Instants = {0, 2}
  Delta = 2
  Capacity = 1
  Requests = {r1, r2, r3}
  Asks <- MCAsks
  FillKeys <- MCFillKeys
INVARIANTS
  AdmittedOnlyIfGranted
  OneWinnerPerWindow
  RemembersGrants
PROPERTIES
  SingleUseSpec
  NoLiveEviction
  EveryRequestReturns
  OnlySilenceHoldsTheLoop
CHECK_DEADLOCK FALSE
