SPECIFICATION Spec
CONSTANTS
  Scenarios <- MCScenarios
  Calls <- MCCalls
  Ingested <- MCIngested
  Labellings <- MCLabellings
  Directory = {}
  Lifetime = 2
  Nothing = nothing
  Delta = 1
  Keys <- MCKeys
  Instants = {0, 1, 2}
  Capacity = 3
  MaxTime = 2
  MaxMints = 2
  MaxEffects = 2
INVARIANTS
  HarmIsScored
CHECK_DEADLOCK FALSE
