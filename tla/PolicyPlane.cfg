SPECIFICATION Spec
CONSTANTS
  Scenarios <- MCScenarios
  Calls <- MCCalls
  Ingested <- MCIngested
  Labellings <- MCLabellings
  Directory = {"notice", "draft", "q3"}
  Lifetime = 2
  Nothing = nothing
  Delta = 1
  Keys <- MCKeys
  Instants = {0, 1, 2}
  Capacity = 3
  MaxTime = 2
  MaxMints = 2
  MaxEffects = 2
INVARIANTS
  AdmissionIsSound
  HarmIsABreach
  FalseBlockIsExplained
  ConsentIsSpent
CHECK_DEADLOCK FALSE
