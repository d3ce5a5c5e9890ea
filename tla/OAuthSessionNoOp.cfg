SPECIFICATION Spec
CONSTANTS
  Omega = {read, write, send}
  UTask = {read, write}
  Attenuation = {read}
  Widening = {send}
  BaseExp = 2
  HopLifetime = 1
  Nothing = nothing
  Delta = 1
  Keys = {1, 2}
  Instants = {0, 1, 2}
  Capacity = 1
  MaxTime = 2
  MaxProofs = 2
  MaxAdmissions = 2
INVARIANT FaultIsNeverANoOp
CHECK_DEADLOCK FALSE
