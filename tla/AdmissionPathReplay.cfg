SPECIFICATION Spec
CONSTANTS
  b3 = b3
  dpop = dpop
  shared = shared
  m3 = m3
  Keys <- MCKeys
  Instants = {0, 1, 2}
  Delta = 2
  Capacity = 2
  Arms = {b3, dpop}
  Capability = {b3}
  Skipped <- MCSkipped
  Stores = {shared, m3}
  RequestStore <- MCRequestStore
  MonitorStore <- MCMonitorStore
  Owned <- MCOwned
  Presentations <- MCSkewedPresentations
  Calls <- MCCalls
  AuditCapacity = 1
  MaxDecisions = 2
PROPERTIES
  NeverAdmittedAgain
