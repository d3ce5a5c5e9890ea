SPECIFICATION Spec
CONSTANTS
  Kappa = kappa
  Supervisor = supervisor
  Specialist = specialist
  Bystanders = {worker}
  Strangers = {stranger}
  Tasks = {"t1", "t2"}
  Omega = {"e1", "e2"}
  Hops <- MCHops
  Calls <- MCCalls
  Presented = {"read", "write", "delete"}
  Required <- MCRequired
  PolicyRefuses <- MCPolicyRefuses
  TokenGrants = {"e1", "e2"}
  Actor = specialist
  TokenExpiry = 2
  HopMargin = 1
  InvLifetime = 2
  Arms <- MCArms
  Nothing = nothing
  Delta = 1
  MaxTime = 2
  MaxDelegations = 2
  MaxEdits = 2
INVARIANTS
  TypeOK
  AdmittedWasDelegated
  TwoReadingsAgree
  FaultIsAttributed
  AblationIsMatched
CHECK_DEADLOCK FALSE
