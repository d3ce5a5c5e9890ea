SPECIFICATION Spec
CONSTANTS
  Ids <- MCIds
  Clients = {"sup", "sup2", "spec", "sub"}
  Principal <- MCPrincipal
  DelegationPolicy <- MCPolicy
  ResourceServers = {"rs1", "rs2"}
  Omega = {"read", "write"}
  Scopes = {"mcp", "admin"}
  Keys = {"k"}
  Phase1 <- MCPhase1
  Requests <- MCRequests
  DefaultLifetime = 2
  RequireDPoP = FALSE
  RequireNonce = TRUE
  MaxTokens = 4
  MaxTime = 3
  MaxNonces = 2
INVARIANTS
  NoAuthorityBeyondAnyAncestor
  ChainFollowsPolicy
  NonceRetryLosesToTimeAlone
PROPERTIES
  NeverClamped
