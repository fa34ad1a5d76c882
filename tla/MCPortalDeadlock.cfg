SPECIFICATION Spec
CONSTANTS
  Clients = {"c1", "c2"}
  Hosts <- MCHosts
  Labels <- MCLabels
  Target = "www.ex.com"
  Names <- MCNames
  Addresses = {"ip1", "ip2", "ip3"}
  Ports = {80, 443, 8443}
  Paths <- MCPaths
  ScopeChoices <- MCScopeChoices
  Submitted <- MCSubmitted
  Written <- MCWritten
  Memories <- MCMemories
  Grants <- MCGrants
  Calls <- MCCalls
  NewStates = {"scoped", "cancelled"}
  MaxEvents = 2
  MaxRevision = 2
PROPERTIES
  EveryRequestAnswered
