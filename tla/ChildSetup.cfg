SPECIFICATION Spec
CONSTANTS
  Limits = {0, 2, 3}
  Keys = {"PATH", "K"}
  Values <- MCValues
  Environs <- MCEnvirons
  MaxCalls = 2
INVARIANTS ChildFdsRight EnvIsAsAsked ResolvedInChildPath
