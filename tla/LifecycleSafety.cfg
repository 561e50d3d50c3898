CONSTANTS
  c1 = c1
  c2 = c2
  e1 = e1
  h1 = h1
  h2 = h2
  None = None
  Monitor = Monitor
  Startup = Startup
  Models <- ThreeModels
  Role <- Roles3
  Handlers <- TwoHandlers
  Ports = {1, 2}
  MaxRequests = 2
  MayCancel = {"lock", "probe", "spawn", "health"}
SPECIFICATION Spec
INVARIANTS RowsMatchRuntime PortsOwned CleanExit
PROPERTIES ImplementsSlots
SYMMETRY Symmetry
CHECK_DEADLOCK FALSE
