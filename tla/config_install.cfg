SPECIFICATION Spec
CONSTANTS
  Names = {"cpu", "iis", "foo", "[defaults]"}
  Factories = {"cpu", "iis"}
  Patterned = {"iis"}
  Placeholder = "[defaults]"
  Paths <- MCPaths
  DefaultPath = "/metrics"
  Reserved <- MCReserved
  Unset = ""
  Periods <- MCPeriods
  NoAddress = ":0"
INVARIANT InstalledServes
