SPECIFICATION Spec
CONSTANTS
  a = a
  b = b
  None = None
  Servers = {a, b}
  Siblings <- MCSiblings
  Initially <- MCInitially
  Defined = {b}
  Kinds = {"service", "worker"}
  Owners = {"o"}
  Specs = {1, 2}
  MaxEdits = 1
  MaxFaults = 1
  MaxRows = 4
  MaxDepth = 3
PROPERTIES CatchesUp
