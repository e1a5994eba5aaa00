SPECIFICATION Spec
CONSTANTS
  Wanted <- MCWanted
  Initially <- MCInitially
  Cap = 2
  MaxChanges = 2
  MaxFaults = 1
INVARIANT RectifiedIsIntended
PROPERTY Converges
