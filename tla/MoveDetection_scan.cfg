SPECIFICATION Spec
CONSTANTS
  here = here
  there = there
  elsewhere = elsewhere
  Paths <- MCPaths
  A = A
  B = B
  Bytes <- MCBytes
  None = None
  Scopes <- MCScopes
  MaxChanges = 2
  MaxFaults = 1
SYMMETRY MCSymmetry
INVARIANTS TypeOK ScanReflectsDisk MovesRecognised
 
