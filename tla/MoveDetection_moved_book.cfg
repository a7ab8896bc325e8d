SPECIFICATION Spec
CONSTANTS
  here = here
  there = there
  elsewhere = elsewhere
  Paths <- MCPaths
  A = A
  B = B
  Bytes <- MCBytes
  None = None
  Scopes <- MCScopes
  MaxChanges = 1
  MaxFaults = 0
SYMMETRY MCSymmetry
INVARIANT IndexedIsSearchable
