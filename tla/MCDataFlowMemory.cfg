SPECIFICATION Spec
CONSTANTS
  Values <- MCValues
  Literals <- MCLiterals
  Programs <- MemoryPrograms
  Half = 4
  Inputs <- MCInputs
  Address = 2
INVARIANT MemoryInRange
