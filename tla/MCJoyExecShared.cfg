SPECIFICATION Spec
CONSTANTS
  SETSIZE = 4
  Stride = 16
  Disk <- MCDisk
  INPLINEMAX = 4
  Images <- MCShared
  MaxCells = 200
  MaxDepth = 8
  Fuel = 40
  Forgiven = {}
INVARIANT ResultAlwaysAsManual
