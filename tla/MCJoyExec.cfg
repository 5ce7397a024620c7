SPECIFICATION FairSpec
CONSTANTS
  SETSIZE = 4
  Stride = 16
  Disk <- MCDisk
  INPLINEMAX = 4
  Images <- MCImages
  MaxCells = 200
  MaxDepth = 8
  Fuel = 40
  Forgiven = {"equal", "compare", "has", "take", "small", "opcase", "case", "map", "parameters",
              "format", "strftime", "fgets", "fread", "fputch", "fseek", "file"}
INVARIANT ResultAsManual
PROPERTY DumpsRestored
PROPERTY ProgramsEnd
