\* The reader and the scanner of netjoy on a few files and on all short lines.
CONSTANTS
  LineLength = 4
  Files <- MCFiles
  Sources <- MCSources
  Usrlib = "usrlib"
  INPSTACKMAX = 4
  SETSIZE = 32
SPECIFICATION Spec
INVARIANT ReadAsWritten
INVARIANT InputInOrder
