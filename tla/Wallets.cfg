\* Two wallets of up to three slots on a file of five cells.  An Ushort ends at
\* three, so that the slots for three wrap.
CONSTANTS
  NULL = NULL
  Clear = Clear
  Values = {Clear, Full}
  Modulus = 4
  Sizes = {1, 3}
  MaxNumber = 2
  WalletSpill = 5
SPECIFICATION Spec
INVARIANT NumbersApart
INVARIANT ContentsKept
