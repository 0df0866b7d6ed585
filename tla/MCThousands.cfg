SPECIFICATION Spec
CONSTANTS
  Numbers <- MCNumbers
  Digits = 7
  Power <- MCPower
  BufferSize = 10
  Comma = Comma
  Nul = Nul
  Junk = Junk
INVARIANT InBuffer
INVARIANT Faithful
INVARIANT TextInv
CHECK_DEADLOCK FALSE
