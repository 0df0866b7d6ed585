SPECIFICATION Spec
CONSTANTS
  Devices <- MCDevicesSet
  Serial <- MCSerial
  Description <- MCDescription
  Port <- MCPort
  Commands <- PairCommands
  Tools = {t1, t2}
  Nobody = Nobody
  Outsider = Outsider
  Blank = Blank
  NoPort = NoPort
  d1 = d1
  d2 = d2
SYMMETRY ToolSymmetry
INVARIANT NothingLeftOpen
INVARIANT RightDevice
INVARIANT FailsForAReason
INVARIANT RowsRight
INVARIANT DevicesInv
PROPERTY ImplementsOpening
