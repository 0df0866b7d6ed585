SPECIFICATION Spec
CONSTANTS
  Devices <- MCDevicesSet
  Serial <- MCSerial
  Description <- MCDescription
  Port <- MCPort
  Commands <- MCCommands
  Tools = {t1}
  Nobody = Nobody
  Outsider = Outsider
  Blank = Blank
  NoPort = NoPort
  d1 = d1
  d2 = d2
PROPERTY SearchMovesOn
PROPERTY SearchEnds
