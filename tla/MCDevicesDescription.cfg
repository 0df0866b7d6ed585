SPECIFICATION Spec
CONSTANTS
  Devices <- MCDevicesSet
  Serial <- MCSerial
  Description <- MCDescription
  Port <- MCPort
  Commands <- ByDescription
  Tools = {t1}
  Nobody = Nobody
  Outsider = Outsider
  Blank = Blank
  NoPort = NoPort
  d1 = d1
  d2 = d2
INVARIANT DescriptionFinds
