----------------------------- MODULE MCDevices -----------------------------
(***************************************************************************)
(* Two devices and one or two tools, on Windows and elsewhere.  Each tool  *)
(* may be d2xx_list or look for the second device, by the name the system  *)
(* asks for, by serial number or by description, or have an empty name.    *)
(***************************************************************************)
EXTENDS Devices, TLC

CONSTANTS d1, d2

MCDevicesSet  == {d1, d2}
MCSerial      == [d \in MCDevicesSet |-> IF d = d1 THEN "A97DYC34" ELSE "FT4AHAA3"]
MCDescription == [d \in MCDevicesSet |-> IF d = d1 THEN "FT232R USB UART" ELSE "Tube Serial"]
MCPort        == [d \in MCDevicesSet |-> IF d = d1 THEN "COM4" ELSE "COM3"]

Command(l, a, n) == [lister |-> l, asked |-> a, name |-> n]
Lister == Command(TRUE, "default", "")
Empty  == Command(FALSE, "default", "")

MCCommands == [w \in BOOLEAN |-> {Lister} \union
  IF w THEN {Command(FALSE, "default", "COM3"), Command(FALSE, "serial", "FT4AHAA3")}
       ELSE {Command(FALSE, "default", "FT4AHAA3"), Empty}]

\* For two tools: by serial number Windows takes the steps taken elsewhere, and
\* elsewhere d2xx_list takes those it takes when the driver has no port number to give.
PairCommands == [w \in BOOLEAN |->
  {c \in MCCommands[w] : IF w THEN c.asked # "serial" ELSE ~c.lister}]

ByDescription == [w \in BOOLEAN |-> {Command(FALSE, "description", "Tube Serial")}]

\* The tools start alike and choose from the same command lines.
ToolSymmetry == Permutations(Tools)
=============================================================================
