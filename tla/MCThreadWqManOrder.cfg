SPECIFICATION ManSpec
CONSTANTS
  TwqNum = 2
  Job = {j1, j2, j3, j4}
  Producer = {p1}
  NoJob = NoJob
  ExitMod = 2
PROPERTY OneByOne
