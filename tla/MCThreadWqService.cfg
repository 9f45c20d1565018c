SPECIFICATION ServiceSpec
CONSTANTS
  TwqNum = 1
  Job = {j1, j2}
  Producer = {p1, p2}
  NoJob = NoJob
  ExitMod = 2
PROPERTY
  AddedJobStarts
