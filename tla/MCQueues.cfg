SPECIFICATION ManSpec
CONSTANTS
  TwqNum = 2
  Job = {j1, j2, j3}
  Producer = {p1, p2}
  NoJob = NoJob
  ExitMod = 2
SYMMETRY Symmetry
PROPERTY ImplementsJobDelivery
INVARIANTS
  TypeOK
  ManTypeOK
  StoppedQueueIsDrained
  NoJobLostAtExit
  NoReaderHoldsFinishedJob
  WorkerInitRunsAlone
  SharedIndexStaysNearTable
  LockedAddExcludesWorker
