\* Two SIGINTs, a few packets, and every command line.
CONSTANTS
  Cpu = {c1}
  RxBatchSize = 2
  MaxPackets = 2
  MaxSignals = 2
SPECIFICATION FairSpec
INVARIANTS TypeOK CleanExit StatsSane
PROPERTY BusyPollShutdown
CHECK_DEADLOCK FALSE
