\* One SIGINT, with --poll-mode among the command lines.
CONSTANTS
  Cpu = {c1}
  RxBatchSize = 2
  MaxPackets = 2
  MaxSignals = 1
SPECIFICATION FairSpec
PROPERTY GlobalShutdown
CHECK_DEADLOCK FALSE
