\* Two runs, a ring that fills up, and two signals to one run.
CONSTANTS
  Options = {"ifindex", "quiet", "abbreviated", "unknown"}
  Cpu = {c1, c2}
  RingSize = 1
  MaxOptions = 2
  MaxRuns = 2
  MaxPackets = 2
  MaxSignals = 2
SPECIFICATION FairSpec
INVARIANTS TypeOK CleanRuns SamplesKept
PROPERTY SamplesStored
CHECK_DEADLOCK FALSE
