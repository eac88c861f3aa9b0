\* Two CPUs, and a hash that is full before every interface has an entry.
CONSTANTS
  Lessons = {"tracing01", "tracing02"}
  NrCpus = 2
  Interfaces = 3
  max_entries = 2
  Half = 2
  XDP_REDIRECT = 0
  MAX_CPUS = 1
  Bulks <- SomeBulks
  Xmits <- SomeXmits
  MaxEvents <- SomeEvents
  MaxBusyMaps = 1
  MaxFailures = 1
SPECIFICATION FairSpec
INVARIANTS TypeOK EventsCounted DifferencesAddUp WrapsOnlyAfterFailure
PROPERTIES CatchesUp LedgerKept
CHECK_DEADLOCK FALSE
