\* One command at a time, always with --reuse-maps, and two CPUs that count.
CONSTANTS
  Loader = {l1}
  Commands <- ReuseCommands
  Readers = {"basic03", "basic04", "solution"}
  Cpu = {c1, c2}
  MaxPrograms = 2
  MaxPackets = 2
SPECIFICATION Spec
INVARIANTS SharedMap NoLostCount NeedsNoRestart
