\* Two commands at a time, of both lessons, and the reader of any of the three.
CONSTANTS
  Loader = {l1, l2}
  Commands <- PinCommands
  Readers = {"basic03", "basic04", "solution"}
  Cpu = {c1}
  MaxPrograms = 2
  MaxPackets = 1
SPECIFICATION Spec
INVARIANTS TypeOK 
