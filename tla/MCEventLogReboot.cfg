SPECIFICATION Spec
CONSTANTS
  RingEntries = 3
  MaxPerResponse = 1
  MaxPages = 3
  Events = {ev1, ev2}
  MaxSeq = 7
  MaxReboots = 1
PROPERTIES
  GapIsReported
