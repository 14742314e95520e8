SPECIFICATION Spec
CONSTANTS
  NoOne = NoOne
  Threads = {t1}
  Procs = {p1, p2}
  MaxVersion = 3
  MaxStarts = 2
  MaxClaimed = 1
  Retries = 1
  Phase2Modes <- Both
CHECK_DEADLOCK FALSE
SYMMETRY Symmetries
INVARIANTS
  WatermarkEarned
  SummaryCoversWatermark
  DirtyIsVisible
