SPECIFICATION MeasuringSpec
CONSTANTS
  MaxStarts = 2
  MaxPending = 1
  Offsets <- MCOffsets
  StatsWindow = 1
  FeedbackWindow = 0
  Spans = {0, 1}
  MinSamples = 1
  Multiplier = 1
  MinThreshold = 1
  MaxNow = 2
  MaxSends = 3
  NoReport = NoReport
INVARIANTS StreamsSupervised ReportsTrue OffsetCancels
PROPERTIES LimitEnforced TasksEnd
CHECK_DEADLOCK FALSE
