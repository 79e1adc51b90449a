CONSTANTS
  Padding = 2  MaxWindow = 9  EnergyFrame = 2  SearchRadius = 3
  FramesPerMs = 3  MsPerSecond = 2  MaxSeconds = 4
  Rates = {4, 6, 9}
  Packets = {1, 7}
  Marks = {0, 1, 5, 6, 19, 24}
  MaxCores = 2
  HostTicks = 3
  Jitter = 1
  None = None
SPECIFICATION WSpec
INVARIANTS WindowsCover NeverRefused TimesAreSound
PROPERTIES ThreadEnds
CHECK_DEADLOCK FALSE
