SPECIFICATION EpochSpec
CONSTANTS
  FramePeriod <- MCFramePeriod
  DmcPeriod <- MCDmcPeriod
  Tempos = {"normal", "slow"}
  StatusGap = 1
  Tones = {}
  DmcRates = {0}
  DmcLengths = {1}
  LengthLoads = {1}
  CallTimes = {0, 1, 2, 3, 4, 5}
  MaxEpoch = 16
  FrameLengths = {3, 4, 5}
  PalModes = {FALSE, TRUE}
  Outputs = {}
  CpuWrites <- FrameModes
INVARIANT EventsAtOddClocks
PROPERTIES FramesHaveNoEffect CallsReturn
