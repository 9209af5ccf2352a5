SPECIFICATION Spec
CONSTANTS
  FramePeriod <- MCFramePeriod
  DmcPeriod <- MCDmcPeriod
  Tempos = {"normal"}
  StatusGap = 1
  Tones = {"triangle"}
  DmcRates = {0}
  DmcLengths = {1}
  LengthLoads = {1}
  CallTimes = {0,1,2,3,4,5,6}
  FrameLengths = {0,1,2,3,4,5,6}
  PalModes = {FALSE, TRUE}
  Outputs = {}
  CpuWrites <- FrameWrites
INVARIANTS DisabledIsSilent PollingIsEnough FramePrediction
