SPECIFICATION Spec
CONSTANTS
  FramePeriod <- MCFramePeriod
  DmcPeriod <- MCDmcPeriod
  Tempos = {"normal"}
  StatusGap = 4
  Tones = {}
  DmcRates = {0}
  DmcLengths = {1}
  LengthLoads = {1}
  CallTimes = {0,1,2,3}
  FrameLengths = {0,1,2,3}
  PalModes = {}
  Outputs = {TRUE}
  CpuWrites <- DmcWrites
INVARIANT WaitingMeansPending
