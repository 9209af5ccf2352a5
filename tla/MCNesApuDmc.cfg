SPECIFICATION Spec
CONSTANTS
  FramePeriod <- MCFramePeriod
  DmcPeriod <- MCDmcPeriod
  Tempos = {"normal"}
  StatusGap = 1
  Tones = {}
  DmcRates = {0, 1}
  DmcLengths = {1, 2}
  LengthLoads = {1}
  CallTimes = {3, 14}
  FrameLengths = {14}
  PalModes = {FALSE}
  Outputs = {FALSE, TRUE}
  CpuWrites <- DmcWrites
INVARIANTS TypeOK AssertsHold DmcReady PollingIsEnough
PROPERTIES DmcIrqOnTime CountReadsExact SilenceInStep
