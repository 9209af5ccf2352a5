SPECIFICATION DemoSpec
CONSTANTS
  FramePeriod <- MCFramePeriod
  DmcPeriod <- MCDmcPeriod
  CpuWrites <- TuneWrites
  Tempos = {"normal"}
  StatusGap = 0
  Tones = {"triangle"}
  DmcRates = {0}
  DmcLengths = {1}
  LengthLoads = {1}
  CallTimes = {}
  FrameLengths = {}
  PalModes = {}
  Outputs = {TRUE}
  buffer_size_ = 4
  Quality = 1
  blip_buffer_extra = 1
  Unit = 3
  factor_ = 1
  Word = 256
  first_frame_length = 8
  AccessTime = 4
  MaxAccesses = 2
  MaxFrames = 6
  out_size = 3
  header_size = 4
  buf_size = 8
INVARIANTS DemoAsserts SamplesOnTime
PROPERTIES IsARecording RecordingEnds
CHECK_DEADLOCK FALSE
