SPECIFICATION Spec
CONSTANTS
  Kinds = {"mmc5_square"}
  period_range = 4
  low_range = 2
  min_period = 1
  envelope_top = 1
  tri_range = 4
  noise_bits = 4
  mode_tap = 3
  Longest = 4
  Periods = {1, 3}
  NoisePeriods = {2, 5}
  Controls <- MCControls
  Sweeps <- MCSweeps
  LinearLoads = {0, 1}
  LengthLoads = {1}
  RunLengths = {0, 1, 7}
  vrc6_phases = 4
  vrc6_shortest = 1
  Vrc6Duties = {0, 1}
  Vrc6Periods = {0, 1, 2}
  amp_range = 16
  amp_step = 4
  SawRates = {0, 3}
  period_factor = 2
  shortest_period = 3
  Fme7Periods = {0, 1, 2, 3}
  delay_range = 6
  low_period = 3
  freq_scale = 1
  least_freq = 1
  NamcoFreqs = {0, 1, 2, 3}
  NamcoActives = {1, 2}
  NamcoRanks = {0, 1}
  WaveSizes = {1, 2}
  Samples = {0, 1}
  Volumes = {0, 1}
  mmc5_frame_period = 4
  DacLoads = {0, 1}
  wave_size = 4
  fract_range = 4
  bias_range = 16
  gain_unit = 2
  lfo_tempo = 2
  master_volumes <- MCMasters
  FreqHighs = {0}
  ModHighs = {0, 1}
  FdsClients <- MCFdsClients
  fm_period = 3
INVARIANT UnsetIsNotHeard
